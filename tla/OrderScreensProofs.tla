------------------------- MODULE OrderScreensProofs -------------------------
(***************************************************************************)
(* Proofs about OrderScreens and the Inventory it shows: for any orders,   *)
(* demands, warehouses, opening stock and counts, with or without          *)
(* transactions, the screens of an order offer what fits it, a row         *)
(* reserves what is held of it, and units and lines add up.                *)
(***************************************************************************)
EXTENDS OrderScreens, FiniteSetTheorems, WellFoundedInduction, TLAPS

---------------------------------------------------------------------------
(* Sums over finite sets, as in BillingProofs, which is about other        *)
(* variables.                                                              *)

(* The element the sum takes out, and the equation.                         *)
Chosen(s) == CHOOSE x \in s : TRUE
Iterates(f, g, S) ==
    g = [s \in SUBSET S |-> IF s = {} THEN 0 ELSE f[Chosen(s)] + g[s \ {Chosen(s)}]]

(* The library's sum, with its folds expanded.                             *)
LEMMA SumIsIteration ==
    ASSUME NEW f, NEW S
    PROVE  SumFunctionOnSet(f, S) = (CHOOSE g : Iterates(f, g, S))[S]
BY DEF SumFunctionOnSet, FoldFunctionOnSet, MapThenFoldSet, Iterates, Chosen

(* A set of subsets that holds each one whose strict subsets it holds.     *)
LEMMA SubsetInduction ==
    ASSUME NEW S, IsFiniteSet(S), NEW P,
           \A T \in SUBSET S : (\A U \in SUBSET T : U # T => U \in P) => T \in P
    PROVE  SUBSET S \subseteq P
<1>. DEFINE R == StrictSubsetOrdering(S)
            Bad == (SUBSET S) \ P
<1>1. IsWellFoundedOn(R, FiniteSubsetsOf(S))
    BY FS_StrictSubsetOrderingWellFounded
<1>2. SUFFICES ASSUME Bad # {} PROVE FALSE
    OBVIOUS
<1>3. FiniteSubsetsOf(S) = SUBSET S
    BY FS_Subset DEF FiniteSubsetsOf
<1>4. Bad \subseteq SUBSET S
    OBVIOUS
<1>. HIDE DEF R, Bad
<1>5. PICK T \in Bad : \A U \in Bad : ~(<<U, T>> \in R)
    BY <1>1, <1>2, <1>3, <1>4, WFMin
<1>6. \A U \in SUBSET T : U # T => U \in P
    BY <1>4, <1>5 DEF R, StrictSubsetOrdering, Bad
<1>. QED
    BY <1>5, <1>6 DEF Bad

(* A sum is a summand and the sum of the others.                           *)
LEMMA SumUnfolds ==
    ASSUME NEW f, NEW S, IsFiniteSet(S)
    PROVE  SumFunctionOnSet(f, S) =
               IF S = {} THEN 0 ELSE f[Chosen(S)] + SumFunctionOnSet(f, S \ {Chosen(S)})
<1>. DEFINE Sum(T) == SumFunctionOnSet(f, T)
            Unfolds(T) == Sum(T) = IF T = {} THEN 0 ELSE f[Chosen(T)] + Sum(T \ {Chosen(T)})
            Unique(T) == \A g : Iterates(f, g, T) => \A s \in SUBSET T : g[s] = Sum(s)
            P == {T \in SUBSET S : Unfolds(T) /\ Unique(T)}
<1>1. ASSUME NEW T \in SUBSET S, \A U \in SUBSET T : U # T => U \in P
      PROVE  T \in P
    <2>. DEFINE H == [s \in SUBSET T |-> IF s = {} THEN 0 ELSE f[Chosen(s)] + Sum(s \ {Chosen(s)})]
    <2>1. \A s \in SUBSET T : s # {} => s \ {Chosen(s)} \in SUBSET T /\ s \ {Chosen(s)} # T
                                        /\ Chosen(s) \in s
        BY DEF Chosen
    <2>2. ASSUME NEW s \in SUBSET T, s # T PROVE H[s] = Sum(s)
        <3>. HIDE DEF Sum
        <3>. QED
            BY <1>1, <2>2
    <2>3. Iterates(f, H, T)
        <3>. HIDE DEF H
        <3>1. \A s \in SUBSET T : H[s] = IF s = {} THEN 0 ELSE f[Chosen(s)] + H[s \ {Chosen(s)}]
            <4>. SUFFICES ASSUME NEW s \in SUBSET T
                          PROVE  H[s] = IF s = {} THEN 0 ELSE f[Chosen(s)] + H[s \ {Chosen(s)}]
                OBVIOUS
            <4>1. CASE s = {}
                BY <4>1 DEF H
            <4>2. CASE s # {}
                <5>1. H[s \ {Chosen(s)}] = Sum(s \ {Chosen(s)})
                    BY <2>1, <2>2, <4>2
                <5>2. H[s] = f[Chosen(s)] + Sum(s \ {Chosen(s)})
                    BY <4>2 DEF H
                <5>. QED
                    BY <4>2, <5>1, <5>2
            <4>. QED
                BY <4>1, <4>2
        <3>2. H = [s \in SUBSET T |-> H[s]]
            BY DEF H
        <3>. QED
            BY <3>1, <3>2 DEF Iterates
    <2>4. ASSUME NEW g, Iterates(f, g, T), NEW s \in SUBSET T, s # T
          PROVE  g[s] = Sum(s)
        <3>. DEFINE h == [u \in SUBSET s |-> g[u]]
        <3>1. Iterates(f, h, s)
            <4>1. \A u \in SUBSET s : g[u] = IF u = {} THEN 0 ELSE f[Chosen(u)] + g[u \ {Chosen(u)}]
                BY <2>4 DEF Iterates
            <4>2. \A u \in SUBSET s : h[u] = g[u] /\ h[u \ {Chosen(u)}] = g[u \ {Chosen(u)}]
                OBVIOUS
            <4>3. \A u \in SUBSET s : h[u] = IF u = {} THEN 0 ELSE f[Chosen(u)] + h[u \ {Chosen(u)}]
                BY <4>1, <4>2
            <4>4. h = [u \in SUBSET s |-> h[u]]
                OBVIOUS
            <4>. HIDE DEF h
            <4>. QED
                BY <4>3, <4>4 DEF Iterates
        <3>2. Unique(s)
            BY <1>1, <2>4
        <3>3. h[s] = Sum(s)
            <4>. HIDE DEF h, Sum
            <4>. QED
                BY <3>1, <3>2
        <3>. QED
            BY <3>3
    <2>5. ASSUME NEW g, Iterates(f, g, T) PROVE g[T] = H[T]
        <3>1. g[T] = IF T = {} THEN 0 ELSE f[Chosen(T)] + g[T \ {Chosen(T)}]
            BY <2>5 DEF Iterates
        <3>2. T # {} => g[T \ {Chosen(T)}] = Sum(T \ {Chosen(T)})
            BY <2>1, <2>4, <2>5
        <3>. QED
            BY <3>1, <3>2
    <2>6. Sum(T) = H[T]
        <3>. DEFINE i == CHOOSE g : Iterates(f, g, T)
        <3>1. Iterates(f, i, T)
            <4>. HIDE DEF H
            <4>. QED
                BY <2>3
        <3>2. Sum(T) = i[T]
            BY SumIsIteration
        <3>. HIDE DEF i, H, Sum
        <3>. QED
            BY <2>5, <3>1, <3>2
    <2>7. Unfolds(T)
        BY <2>6
    <2>8. Unique(T)
        <3>. HIDE DEF H, Sum
        <3>. QED
            BY <2>4, <2>5, <2>6
    <2>. QED
        BY <2>7, <2>8
<1>. HIDE DEF P
<1>2. SUBSET S \subseteq P
    BY <1>1, SubsetInduction
<1>. QED
    BY <1>2 DEF P

(* Nothing sums up to nothing.                                             *)
LEMMA SumOfNothing ==
    ASSUME NEW f
    PROVE  SumFunctionOnSet(f, {}) = 0
BY SumUnfolds, FS_EmptySet

(* Whichever element is taken out first, the rest is its sum.              *)
LEMMA SumWithout ==
    ASSUME NEW f, NEW S, IsFiniteSet(S), \A y \in S : f[y] \in Int
    PROVE  /\ SumFunctionOnSet(f, S) \in Int
           /\ \A x \in S : SumFunctionOnSet(f, S) = f[x] + SumFunctionOnSet(f, S \ {x})
<1>. DEFINE Sum(T) == SumFunctionOnSet(f, T)
            P == {T \in SUBSET S : /\ Sum(T) \in Int
                                   /\ \A x \in T : Sum(T) = f[x] + Sum(T \ {x})}
<1>1. ASSUME NEW T \in SUBSET S, \A U \in SUBSET T : U # T => U \in P
      PROVE  T \in P
    <2>. DEFINE c == Chosen(T)
    <2>1. Sum(T) = IF T = {} THEN 0 ELSE f[c] + Sum(T \ {c})
        BY SumUnfolds, FS_Subset
    <2>2. T # {} => c \in T
        BY DEF Chosen
    <2>3. \A U \in SUBSET T : U # T => Sum(U) \in Int /\ \A x \in U : Sum(U) = f[x] + Sum(U \ {x})
        BY <1>1
    <2>. HIDE DEF c, Sum
    <2>4. Sum(T) \in Int
        BY <2>1, <2>2, <2>3
    <2>5. ASSUME NEW x \in T, x # c PROVE Sum(T) = f[x] + Sum(T \ {x})
        <3>1. /\ T \ {c} \in SUBSET T /\ T \ {c} # T /\ x \in T \ {c}
              /\ T \ {x} \in SUBSET T /\ T \ {x} # T /\ c \in T \ {x}
              /\ (T \ {c}) \ {x} = (T \ {x}) \ {c}
              /\ (T \ {x}) \ {c} \in SUBSET T /\ (T \ {x}) \ {c} # T
            BY <2>2, <2>5
        <3>2. Sum(T \ {c}) = f[x] + Sum((T \ {c}) \ {x})
            BY <2>3, <3>1
        <3>3. Sum(T \ {x}) = f[c] + Sum((T \ {x}) \ {c})
            BY <2>3, <3>1
        <3>4. Sum((T \ {x}) \ {c}) \in Int /\ f[c] \in Int /\ f[x] \in Int /\ T # {}
            BY <2>2, <2>3, <3>1
        <3>5. Sum((T \ {c}) \ {x}) = Sum((T \ {x}) \ {c})
            BY <3>1
        <3>. QED
            BY <2>1, <3>2, <3>3, <3>4, <3>5
    <2>6. \A x \in T : Sum(T) = f[x] + Sum(T \ {x})
        BY <2>1, <2>5
    <2>. QED
        BY <2>4, <2>6
<1>2. SUBSET S \subseteq P
    <2>. HIDE DEF P
    <2>. QED
        BY <1>1, SubsetInduction
<1>. HIDE DEF Sum
<1>. QED
    BY <1>2 DEF Sum

(* Only the summands count.                                                *)
LEMMA SumAgrees ==
    ASSUME NEW f, NEW g, NEW S, IsFiniteSet(S),
           \A x \in S : f[x] \in Int /\ g[x] = f[x]
    PROVE  SumFunctionOnSet(g, S) = SumFunctionOnSet(f, S)
<1>. DEFINE F(T) == SumFunctionOnSet(f, T)
            G(T) == SumFunctionOnSet(g, T)
            P == {T \in SUBSET S : G(T) = F(T)}
<1>1. ASSUME NEW T \in SUBSET S, \A U \in SUBSET T : U # T => U \in P
      PROVE  T \in P
    <2>. DEFINE c == Chosen(T)
    <2>1. /\ F(T) = IF T = {} THEN 0 ELSE f[c] + F(T \ {c})
          /\ G(T) = IF T = {} THEN 0 ELSE g[c] + G(T \ {c})
        BY SumUnfolds, FS_Subset
    <2>2. T # {} => c \in T
        BY DEF Chosen
    <2>. HIDE DEF c, F, G
    <2>. QED
        BY <1>1, <2>1, <2>2
<1>2. SUBSET S \subseteq P
    <2>. HIDE DEF P
    <2>. QED
        BY <1>1, SubsetInduction
<1>. HIDE DEF F, G
<1>. QED
    BY <1>2 DEF F, G

(* No smaller where no summand is, and equal only if all are.              *)
LEMMA SumIsMonotone ==
    ASSUME NEW f, NEW g, NEW S, IsFiniteSet(S),
           \A x \in S : f[x] \in Int /\ g[x] \in Int /\ f[x] <= g[x]
    PROVE  SumFunctionOnSet(f, S) <= SumFunctionOnSet(g, S)
<1>. DEFINE F(T) == SumFunctionOnSet(f, T)
            G(T) == SumFunctionOnSet(g, T)
            P == {T \in SUBSET S : F(T) <= G(T) /\ F(T) \in Int /\ G(T) \in Int}
<1>1. ASSUME NEW T \in SUBSET S, \A U \in SUBSET T : U # T => U \in P
      PROVE  T \in P
    <2>. DEFINE c == Chosen(T)
    <2>1. /\ F(T) = IF T = {} THEN 0 ELSE f[c] + F(T \ {c})
          /\ G(T) = IF T = {} THEN 0 ELSE g[c] + G(T \ {c})
        BY SumUnfolds, FS_Subset
    <2>2. T # {} => c \in T /\ T \ {c} \in SUBSET T /\ T \ {c} # T
        BY DEF Chosen
    <2>. HIDE DEF c, F, G
    <2>. QED
        BY <1>1, <2>1, <2>2
<1>2. SUBSET S \subseteq P
    <2>. HIDE DEF P
    <2>. QED
        BY <1>1, SubsetInduction
<1>. HIDE DEF F, G
<1>. QED
    BY <1>2 DEF F, G

(* Where one summand changes, the sum changes by as much.                  *)
LEMMA SumChangesByOne ==
    ASSUME NEW f, NEW g, NEW S, IsFiniteSet(S), NEW x \in S,
           \A y \in S : f[y] \in Int /\ g[y] \in Int,
           \A y \in S : y # x => g[y] = f[y]
    PROVE  SumFunctionOnSet(g, S) = SumFunctionOnSet(f, S) - f[x] + g[x]
<1>1. IsFiniteSet(S \ {x})
    BY FS_RemoveElement
<1>2. SumFunctionOnSet(g, S \ {x}) = SumFunctionOnSet(f, S \ {x})
    BY <1>1, SumAgrees
<1>3. SumFunctionOnSet(f, S \ {x}) \in Int
    BY <1>1, SumWithout
<1>4. /\ SumFunctionOnSet(f, S) = f[x] + SumFunctionOnSet(f, S \ {x})
      /\ SumFunctionOnSet(g, S) = g[x] + SumFunctionOnSet(g, S \ {x})
    BY SumWithout
<1>. QED
    BY <1>2, <1>3, <1>4

(* A sum of sums.                                                          *)
LEMMA SumAdds ==
    ASSUME NEW f, NEW g, NEW h, NEW S, IsFiniteSet(S),
           \A x \in S : f[x] \in Int /\ g[x] \in Int /\ h[x] = f[x] + g[x]
    PROVE  SumFunctionOnSet(h, S) = SumFunctionOnSet(f, S) + SumFunctionOnSet(g, S)
<1>. DEFINE F(T) == SumFunctionOnSet(f, T)
            G(T) == SumFunctionOnSet(g, T)
            H(T) == SumFunctionOnSet(h, T)
            P == {T \in SUBSET S : H(T) = F(T) + G(T) /\ F(T) \in Int /\ G(T) \in Int}
<1>1. ASSUME NEW T \in SUBSET S, \A U \in SUBSET T : U # T => U \in P
      PROVE  T \in P
    <2>. DEFINE c == Chosen(T)
    <2>1. /\ F(T) = IF T = {} THEN 0 ELSE f[c] + F(T \ {c})
          /\ G(T) = IF T = {} THEN 0 ELSE g[c] + G(T \ {c})
          /\ H(T) = IF T = {} THEN 0 ELSE h[c] + H(T \ {c})
        BY SumUnfolds, FS_Subset
    <2>2. T # {} => c \in S /\ T \ {c} \in SUBSET T /\ T \ {c} # T
        BY DEF Chosen
    <2>. HIDE DEF c, F, G, H
    <2>3. T # {} => T \ {c} \in P
        BY <1>1, <2>2
    <2>. QED
        BY <2>1, <2>2, <2>3
<1>2. SUBSET S \subseteq P
    <2>. HIDE DEF P
    <2>. QED
        BY <1>1, SubsetInduction
<1>. HIDE DEF F, G, H
<1>. QED
    BY <1>2 DEF F, G, H

(* What is nothing outside a part is the sum over the part.                *)
LEMMA SumOfPart ==
    ASSUME NEW f, NEW S, IsFiniteSet(S), NEW R \in SUBSET S,
           \A x \in S : f[x] \in Int /\ (x \notin R => f[x] = 0)
    PROVE  SumFunctionOnSet(f, S) = SumFunctionOnSet(f, R)
<1>. DEFINE F(T) == SumFunctionOnSet(f, T)
            P == {T \in SUBSET S : F(T) = F(T \cap R)}
<1>1. ASSUME NEW T \in SUBSET S, \A U \in SUBSET T : U # T => U \in P
      PROVE  T \in P
    <2>. DEFINE c == Chosen(T)
    <2>1. F(T) = IF T = {} THEN 0 ELSE f[c] + F(T \ {c})
        BY SumUnfolds, FS_Subset
    <2>2. T # {} => c \in T /\ c \in S /\ T \ {c} \in P
        BY <1>1 DEF Chosen
    <2>3. T # {} => F(T \ {c}) = F((T \ {c}) \cap R) /\ F(T \ {c}) \in Int
        <3>. HIDE DEF c
        <3>. SUFFICES ASSUME T # {}
                      PROVE  F(T \ {c}) = F((T \ {c}) \cap R) /\ F(T \ {c}) \in Int
            OBVIOUS
        <3>1. IsFiniteSet(T \ {c}) /\ \A x \in T \ {c} : f[x] \in Int
            BY FS_Subset
        <3>2. F(T \ {c}) \in Int
            BY <3>1, SumWithout
        <3>3. F(T \ {c}) = F((T \ {c}) \cap R)
            <4>. HIDE DEF F
            <4>. QED
                BY <2>2
        <3>. QED
            BY <3>2, <3>3
    <2>4. CASE T = {}
        <3>. HIDE DEF F
        <3>1. T \cap R = T
            BY <2>4
        <3>. QED
            BY <3>1
    <2>5. CASE T # {} /\ c \in R
        <3>1. c \in T \cap R /\ (T \cap R) \ {c} = (T \ {c}) \cap R
            BY <2>2, <2>5
        <3>2. F(T \cap R) = f[c] + F((T \cap R) \ {c})
            <4>. HIDE DEF c
            <4>1. IsFiniteSet(T \cap R)
                BY FS_Subset
            <4>. QED
                BY <3>1, <4>1, SumWithout
        <3>. HIDE DEF F, c
        <3>. QED
            BY <2>1, <2>3, <2>5, <3>1, <3>2
    <2>6. CASE T # {} /\ c \notin R
        <3>1. T \cap R = (T \ {c}) \cap R /\ f[c] = 0
            BY <2>2, <2>6
        <3>. HIDE DEF F, c
        <3>2. F(T \cap R) = F((T \ {c}) \cap R)
            BY <3>1
        <3>3. F(T) = F(T \ {c})
            BY <2>1, <2>3, <2>6, <3>1
        <3>. QED
            BY <2>3, <2>6, <3>2, <3>3
    <2>. QED
        BY <2>4, <2>5, <2>6
<1>2. SUBSET S \subseteq P
    <2>. HIDE DEF P
    <2>. QED
        BY <1>1, SubsetInduction
<1>3. S \cap R = R
    OBVIOUS
<1>. HIDE DEF F
<1>. QED
    BY <1>2, <1>3 DEF F

(* Zeros sum up to zero.                                                   *)
LEMMA SumOfZeros ==
    ASSUME NEW f, NEW S, IsFiniteSet(S), \A x \in S : f[x] = 0
    PROVE  SumFunctionOnSet(f, S) = 0
BY SumOfPart, SumOfNothing

(* A sum of natural numbers is one, and no smaller than any of them.       *)
LEMMA SumIsNat ==
    ASSUME NEW f, NEW S, IsFiniteSet(S), \A x \in S : f[x] \in Nat
    PROVE  /\ SumFunctionOnSet(f, S) \in Nat
           /\ \A x \in S : f[x] <= SumFunctionOnSet(f, S)
<1>1. ASSUME NEW T \in SUBSET S
      PROVE  SumFunctionOnSet(f, T) \in Nat
    <2>. DEFINE z == [x \in T |-> 0]
    <2>1. IsFiniteSet(T) /\ \A x \in T : z[x] \in Int /\ f[x] \in Int /\ z[x] <= f[x]
        BY FS_Subset
    <2>2. SumFunctionOnSet(z, T) = 0
        BY <2>1, SumOfZeros
    <2>. HIDE DEF z
    <2>3. SumFunctionOnSet(z, T) <= SumFunctionOnSet(f, T)
        BY <2>1, SumIsMonotone
    <2>4. SumFunctionOnSet(f, T) \in Int
        BY <2>1, SumWithout
    <2>. QED
        BY <2>2, <2>3, <2>4
<1>2. ASSUME NEW x \in S
      PROVE  f[x] <= SumFunctionOnSet(f, S)
    <2>1. SumFunctionOnSet(f, S) = f[x] + SumFunctionOnSet(f, S \ {x})
        BY SumWithout
    <2>2. SumFunctionOnSet(f, S \ {x}) \in Nat
        BY <1>1
    <2>. QED
        BY <2>1, <2>2
<1>. QED
    BY <1>1, <1>2

---------------------------------------------------------------------------
(* Where an order stands, by the status of its fulfillment.                *)

Fields == {"status", "alloc", "shipped", "back", "reserved", "ready"}

(* Where a fulfillment stands, by its status.                              *)
Standing(f) ==
    /\ DOMAIN f = Fields
    /\ f.reserved \in BOOLEAN
    /\ f.ready \in BOOLEAN
    /\ f.status \in FulfillmentStatus
    /\ f.status = "SPLIT_PENDING" => ~f.reserved
    /\ f.status \in {"RESERVED", "PARTIALLY_SHIPPED"} => f.reserved
    /\ f.status \in {"BACKORDER", "PARTIALLY_SHIPPED"} <=> HasBackorder(f.back)
    /\ f.ready => HasBackorder(f.back)

(* And what of the order has left by then.                                 *)
NothingLeft(o, f, doc) ==
    /\ f.shipped = {}
    /\ doc.status = "CONFIRMED"
    /\ \A l \in LinesIn(o) : doc.qtyShipped[l] = 0

StandingInv ==
    /\ DOMAIN fulfillment = Orders
    /\ DOMAIN order = Orders
    /\ \A o \in Orders : Confirmed(o) =>
          /\ Standing(fulfillment[o])
          /\ Replannable(o) => NothingLeft(o, fulfillment[o], order[o])

---------------------------------------------------------------------------
(* A split that was just planned, accepted, overridden or shipped stands   *)
(* where its status says.                                                  *)

(* A planned split stands where its status says; nothing of it has left.   *)
LEMMA PlannedStands ==
    ASSUME NEW o, NEW rows
    PROVE  Standing(Planned(o, rows)) /\ Planned(o, rows).shipped = {}
  <1> DEFINE plan == PlanWarehouseSplit(rows, Demand[o])
             back == Backorders(Demand[o], plan)
  <1>1. Planned(o, rows) = [status |-> IF HasBackorder(back) THEN "BACKORDER" ELSE "SPLIT_PENDING",
                            alloc |-> plan, shipped |-> {}, back |-> back,
                            reserved |-> FALSE, ready |-> FALSE]
    BY DEF Planned
  <1> HIDE DEF plan, back
  <1>2. CASE HasBackorder(back)
    BY <1>1, <1>2 DEF Standing, FulfillmentStatus, Fields
  <1>3. CASE ~HasBackorder(back)
    BY <1>1, <1>3 DEF Standing, FulfillmentStatus, Fields
  <1> QED BY <1>2, <1>3

(* So does a split that somebody chose.                                    *)
LEMMA OverriddenStands ==
    ASSUME NEW o, NEW alloc
    PROVE  Standing(Overridden(o, alloc)) /\ Overridden(o, alloc).shipped = {}
  <1> DEFINE back == Short(o, alloc)
  <1>1. Overridden(o, alloc) = [status |-> IF HasBackorder(back) THEN "BACKORDER" ELSE "RESERVED",
                                alloc |-> alloc, shipped |-> {}, back |-> back,
                                reserved |-> TRUE, ready |-> FALSE]
    BY DEF Overridden, StatusReserved
  <1> HIDE DEF back
  <1>2. CASE HasBackorder(back)
    BY <1>1, <1>2 DEF Standing, FulfillmentStatus, Fields
  <1>3. CASE ~HasBackorder(back)
    BY <1>1, <1>3 DEF Standing, FulfillmentStatus, Fields
  <1> QED BY <1>2, <1>3

(* Accepting a split keeps it so.                                          *)
LEMMA AcceptedStands ==
    ASSUME NEW f, Standing(f), ~f.reserved, f.status # "SHIPPED"
    PROVE  Standing(Accepted(f)) /\ Accepted(f).shipped = f.shipped
  <1>1. f.status # "PARTIALLY_SHIPPED"
    BY DEF Standing
  <1>2. /\ DOMAIN Accepted(f) = Fields
        /\ Accepted(f).reserved = TRUE
        /\ Accepted(f).status = IF HasBackorder(f.back) THEN "BACKORDER" ELSE "RESERVED"
        /\ Accepted(f).back = f.back /\ Accepted(f).ready = f.ready
        /\ Accepted(f).shipped = f.shipped
    BY DEF Accepted, StatusReserved, Standing, Fields
  <1>3. CASE HasBackorder(f.back)
    BY <1>2, <1>3 DEF Standing, FulfillmentStatus
  <1>4. CASE ~HasBackorder(f.back)
    BY <1>2, <1>4 DEF Standing, FulfillmentStatus
  <1> QED BY <1>3, <1>4

(* Shipping what is reserved keeps it so.                                  *)
LEMMA ShippedStands ==
    ASSUME NEW f, Standing(f), f.reserved
    PROVE  Standing(ShippedAll(f)) /\ ShippedAll(f).status \in {"PARTIALLY_SHIPPED", "SHIPPED"}
  <1>1. /\ DOMAIN ShippedAll(f) = Fields
        /\ ShippedAll(f).reserved = f.reserved
        /\ ShippedAll(f).status = IF HasBackorder(f.back) THEN "PARTIALLY_SHIPPED" ELSE "SHIPPED"
        /\ ShippedAll(f).back = f.back /\ ShippedAll(f).ready = f.ready
    BY DEF ShippedAll, Standing, Fields
  <1>2. CASE HasBackorder(f.back)
    BY <1>1, <1>2 DEF Standing, FulfillmentStatus
  <1>3. CASE ~HasBackorder(f.back)
    BY <1>1, <1>3 DEF Standing, FulfillmentStatus
  <1> QED BY <1>2, <1>3

(* Consolidating leaves a shipped fulfillment with no backorder.           *)
LEMMA ConsolidatedStands ==
    ASSUME NEW o, NEW f, Standing(f), NEW sent
    PROVE  Standing(Consolidated(o, f, sent)) /\ Consolidated(o, f, sent).status = "SHIPPED"
  <1> DEFINE g == Joined(o, f, sent)
  <1>1. DOMAIN g = Fields /\ g.reserved = f.reserved
    BY DEF Joined, Standing, Fields
  <1> HIDE DEF g
  <1>2. /\ DOMAIN Consolidated(o, f, sent) = Fields
        /\ Consolidated(o, f, sent).reserved = f.reserved
        /\ Consolidated(o, f, sent).status = "SHIPPED"
        /\ Consolidated(o, f, sent).back = [l \in LinesIn(o) |-> 0]
        /\ Consolidated(o, f, sent).ready = FALSE
    BY <1>1 DEF Consolidated, Fields, g
  <1>3. ~HasBackorder([l \in LinesIn(o) |-> 0])
    BY DEF HasBackorder, Waiting
  <1> QED BY <1>2, <1>3 DEF Standing, FulfillmentStatus

---------------------------------------------------------------------------
(* A step on one order: it suffices to look at that one.                   *)

(* A step that moves one order keeps all others standing.                  *)
LEMMA OneOrderMoves ==
    ASSUME StandingInv, NEW o \in Orders, NEW f, NEW doc,
           fulfillment' = [fulfillment EXCEPT ![o] = f],
           order' = [order EXCEPT ![o] = doc],
           Standing(f),
           f.status \notin {"SHIPPED", "PARTIALLY_SHIPPED"} => NothingLeft(o, f, doc)
    PROVE  StandingInv'
  <1>1. /\ DOMAIN fulfillment' = Orders /\ DOMAIN order' = Orders
        /\ fulfillment'[o] = f /\ order'[o] = doc
        /\ \A p \in Orders \ {o} : fulfillment'[p] = fulfillment[p] /\ order'[p] = order[p]
    BY DEF StandingInv
  <1>2. ASSUME NEW p \in Orders, Confirmed(p)'
        PROVE  Standing(fulfillment'[p]) /\ (Replannable(p)' => NothingLeft(p, fulfillment'[p], order'[p]))
    <2>1. CASE p = o
      BY <1>1, <2>1 DEF Replannable
    <2>2. CASE p # o
      BY <1>1, <1>2, <2>2 DEF StandingInv, Confirmed, Replannable
    <2> QED BY <2>1, <2>2
  <1> QED BY <1>1, <1>2 DEF StandingInv

(* Assigning an order what it is, [order EXCEPT ![o] = order[o]], leaves   *)
(* the orders as they are.                                                 *)
LEMMA OneFulfillmentMoves ==
    ASSUME StandingInv, NEW o \in Orders, NEW f,
           fulfillment' = [fulfillment EXCEPT ![o] = f],
           UNCHANGED order,
           Standing(f),
           f.status \notin {"SHIPPED", "PARTIALLY_SHIPPED"} => NothingLeft(o, f, order[o])
    PROVE  StandingInv'
  <1>1. /\ DOMAIN fulfillment' = Orders /\ DOMAIN order' = Orders
        /\ fulfillment'[o] = f /\ order'[o] = order[o]
        /\ \A p \in Orders \ {o} : fulfillment'[p] = fulfillment[p] /\ order'[p] = order[p]
    BY DEF StandingInv
  <1>2. ASSUME NEW p \in Orders, Confirmed(p)'
        PROVE  Standing(fulfillment'[p]) /\ (Replannable(p)' => NothingLeft(p, fulfillment'[p], order'[p]))
    <2>1. CASE p = o
      BY <1>1, <2>1 DEF Replannable
    <2>2. CASE p # o
      BY <1>1, <1>2, <2>2 DEF StandingInv, Confirmed, Replannable
    <2> QED BY <2>1, <2>2
  <1> QED BY <1>1, <1>2 DEF StandingInv

---------------------------------------------------------------------------
(* Before anything is confirmed all of it holds.                           *)
LEMMA StandingAtFirst == Init => StandingInv
  BY DEF Init, StandingInv, Confirmed

(* A confirmation keeps every order standing.                              *)
LEMMA ConfirmStands ==
    ASSUME StandingInv, NEW o \in Orders, Confirm(o) PROVE StandingInv'
  <1> DEFINE f == Planned(o, stock)
             doc == [status |-> "CONFIRMED", qtyShipped |-> [l \in LinesIn(o) |-> 0]]
  <1>1. Standing(f) /\ f.shipped = {}
    BY PlannedStands
  <1>2. NothingLeft(o, f, doc)
    BY <1>1 DEF NothingLeft
  <1>3. fulfillment' = [fulfillment EXCEPT ![o] = f] /\ order' = [order EXCEPT ![o] = doc]
    BY DEF Confirm
  <1> HIDE DEF f, doc
  <1> QED BY <1>1, <1>2, <1>3, OneOrderMoves

(* So does a plan of what has not left.                                    *)
LEMMA PlanStands ==
    ASSUME StandingInv, NEW o \in Orders, Plan(o) PROVE StandingInv'
  <1>1. PICK rows : fulfillment' = [fulfillment EXCEPT ![o] = Planned(o, rows)]
    BY Zenon DEF Plan
  <1> DEFINE f == Planned(o, rows)
  <1>2. Standing(f) /\ f.shipped = {}
    BY PlannedStands
  <1>3. NothingLeft(o, fulfillment[o], order[o])
    BY DEF Plan, Replannable, StandingInv
  <1>4. NothingLeft(o, f, order[o])
    BY <1>2, <1>3 DEF NothingLeft
  <1>5. UNCHANGED order
    BY DEF Plan
  <1>6. fulfillment' = [fulfillment EXCEPT ![o] = f]
    BY <1>1
  <1> HIDE DEF f
  <1> QED BY <1>2, <1>4, <1>5, <1>6, OneFulfillmentMoves

(* So does an acceptance.                                                  *)
LEMMA AcceptStands ==
    ASSUME StandingInv, NEW o \in Orders, Accept(o) PROVE StandingInv'
  <1> DEFINE f == fulfillment[o]
  <1>1. Standing(f) /\ ~f.reserved /\ f.status # "SHIPPED"
    BY DEF Accept, Acceptable, StandingInv
  <1>2. f.status # "PARTIALLY_SHIPPED"
    BY <1>1 DEF Standing
  <1>3. NothingLeft(o, f, order[o])
    BY <1>1, <1>2 DEF Accept, Acceptable, Replannable, StandingInv
  <1>4. Standing(Accepted(f)) /\ Accepted(f).shipped = f.shipped
    BY <1>1, AcceptedStands
  <1>5. NothingLeft(o, Accepted(f), order[o])
    BY <1>3, <1>4 DEF NothingLeft
  <1>6. fulfillment' = [fulfillment EXCEPT ![o] = Accepted(f)] /\ UNCHANGED order
    BY DEF Accept, StandingInv
  <1> HIDE DEF f
  <1> QED BY <1>4, <1>5, <1>6, OneFulfillmentMoves

(* So does an override of what has not left.                               *)
LEMMA OverrideStands ==
    ASSUME StandingInv, NEW o \in Orders, NEW alloc, Override(o, alloc) PROVE StandingInv'
  <1> DEFINE f == Overridden(o, alloc)
  <1>1. Standing(f) /\ f.shipped = {}
    BY OverriddenStands
  <1>2. NothingLeft(o, fulfillment[o], order[o])
    BY DEF Override, MayOverride, Replannable, StandingInv
  <1>3. NothingLeft(o, f, order[o])
    BY <1>1, <1>2 DEF NothingLeft
  <1>4. fulfillment' = [fulfillment EXCEPT ![o] = f] /\ UNCHANGED order
    BY DEF Override
  <1> HIDE DEF f
  <1> QED BY <1>1, <1>3, <1>4, OneFulfillmentMoves

(* So does a shipment.                                                     *)
LEMMA ShipStands ==
    ASSUME StandingInv, NEW o \in Orders, Ship(o) PROVE StandingInv'
  <1> DEFINE f == fulfillment[o]
             doc == OrderShipped(o, order[o], Unshipped(f))
  <1>1. Standing(f) /\ f.reserved
    BY DEF Ship, Shippable, StandingInv
  <1>2. Standing(ShippedAll(f)) /\ ShippedAll(f).status \in {"PARTIALLY_SHIPPED", "SHIPPED"}
    BY <1>1, ShippedStands
  <1>3. /\ fulfillment' = [fulfillment EXCEPT ![o] = ShippedAll(f)]
        /\ order' = [order EXCEPT ![o] = doc]
    BY DEF Ship, StandingInv
  <1> HIDE DEF f, doc
  <1> QED BY <1>2, <1>3, OneOrderMoves

(* So does a consolidation.                                                *)
LEMMA ConsolidateStands ==
    ASSUME StandingInv, NEW o \in Orders, NEW source, Consolidate(o, source) PROVE StandingInv'
  <1> DEFINE f == fulfillment[o]
             sent == Consolidation(o, f, source)
             doc == OrderSent(o, order[o], sent)
  <1>1. Standing(f)
    BY DEF Consolidate, MayConsolidate, StandingInv
  <1>2. /\ fulfillment' = [fulfillment EXCEPT ![o] = Consolidated(o, f, sent)]
        /\ order' = [order EXCEPT ![o] = doc]
    BY DEF Consolidate, StandingInv
  <1> HIDE DEF f, sent, doc
  <1>3. Standing(Consolidated(o, f, sent)) /\ Consolidated(o, f, sent).status = "SHIPPED"
    BY <1>1, ConsolidatedStands
  <1> QED BY <1>2, <1>3, OneOrderMoves

(* A count marks only what waits for goods.                                *)
LEMMA AdjustStands ==
    ASSUME StandingInv, NEW w \in Sites, NEW p \in Products, NEW delta \in Deltas, Adjust(w, p, delta)
    PROVE  StandingInv'
  <1>1. PICK rows : fulfillment' = [o \in Orders |->
                        IF Flipped(o, p, rows) THEN [fulfillment[o] EXCEPT !.ready = TRUE]
                                               ELSE fulfillment[o]]
    BY Zenon DEF Adjust, Recount
  <1>2. UNCHANGED order
    BY DEF Adjust, Recount
  <1>3. ASSUME NEW o \in Orders, Flipped(o, p, rows)
        PROVE  LET f == [fulfillment[o] EXCEPT !.ready = TRUE]
               IN  /\ Confirmed(o)
                   /\ Standing(f)
                   /\ f.status = fulfillment[o].status /\ f.shipped = fulfillment[o].shipped
    <2>1. Standing(fulfillment[o]) /\ fulfillment[o].status = "BACKORDER"
      BY <1>3 DEF Flipped, StandingInv
    <2>2. HasBackorder(fulfillment[o].back)
      BY <2>1 DEF Standing
    <2>3. Confirmed(o)
      BY <1>3 DEF Flipped
    <2> DEFINE f == [fulfillment[o] EXCEPT !.ready = TRUE]
    <2>4. /\ DOMAIN f = Fields /\ f.ready = TRUE
          /\ f.status = fulfillment[o].status /\ f.shipped = fulfillment[o].shipped
          /\ f.reserved = fulfillment[o].reserved /\ f.back = fulfillment[o].back
      BY <2>1 DEF Standing, Fields
    <2> HIDE DEF f
    <2>5. Standing(f)
      BY <2>1, <2>2, <2>4 DEF Standing
    <2> QED BY <2>3, <2>4, <2>5 DEF f
  <1>4. DOMAIN fulfillment' = Orders /\ DOMAIN order' = Orders
    BY <1>1, <1>2 DEF StandingInv
  <1>5. ASSUME NEW o \in Orders, Confirmed(o)'
        PROVE  Standing(fulfillment'[o]) /\ (Replannable(o)' => NothingLeft(o, fulfillment'[o], order'[o]))
    <2>1. CASE Flipped(o, p, rows)
      <3> DEFINE f == [fulfillment[o] EXCEPT !.ready = TRUE]
      <3>1. fulfillment'[o] = f
        BY <1>1, <2>1
      <3>2. Confirmed(o) /\ Standing(f) /\ f.status = fulfillment[o].status /\ f.shipped = fulfillment[o].shipped
        BY <1>3, <2>1
      <3> HIDE DEF f
      <3> QED BY <1>2, <3>1, <3>2 DEF StandingInv, Replannable, NothingLeft
    <2>2. CASE ~Flipped(o, p, rows)
      <3>1. fulfillment'[o] = fulfillment[o]
        BY <1>1, <2>2
      <3> QED BY <1>2, <1>5, <3>1 DEF StandingInv, Confirmed, Replannable
    <2> QED BY <2>1, <2>2
  <1> QED BY <1>4, <1>5 DEF StandingInv

(* Every step keeps every order standing.                                  *)
LEMMA StandingKept ==
    ASSUME StandingInv, [Next]_vars
    PROVE  StandingInv'
  <1>1. CASE UNCHANGED vars
    BY <1>1 DEF StandingInv, vars, Confirmed, Replannable
  <1>2. ASSUME NEW o \in Orders, Confirm(o) \/ Plan(o) \/ Accept(o) \/ Ship(o)
        PROVE  StandingInv'
    BY <1>2, ConfirmStands, PlanStands, AcceptStands, ShipStands
  <1>3. ASSUME NEW o \in Orders, NEW alloc \in OverrideRequests(o), Override(o, alloc)
        PROVE  StandingInv'
    BY <1>3, OverrideStands
  <1>4. ASSUME NEW o \in Orders, NEW source \in [Waiting(fulfillment[o].back) -> Sites], Consolidate(o, source)
        PROVE  StandingInv'
    BY <1>4, ConsolidateStands
  <1>5. ASSUME NEW w \in Sites, NEW p \in Products, NEW delta \in Deltas, Adjust(w, p, delta)
        PROVE  StandingInv'
    BY <1>5, AdjustStands
  <1> QED BY <1>1, <1>2, <1>3, <1>4, <1>5 DEF Next

(* The invariant: the status of a fulfillment says what is reserved, owed  *)
(* and gone.                                                               *)
THEOREM StatusSaysWhereItStands == Spec => []StandingInv
  BY StandingAtFirst, StandingKept, PTL DEF Spec

(* What stands is offered on the pages as the API takes it.                *)
LEMMA StandingFits == StandingInv => OffersFitTheOrder
  <1> SUFFICES ASSUME StandingInv, NEW o \in Orders, Confirmed(o)
               PROVE  /\ ShipMirrorsTheAPI(o)
                      /\ BannerMeansBackorder(o)
                      /\ GoodsOwedAreListed(o)
                      /\ GoodsThatLeftAreSettled(o)
                      /\ ChipIsTrue(o)
    BY DEF OffersFitTheOrder
  <1>1. /\ Standing(fulfillment[o])
        /\ Replannable(o) => NothingLeft(o, fulfillment[o], order[o])
    BY DEF StandingInv
  <1>2. ShipMirrorsTheAPI(o)
    BY DEF ShipMirrorsTheAPI, FulfillmentPage, HeaderOffers, BannerOffers, CanShip,
           CanManageFulfillment, AcceptsShip, Shippable, WriteRoles
  <1>3. BannerMeansBackorder(o)
    BY <1>1 DEF BannerMeansBackorder, BannerOffers, BackorderTable, AcceptsConsolidate,
                Standing, HasBackorder
  <1>4. GoodsOwedAreListed(o)
    <2>. SUFFICES ASSUME BackorderTable(fulfillment[o]) # {}
                  PROVE  \E row \in AwaitingTable :
                            row.order = o /\ row.status \in {"BACKORDER", "PARTIALLY_SHIPPED"}
      BY DEF GoodsOwedAreListed
    <2>1. fulfillment[o].status \in {"BACKORDER", "PARTIALLY_SHIPPED"}
      BY <1>1 DEF BackorderTable, Standing, HasBackorder
    <2>2. o \in Awaiting
      BY <2>1 DEF Awaiting
    <2>3. [order |-> o, status |-> fulfillment[o].status,
           warehouses |-> DOMAIN SplitTable(fulfillment[o])] \in AwaitingTable
      BY <2>2 DEF AwaitingTable
    <2> HIDE DEF AwaitingTable
    <2> QED BY <2>1, <2>3, Zenon
  <1>5. GoodsThatLeftAreSettled(o)
    <2>1. CASE Replannable(o)
      BY <1>1, <2>1 DEF GoodsThatLeftAreSettled, NothingLeft
    <2>2. CASE ~Replannable(o)
      <3>1. CanInvoice(fulfillment[o])
        BY <2>2 DEF Replannable, CanInvoice
      <3> QED BY <2>2, <3>1 DEF GoodsThatLeftAreSettled, FulfillmentPage, HeaderOffers,
                                CanManageFulfillment
    <2> QED BY <2>1, <2>2
  <1>6. ChipIsTrue(o)
    BY <1>1 DEF ChipIsTrue, BackorderTable, Standing, HasBackorder
  <1> QED BY <1>2, <1>3, <1>4, <1>5, <1>6

(* Over every sequence of plans, acceptances, overrides, shipments, counts *)
(* and consolidations the pages of an order offer what fits it             *)
(* (fulfillment-detail.page.ts).                                           *)
THEOREM ScreensFollowTheOrder == Spec => []OffersFitTheOrder
  BY StatusSaysWhereItStands, StandingFits, PTL
---------------------------------------------------------------------------
(* Numbers.                                                                *)

(* The greater of two numbers.                                             *)
LEMMA MaxOfTwo ==
    ASSUME NEW a \in Int, NEW b \in Int
    PROVE  Max({a, b}) = IF a >= b THEN a ELSE b
<1>. DEFINE m == IF a >= b THEN a ELSE b
<1>1. m \in {a, b} /\ \A y \in {a, b} : m >= y
    OBVIOUS
<1>2. Max({a, b}) \in {a, b} /\ \A y \in {a, b} : Max({a, b}) >= y
    BY <1>1 DEF Max
<1>. QED
    BY <1>1, <1>2

(* The smaller of two numbers.                                             *)
LEMMA MinOfTwo ==
    ASSUME NEW a \in Int, NEW b \in Int
    PROVE  Min({a, b}) = IF a <= b THEN a ELSE b
<1>. DEFINE m == IF a <= b THEN a ELSE b
<1>1. m \in {a, b} /\ \A y \in {a, b} : m <= y
    OBVIOUS
<1>2. Min({a, b}) \in {a, b} /\ \A y \in {a, b} : Min({a, b}) <= y
    BY <1>1 DEF Min
<1>. QED
    BY <1>1, <1>2

---------------------------------------------------------------------------
(* What the planner returns fits: no line is given more than it asks for,  *)
(* and a pass takes no more of a site than is free there.                  *)

Rows == [Sites -> [Products -> [inStock : Int, reserved : Int]]]

Allocations(demand) == [Sites -> [DOMAIN demand -> Nat]]

Fitting(rows, demand, alloc) ==
    /\ alloc \in Allocations(demand)
    /\ \A l \in DOMAIN demand : Given(alloc, l) <= demand[l].qty
    /\ \A w \in Sites, p \in Products : TakenFrom(demand, alloc, w, p) <= Free(rows, w, p)

(* There are finitely many warehouses.                                     *)
LEMMA SitesAreFinite == IsFiniteSet(Sites) /\ Sites \subseteq Nat
<1>1. DOMAIN Warehouses = 1..Len(Warehouses) /\ Len(Warehouses) \in Nat
    BY WarehouseType
<1>. QED
    BY <1>1, FS_Interval DEF Sites

(* A demand has finitely many lines, of products and natural quantities.   *)
LEMMA LinesAreFinite ==
    ASSUME NEW demand \in Seq(Line)
    PROVE  /\ IsFiniteSet(DOMAIN demand) /\ DOMAIN demand \subseteq Nat
           /\ \A p : LinesOf(demand, p) \subseteq DOMAIN demand /\ IsFiniteSet(LinesOf(demand, p))
           /\ \A l \in DOMAIN demand : demand[l].qty \in Nat /\ demand[l].product \in Products
<1>1. DOMAIN demand = 1..Len(demand) /\ Len(demand) \in Nat
    OBVIOUS
<1>2. IsFiniteSet(DOMAIN demand)
    BY <1>1, FS_Interval
<1>3. \A p : LinesOf(demand, p) \subseteq DOMAIN demand
    BY DEF LinesOf
<1>4. \A l \in DOMAIN demand : demand[l] \in Line
    OBVIOUS
<1>. QED
    BY <1>1, <1>2, <1>3, <1>4, FS_Subset DEF Line

(* Free units are never negative (warehouse.ts takes them from zero up).   *)
LEMMA FreeIsNat ==
    ASSUME NEW rows \in Rows, NEW w \in Sites, NEW p \in Products
    PROVE  /\ Free(rows, w, p) \in Nat
           /\ Free(rows, w, p) = IF rows[w][p].inStock >= rows[w][p].reserved
                                 THEN rows[w][p].inStock - rows[w][p].reserved ELSE 0
<1>1. rows[w][p].inStock \in Int /\ rows[w][p].reserved \in Int
    BY DEF Rows
<1>. QED
    BY <1>1, MaxOfTwo DEF Free

(* Sums of an allocation.                                                  *)
LEMMA GivenIsSum ==
    ASSUME NEW alloc, NEW l
    PROVE  Given(alloc, l) = SumFunctionOnSet([w \in Sites |-> alloc[w][l]], Sites)
BY DEF Given, SumFunction

(* What an allocation gives a line and takes of a site are naturals.       *)
LEMMA SumsOfAllocation ==
    ASSUME NEW demand \in Seq(Line), NEW alloc \in Allocations(demand)
    PROVE  /\ \A l \in DOMAIN demand :
                  Given(alloc, l) \in Nat /\ \A w \in Sites : alloc[w][l] <= Given(alloc, l)
           /\ \A w \in Sites, p \in Products :
                  /\ TakenFrom(demand, alloc, w, p) \in Nat
                  /\ \A l \in LinesOf(demand, p) : alloc[w][l] <= TakenFrom(demand, alloc, w, p)
<1>1. ASSUME NEW l \in DOMAIN demand
      PROVE  Given(alloc, l) \in Nat /\ \A w \in Sites : alloc[w][l] <= Given(alloc, l)
  <2>. DEFINE f == [w \in Sites |-> alloc[w][l]]
  <2>1. \A w \in Sites : f[w] \in Nat /\ f[w] = alloc[w][l]
      BY DEF Allocations
  <2>. HIDE DEF f
  <2>2. SumFunctionOnSet(f, Sites) \in Nat /\ \A w \in Sites : f[w] <= SumFunctionOnSet(f, Sites)
      BY <2>1, SitesAreFinite, SumIsNat
  <2>. QED
      BY <2>1, <2>2, GivenIsSum DEF f
<1>2. ASSUME NEW w \in Sites, NEW p \in Products
      PROVE  /\ TakenFrom(demand, alloc, w, p) \in Nat
             /\ \A l \in LinesOf(demand, p) : alloc[w][l] <= TakenFrom(demand, alloc, w, p)
  <2>1. \A l \in LinesOf(demand, p) : alloc[w][l] \in Nat
      BY LinesAreFinite DEF Allocations
  <2>. QED
      BY <2>1, LinesAreFinite, SumIsNat DEF TakenFrom
<1>. QED
    BY <1>1, <1>2

(* One cell more.                                                          *)
OneMore(demand, alloc, alloc2, w, l, more) ==
    /\ alloc2 \in Allocations(demand)
    /\ Given(alloc2, l) = Given(alloc, l) + more
    /\ \A k \in DOMAIN demand : k # l => Given(alloc2, k) = Given(alloc, k)
    /\ \A u \in Sites, p \in Products :
           TakenFrom(demand, alloc2, u, p) =
               TakenFrom(demand, alloc, u, p)
                   + IF u = w /\ demand[l].product = p THEN more ELSE 0

(* Units added to one line at one site are added to its two sums only.     *)
LEMMA OneCellMore ==
    ASSUME NEW demand \in Seq(Line), NEW alloc \in Allocations(demand),
           NEW w \in Sites, NEW l \in DOMAIN demand, NEW more \in Nat,
           NEW alloc2, alloc2 = [alloc EXCEPT ![w][l] = @ + more]
    PROVE  OneMore(demand, alloc, alloc2, w, l, more)
<1>1. /\ alloc2 \in Allocations(demand)
      /\ alloc2[w][l] = alloc[w][l] + more
      /\ \A k \in DOMAIN demand : k # l => alloc2[w][k] = alloc[w][k]
      /\ \A u \in Sites : u # w => alloc2[u] = alloc[u]
    BY DEF Allocations
<1>2. \A u \in Sites, k \in DOMAIN demand : alloc[u][k] \in Nat /\ alloc2[u][k] \in Nat
    BY <1>1 DEF Allocations
<1>3. ASSUME NEW k \in DOMAIN demand
      PROVE  Given(alloc2, k) = Given(alloc, k) + IF k = l THEN more ELSE 0
  <2>. DEFINE f == [u \in Sites |-> alloc[u][k]]
              g == [u \in Sites |-> alloc2[u][k]]
  <2>1. /\ \A u \in Sites : f[u] \in Int /\ g[u] \in Int
        /\ \A u \in Sites : u # w => g[u] = f[u]
        /\ g[w] = f[w] + IF k = l THEN more ELSE 0
      BY <1>1, <1>2
  <2>2. Given(alloc, k) = SumFunctionOnSet(f, Sites) /\ Given(alloc2, k) = SumFunctionOnSet(g, Sites)
      BY GivenIsSum
  <2>. HIDE DEF f, g
  <2>3. SumFunctionOnSet(g, Sites) = SumFunctionOnSet(f, Sites) - f[w] + g[w]
      BY <2>1, SitesAreFinite, SumChangesByOne
  <2>4. SumFunctionOnSet(f, Sites) \in Int
      BY <2>1, SitesAreFinite, SumWithout
  <2>. QED
      BY <2>1, <2>2, <2>3, <2>4
<1>4. ASSUME NEW u \in Sites, NEW p \in Products
      PROVE  TakenFrom(demand, alloc2, u, p) =
                 TakenFrom(demand, alloc, u, p)
                     + IF u = w /\ demand[l].product = p THEN more ELSE 0
  <2>. DEFINE L == LinesOf(demand, p)
              f == alloc[u]
              g == alloc2[u]
  <2>1. L \subseteq DOMAIN demand /\ IsFiniteSet(L)
      BY LinesAreFinite
  <2>2. \A k \in L : f[k] \in Int /\ g[k] \in Int
      BY <1>2, <2>1
  <2>3. TakenFrom(demand, alloc, u, p) \in Int
      BY SumsOfAllocation
  <2>4. l \in L <=> demand[l].product = p
      BY DEF LinesOf
  <2>. HIDE DEF L, f, g
  <2>5. CASE u = w /\ demand[l].product = p
    <3>1. \A k \in L : k # l => g[k] = f[k]
        BY <1>1, <2>1, <2>5 DEF f, g
    <3>2. SumFunctionOnSet(g, L) = SumFunctionOnSet(f, L) - f[l] + g[l]
        BY <2>1, <2>2, <2>4, <2>5, <3>1, SumChangesByOne
    <3>3. f[l] \in Int /\ g[l] = f[l] + more
        BY <1>1, <1>2, <2>5 DEF f, g
    <3>. QED
        BY <2>3, <2>5, <3>2, <3>3 DEF TakenFrom, L, f, g
  <2>6. CASE ~(u = w /\ demand[l].product = p)
    <3>1. \A k \in L : g[k] = f[k]
        BY <1>1, <2>1, <2>4, <2>6 DEF f, g
    <3>2. SumFunctionOnSet(g, L) = SumFunctionOnSet(f, L)
        BY <2>1, <2>2, <3>1, SumAgrees
    <3>. QED
        BY <2>3, <2>6, <3>2 DEF TakenFrom, L, f, g
  <2>. QED
      BY <2>5, <2>6
<1>5. Given(alloc2, l) = Given(alloc, l) + more
    BY <1>3
<1>6. \A k \in DOMAIN demand : k # l => Given(alloc2, k) = Given(alloc, k)
  <2>1. ASSUME NEW k \in DOMAIN demand, k # l PROVE Given(alloc2, k) = Given(alloc, k)
    <3>1. Given(alloc, k) \in Nat
        BY SumsOfAllocation
    <3>2. Given(alloc2, k) = Given(alloc, k) + 0
        BY <1>3, <2>1
    <3>. QED
        BY <3>1, <3>2
  <2>. QED
      BY <2>1
<1>. QED
    BY <1>1, <1>4, <1>5, <1>6 DEF OneMore

(* A visit that gives what is needed and left keeps an allocation fitting. *)
LEMMA GiveFits ==
    ASSUME NEW rows \in Rows, NEW demand \in Seq(Line), NEW whole \in BOOLEAN, NEW alloc,
           Fitting(rows, demand, alloc), NEW v \in Visits(demand)
    PROVE  Fitting(rows, demand, Give(rows, demand, whole, alloc, v))
<1>. DEFINE w == v.site
            l == v.line
            p == demand[l].product
            need == Remaining(demand, alloc, l)
            left == Free(rows, w, p) - TakenFrom(demand, alloc, w, p)
            more == IF whole THEN WholeLine(need, left) ELSE AnyPart(need, left)
            alloc2 == Give(rows, demand, whole, alloc, v)
<1>1. w \in Sites /\ l \in DOMAIN demand /\ p \in Products
    BY LinesAreFinite DEF Visits, Active
<1>2. need \in Nat /\ demand[l].qty = Given(alloc, l) + need
    BY <1>1, SumsOfAllocation, LinesAreFinite DEF Fitting, Remaining
<1>3. left \in Nat /\ Free(rows, w, p) = TakenFrom(demand, alloc, w, p) + left
    BY <1>1, SumsOfAllocation, FreeIsNat DEF Fitting
<1>4. alloc2 = [alloc EXCEPT ![w][l] = @ + more]
    BY DEF Give
<1>. HIDE DEF w, l, p, need, left, alloc2
<1>5. more \in Nat /\ more <= need /\ more <= left
  <2>1. Min({need, left}) = IF need <= left THEN need ELSE left
      BY <1>2, <1>3, MinOfTwo
  <2>. QED
      BY <1>2, <1>3, <2>1 DEF WholeLine, AnyPart
<1>. HIDE DEF more
<1>6. OneMore(demand, alloc, alloc2, w, l, more)
  <2>1. alloc \in Allocations(demand)
      BY DEF Fitting
  <2>. QED
      BY <1>1, <1>4, <1>5, <2>1, OneCellMore, Zenon
<1>7. ASSUME NEW k \in DOMAIN demand PROVE Given(alloc2, k) <= demand[k].qty
  <2>1. CASE k = l
    <3>1. Given(alloc, l) \in Nat
        BY <1>1, SumsOfAllocation DEF Fitting
    <3>. QED
        BY <1>2, <1>5, <1>6, <2>1, <3>1 DEF OneMore
  <2>2. CASE k # l
      BY <1>6, <2>2 DEF Fitting, OneMore
  <2>. QED
      BY <2>1, <2>2
<1>8. ASSUME NEW u \in Sites, NEW q \in Products
      PROVE  TakenFrom(demand, alloc2, u, q) <= Free(rows, u, q)
  <2>1. /\ TakenFrom(demand, alloc, u, q) \in Nat
        /\ TakenFrom(demand, alloc, u, q) <= Free(rows, u, q)
      BY SumsOfAllocation DEF Fitting
  <2>2. CASE u = w /\ q = p
      BY <1>1, <1>3, <1>5, <1>6, <2>1, <2>2 DEF p, OneMore
  <2>3. CASE ~(u = w /\ q = p)
    <3>1. TakenFrom(demand, alloc2, u, q) = TakenFrom(demand, alloc, u, q) + 0
        BY <1>6, <2>3 DEF p, OneMore
    <3>. QED
        BY <2>1, <3>1
  <2>. QED
      BY <2>2, <2>3
<1>. QED
    BY <1>6, <1>7, <1>8 DEF Fitting, OneMore, alloc2
---------------------------------------------------------------------------
(* A pass gives to one visit after the other.  Each set of visits has a    *)
(* last one, because Earlier orders them.                                  *)

(* The rank of the warehouses is total and transitive.                     *)
LEMMA RankIsOrder ==
    ASSUME NEW rows \in Rows, NEW demand \in Seq(Line),
           NEW u \in Sites, NEW v \in Sites, NEW w \in Sites
    PROVE  /\ u # v => RankedBefore(rows, demand, u, v) \/ RankedBefore(rows, demand, v, u)
           /\ RankedBefore(rows, demand, u, v) /\ RankedBefore(rows, demand, v, w)
                  => RankedBefore(rows, demand, u, w)
<1>. DEFINE cover(s) == FullyCoverable(rows, demand, s)
<1>1. \A s : cover(s) \in Nat
  <2>. TAKE s
  <2>. DEFINE L == {l \in StockLines(demand) : Free(rows, s, demand[l].product) >= demand[l].qty}
  <2>1. L \in SUBSET DOMAIN demand
      BY DEF StockLines
  <2>2. IsFiniteSet(L)
    <3>. HIDE DEF L
    <3>. QED
        BY <2>1, LinesAreFinite, FS_Subset
  <2>3. Cardinality(L) \in Nat
    <3>. HIDE DEF L
    <3>. QED
        BY <2>2, FS_CardinalityType
  <2>. QED
      BY <2>3 DEF FullyCoverable
<1>2. \A s \in Sites : Warehouses[s].weight \in Int /\ s \in Int
  <2>. DEFINE Option == [weight : Int, base : Nat, perUnit : Nat]
  <2>1. \A x \in Option : x.weight \in Int
      OBVIOUS
  <2>2. Warehouses \in Seq(Option)
      BY WarehouseType
  <2>. HIDE DEF Option
  <2>3. \A s \in Sites : Warehouses[s] \in Option
      BY <2>2 DEF Sites
  <2>. QED
      BY <2>1, <2>3, SitesAreFinite
<1>3. \A s, t : RankedBefore(rows, demand, s, t) <=>
          \/ cover(s) > cover(t)
          \/ /\ cover(s) = cover(t)
             /\ \/ Warehouses[s].weight < Warehouses[t].weight
                \/ Warehouses[s].weight = Warehouses[t].weight /\ s < t
    BY DEF RankedBefore
<1>. HIDE DEF cover
<1>4. /\ cover(u) \in Nat /\ cover(v) \in Nat /\ cover(w) \in Nat
      /\ Warehouses[u].weight \in Int /\ Warehouses[v].weight \in Int /\ Warehouses[w].weight \in Int
      /\ u \in Int /\ v \in Int /\ w \in Int
    BY <1>1, <1>2
<1>5. u # v => RankedBefore(rows, demand, u, v) \/ RankedBefore(rows, demand, v, u)
    BY <1>3, <1>4
<1>6. RankedBefore(rows, demand, u, v) /\ RankedBefore(rows, demand, v, w)
          => RankedBefore(rows, demand, u, w)
    BY <1>3, <1>4
<1>. QED
    BY <1>5, <1>6

(* A pass makes finitely many visits.                                      *)
LEMMA VisitsAreFinite ==
    ASSUME NEW demand \in Seq(Line)
    PROVE  /\ IsFiniteSet(Visits(demand))
           /\ \A v \in Visits(demand) : /\ v.site \in Sites /\ v.line \in DOMAIN demand /\ v.line \in Int
                                        /\ v = [site |-> v.site, line |-> v.line]
<1>. DEFINE pair == [v \in Visits(demand) |-> <<v.site, v.line>>]
            Pairs == Active \X DOMAIN demand
<1>1. IsFiniteSet(Active) /\ Active \subseteq Sites
    BY SitesAreFinite, FS_Subset DEF Active
<1>2. IsFiniteSet(Pairs)
    BY <1>1, LinesAreFinite, FS_Product
<1>3. \A v \in Visits(demand) : v = [site |-> v.site, line |-> v.line] /\ pair[v] \in Pairs
    BY DEF Visits
<1>4. pair \in Injection(Visits(demand), Pairs)
  <2>1. \A u, v \in Visits(demand) : pair[u] = pair[v] => u = v
      BY <1>3
  <2>2. pair \in [Visits(demand) -> Pairs]
      BY <1>3
  <2>. HIDE DEF pair, Pairs
  <2>. QED
      BY <2>1, <2>2 DEF Injection, IsInjective
<1>5. IsFiniteSet(Visits(demand))
  <2>. HIDE DEF pair, Pairs
  <2>. QED
      BY <1>2, <1>4, FS_Injection
<1>6. ASSUME NEW v \in Visits(demand)
      PROVE  /\ v.site \in Sites /\ v.line \in DOMAIN demand /\ v.line \in Int
             /\ v = [site |-> v.site, line |-> v.line]
    BY <1>1, <1>3, LinesAreFinite DEF Visits
<1>. QED
    BY <1>5, <1>6

(* Of visits still to make the latest is one of them.                      *)
LEMMA LastIsOne ==
    ASSUME NEW rows \in Rows, NEW demand \in Seq(Line),
           NEW S \in SUBSET Visits(demand), S # {}
    PROVE  LastOf(rows, demand, S) \in S
<1>. DEFINE Before(u, v) == Earlier(rows, demand, u, v)
            Last(T, m) == m \in T /\ \A u \in T \ {m} : Before(u, m)
            P == {T \in SUBSET S : T = {} \/ \E m \in T : Last(T, m)}
<1>1. \A u, v \in S : u # v => Before(u, v) \/ Before(v, u)
  <2>. TAKE u, v \in S
  <2>1. u \in Visits(demand) /\ v \in Visits(demand)
      OBVIOUS
  <2>2. CASE u.site # v.site
    <3>1. u.site \in Sites /\ v.site \in Sites
        BY <2>1, VisitsAreFinite
    <3>. QED
        BY <2>2, <3>1, RankIsOrder DEF Earlier
  <2>3. CASE u.site = v.site
    <3>1. /\ u = [site |-> u.site, line |-> u.line] /\ v = [site |-> v.site, line |-> v.line]
          /\ u.line \in Int /\ v.line \in Int
        BY <2>1, VisitsAreFinite
    <3>2. u.line = v.line => u = v
        BY <2>3, <3>1
    <3>. QED
        BY <2>3, <3>1, <3>2 DEF Earlier
  <2>. QED
      BY <2>2, <2>3
<1>2. \A u, v, w \in S : Before(u, v) /\ Before(v, w) => Before(u, w)
  <2>. TAKE u, v, w \in S
  <2>1. /\ u.site \in Sites /\ v.site \in Sites /\ w.site \in Sites
        /\ u.line \in Int /\ v.line \in Int /\ w.line \in Int
      BY VisitsAreFinite
  <2>2. RankedBefore(rows, demand, u.site, v.site) /\ RankedBefore(rows, demand, v.site, w.site)
            => RankedBefore(rows, demand, u.site, w.site)
      BY <2>1, RankIsOrder
  <2>. QED
      BY <2>1, <2>2 DEF Earlier
<1>. HIDE DEF Before
<1>3. ASSUME NEW T \in SUBSET S, \A U \in SUBSET T : U # T => U \in P
      PROVE  T \in P
  <2>1. CASE T = {}
      BY <2>1
  <2>2. CASE T # {}
    <3>1. PICK x : x \in T
        BY <2>2
    <3>2. T \ {x} \in P
        BY <1>3, <3>1
    <3>3. CASE T \ {x} = {}
      <4>1. Last(T, x)
          BY <3>1, <3>3
      <4>. QED
          BY <3>1, <4>1
    <3>4. ASSUME NEW m \in T \ {x}, Last(T \ {x}, m)
          PROVE  \E n \in T : Last(T, n)
      <4>1. CASE Before(x, m)
        <5>1. Last(T, m)
            BY <3>4, <4>1
        <5>. QED
            BY <3>4, <5>1
      <4>2. CASE Before(m, x)
        <5>1. \A u \in T \ {x} : u # m => Before(u, m) /\ Before(m, x)
            BY <3>4, <4>2
        <5>2. Last(T, x)
            BY <1>2, <3>1, <3>4, <4>2, <5>1
        <5>. QED
            BY <3>1, <5>2
      <4>. QED
          BY <1>1, <3>1, <3>4, <4>1, <4>2
    <3>. QED
        BY <3>2, <3>3, <3>4
  <2>. QED
      BY <2>1, <2>2
<1>4. IsFiniteSet(S)
    BY VisitsAreFinite, FS_Subset
<1>5. S \in P
  <2>. HIDE DEF P
  <2>. QED
      BY <1>3, <1>4, SubsetInduction
<1>6. \E m \in S : \A u \in S \ {m} : Earlier(rows, demand, u, m)
    BY <1>5 DEF Before
<1>. QED
    BY <1>6 DEF LastOf

(* The equation of a pass over the subsets of S, and its solution.         *)
PassEquation(rows, demand, whole, alloc, g, S) ==
    g = [s \in SUBSET S |->
            IF s = {} THEN alloc
            ELSE Give(rows, demand, whole, g[s \ {LastOf(rows, demand, s)}], LastOf(rows, demand, s))]

PassOver(rows, demand, whole, alloc, S) ==
    (CHOOSE g : PassEquation(rows, demand, whole, alloc, g, S))[S]

(* The pass is the library's fold, expanded.                               *)
LEMMA PassIsIteration ==
    ASSUME NEW rows, NEW demand, NEW whole, NEW alloc
    PROVE  Pass(rows, demand, whole, alloc) = PassOver(rows, demand, whole, alloc, Visits(demand))
BY DEF Pass, PassOver, PassEquation, MapThenFoldSet

(* A pass ends with its last visit, after the pass over the others.        *)
LEMMA PassUnfolds ==
    ASSUME NEW rows \in Rows, NEW demand \in Seq(Line), NEW whole, NEW alloc,
           NEW S \in SUBSET Visits(demand)
    PROVE  PassOver(rows, demand, whole, alloc, S) =
               IF S = {} THEN alloc
               ELSE Give(rows, demand, whole,
                         PassOver(rows, demand, whole, alloc, S \ {LastOf(rows, demand, S)}),
                         LastOf(rows, demand, S))
<1>. DEFINE Over(T) == PassOver(rows, demand, whole, alloc, T)
            Equation(g, T) == PassEquation(rows, demand, whole, alloc, g, T)
            last(T) == LastOf(rows, demand, T)
            give(a, v) == Give(rows, demand, whole, a, v)
            Unfolds(T) == Over(T) = IF T = {} THEN alloc ELSE give(Over(T \ {last(T)}), last(T))
            Unique(T) == \A g : Equation(g, T) => \A s \in SUBSET T : g[s] = Over(s)
            P == {T \in SUBSET S : Unfolds(T) /\ Unique(T)}
<1>1. \A g, T : Equation(g, T) <=>
          g = [s \in SUBSET T |-> IF s = {} THEN alloc ELSE give(g[s \ {last(s)}], last(s))]
    BY DEF PassEquation
<1>2. \A T : Over(T) = (CHOOSE g : Equation(g, T))[T]
    BY DEF PassOver
<1>3. \A T \in SUBSET S : T # {} => last(T) \in T
    BY LastIsOne
<1>. HIDE DEF Over, Equation, last, give
<1>4. ASSUME NEW T \in SUBSET S, \A U \in SUBSET T : U # T => U \in P
      PROVE  T \in P
    <2>. DEFINE H == [s \in SUBSET T |-> IF s = {} THEN alloc ELSE give(Over(s \ {last(s)}), last(s))]
    <2>1. \A s \in SUBSET T : s # {} => s \ {last(s)} \in SUBSET T /\ s \ {last(s)} # T
        BY <1>3
    <2>2. ASSUME NEW s \in SUBSET T, s # T PROVE H[s] = Over(s)
        BY <1>4, <2>2
    <2>3. Equation(H, T)
        <3>. HIDE DEF H
        <3>1. ASSUME NEW s \in SUBSET T
              PROVE  H[s] = IF s = {} THEN alloc ELSE give(H[s \ {last(s)}], last(s))
            <4>1. CASE s = {}
                BY <4>1 DEF H
            <4>2. CASE s # {}
                <5>1. H[s \ {last(s)}] = Over(s \ {last(s)})
                    BY <2>1, <2>2, <4>2
                <5>2. H[s] = give(Over(s \ {last(s)}), last(s))
                    BY <4>2 DEF H
                <5>. QED
                    BY <4>2, <5>1, <5>2
            <4>. QED
                BY <4>1, <4>2
        <3>2. H = [s \in SUBSET T |-> H[s]]
            BY DEF H
        <3>3. H = [s \in SUBSET T |-> IF s = {} THEN alloc ELSE give(H[s \ {last(s)}], last(s))]
            BY <3>1, <3>2
        <3>. QED
            BY <1>1, <3>3
    <2>4. ASSUME NEW g, Equation(g, T), NEW s \in SUBSET T, s # T
          PROVE  g[s] = Over(s)
        <3>. DEFINE h == [u \in SUBSET s |-> g[u]]
        <3>1. Equation(h, s)
            <4>1. g = [u \in SUBSET T |-> IF u = {} THEN alloc ELSE give(g[u \ {last(u)}], last(u))]
                BY <1>1, <2>4
            <4>2. \A u \in SUBSET s : g[u] = IF u = {} THEN alloc ELSE give(g[u \ {last(u)}], last(u))
                BY <4>1
            <4>3. \A u \in SUBSET s : h[u] = g[u] /\ h[u \ {last(u)}] = g[u \ {last(u)}]
                OBVIOUS
            <4>4. h = [u \in SUBSET s |-> h[u]]
                OBVIOUS
            <4>. HIDE DEF h
            <4>5. \A u \in SUBSET s : h[u] = IF u = {} THEN alloc ELSE give(h[u \ {last(u)}], last(u))
                BY <4>2, <4>3
            <4>6. h = [u \in SUBSET s |-> IF u = {} THEN alloc ELSE give(h[u \ {last(u)}], last(u))]
                BY <4>4, <4>5
            <4>. QED
                BY <1>1, <4>6
        <3>2. Unique(s)
            BY <1>4, <2>4
        <3>3. h[s] = Over(s)
            <4>. HIDE DEF h
            <4>. QED
                BY <3>1, <3>2
        <3>. QED
            BY <3>3
    <2>5. ASSUME NEW g, Equation(g, T) PROVE g[T] = H[T]
        <3>1. g = [s \in SUBSET T |-> IF s = {} THEN alloc ELSE give(g[s \ {last(s)}], last(s))]
            BY <1>1, <2>5
        <3>2. g[T] = IF T = {} THEN alloc ELSE give(g[T \ {last(T)}], last(T))
            BY <3>1
        <3>3. T # {} => g[T \ {last(T)}] = Over(T \ {last(T)})
            BY <2>1, <2>4, <2>5
        <3>. QED
            BY <3>2, <3>3
    <2>6. Over(T) = H[T]
        <3>. DEFINE i == CHOOSE g : Equation(g, T)
        <3>1. Equation(i, T)
            <4>. HIDE DEF H
            <4>. QED
                BY <2>3
        <3>2. Over(T) = i[T]
            BY <1>2
        <3>. HIDE DEF i, H
        <3>. QED
            BY <2>5, <3>1, <3>2
    <2>7. Unfolds(T)
        BY <2>6
    <2>8. Unique(T)
        <3>. HIDE DEF H
        <3>. QED
            BY <2>4, <2>5, <2>6
    <2>. QED
        BY <2>7, <2>8
<1>5. IsFiniteSet(S)
    BY VisitsAreFinite, FS_Subset
<1>6. S \in P
  <2>. HIDE DEF P
  <2>. QED
      BY <1>4, <1>5, SubsetInduction
<1>. QED
    BY <1>6 DEF Over, last, give

(* warehouse.ts:200, "keep whole lines together", and the pass that splits *)
(* the rest: whatever the warehouses, their ranks and the lines, a pass    *)
(* that starts from an allocation that fits ends with one: no line is given*)
(* more than it asks for, no site gives more than is free there.           *)
THEOREM PassFits ==
    ASSUME NEW rows \in Rows, NEW demand \in Seq(Line), NEW whole \in BOOLEAN, NEW alloc,
           Fitting(rows, demand, alloc)
    PROVE  Fitting(rows, demand, Pass(rows, demand, whole, alloc))
<1>. DEFINE V == Visits(demand)
            Over(T) == PassOver(rows, demand, whole, alloc, T)
            last(T) == LastOf(rows, demand, T)
            P == {T \in SUBSET V : Fitting(rows, demand, Over(T))}
<1>1. ASSUME NEW T \in SUBSET V, \A U \in SUBSET T : U # T => U \in P
      PROVE  T \in P
  <2>1. Over(T) = IF T = {} THEN alloc
                  ELSE Give(rows, demand, whole, Over(T \ {last(T)}), last(T))
      BY PassUnfolds
  <2>2. T # {} => last(T) \in T
      BY LastIsOne
  <2>. HIDE DEF Over, last
  <2>3. T # {} => Fitting(rows, demand, Over(T \ {last(T)}))
      BY <1>1, <2>2
  <2>4. T # {} => Fitting(rows, demand, Give(rows, demand, whole, Over(T \ {last(T)}), last(T)))
      BY <2>2, <2>3, GiveFits
  <2>. QED
      BY <2>1, <2>4
<1>2. V \in P
  <2>. HIDE DEF P
  <2>. QED
      BY <1>1, VisitsAreFinite, SubsetInduction
<1>. QED
    BY <1>2, PassIsIteration
---------------------------------------------------------------------------
(* The empty allocation fits.                                              *)
LEMMA NothingFits ==
    ASSUME NEW rows \in Rows, NEW demand \in Seq(Line)
    PROVE  Fitting(rows, demand, Nothing(demand))
<1>. DEFINE none == Nothing(demand)
<1>1. none \in Allocations(demand) /\ \A w \in Sites, l \in DOMAIN demand : none[w][l] = 0
    BY DEF Nothing, Allocations
<1>. HIDE DEF none
<1>2. ASSUME NEW l \in DOMAIN demand PROVE Given(none, l) <= demand[l].qty
  <2>. DEFINE f == [w \in Sites |-> none[w][l]]
  <2>1. \A w \in Sites : f[w] = 0
      BY <1>1
  <2>. HIDE DEF f
  <2>2. SumFunctionOnSet(f, Sites) = 0
      BY <2>1, SitesAreFinite, SumOfZeros
  <2>3. Given(none, l) = 0 /\ demand[l].qty \in Nat
      BY <2>2, GivenIsSum, LinesAreFinite DEF f
  <2>. QED
      BY <2>3
<1>3. ASSUME NEW w \in Sites, NEW p \in Products
      PROVE  TakenFrom(demand, none, w, p) <= Free(rows, w, p)
  <2>1. \A l \in LinesOf(demand, p) : none[w][l] = 0
      BY <1>1, LinesAreFinite
  <2>2. TakenFrom(demand, none, w, p) = 0
      BY <2>1, LinesAreFinite, SumOfZeros DEF TakenFrom
  <2>. QED
      BY <2>2, FreeIsNat
<1>. QED
    BY <1>1, <1>2, <1>3 DEF Fitting, none

(* Whatever the site, all of an order from one site gives each line what it*)
(* asks for, or nothing.                                                   *)
LEMMA AllFromIsAllocation ==
    ASSUME NEW demand \in Seq(Line), NEW w
    PROVE  /\ AllFrom(demand, w) \in Allocations(demand)
           /\ \A l \in DOMAIN demand : Given(AllFrom(demand, w), l) <= demand[l].qty
<1>. DEFINE all == AllFrom(demand, w)
<1>1. /\ all \in Allocations(demand)
      /\ \A v \in Sites, l \in DOMAIN demand : all[v][l] = IF v = w THEN demand[l].qty ELSE 0
    BY LinesAreFinite DEF AllFrom, Nothing, Allocations
<1>. HIDE DEF all
<1>2. ASSUME NEW l \in DOMAIN demand PROVE Given(all, l) <= demand[l].qty
  <2>. DEFINE f == [v \in Sites |-> all[v][l]]
              W == Sites \cap {w}
  <2>1. \A v \in Sites : f[v] = (IF v = w THEN demand[l].qty ELSE 0) /\ f[v] \in Int
      BY <1>1, LinesAreFinite
  <2>2. demand[l].qty \in Nat
      BY LinesAreFinite
  <2>3. W \in SUBSET Sites /\ \A v \in Sites : v \notin W => f[v] = 0
      BY <2>1
  <2>. HIDE DEF f
  <2>4. SumFunctionOnSet(f, Sites) = SumFunctionOnSet(f, W)
    <3>. HIDE DEF W
    <3>. QED
        BY <2>1, <2>3, SitesAreFinite, SumOfPart
  <2>5. CASE w \in Sites
    <3>1. W = {w} /\ W \ {w} = {}
        BY <2>5
    <3>2. IsFiniteSet(W) /\ w \in W /\ \A v \in W : f[v] \in Int
        BY <2>1, <2>5, <3>1, FS_Singleton
    <3>. HIDE DEF W
    <3>3. SumFunctionOnSet(f, W) = f[w] + SumFunctionOnSet(f, W \ {w})
        BY <3>2, SumWithout
    <3>4. f[w] = demand[l].qty
        BY <2>1, <2>5
    <3>5. SumFunctionOnSet(f, W \ {w}) = 0
        BY <3>1, SumOfNothing
    <3>6. SumFunctionOnSet(f, W) = demand[l].qty
        BY <2>2, <3>3, <3>4, <3>5
    <3>. QED
        BY <2>2, <2>4, <3>6, GivenIsSum DEF f
  <2>6. CASE w \notin Sites
    <3>1. W = {}
        BY <2>6
    <3>. HIDE DEF W
    <3>2. SumFunctionOnSet(f, Sites) = 0
        BY <2>4, <3>1, SumOfNothing
    <3>. QED
        BY <2>2, <3>2, GivenIsSum DEF f
  <2>. QED
      BY <2>5, <2>6
<1>. QED
    BY <1>1, <1>2 DEF all

(* A plan is an allocation that gives no line too much.                    *)
LEMMA PlanIsAllocation ==
    ASSUME NEW rows \in Rows, NEW demand \in Seq(Line)
    PROVE  LET plan == PlanWarehouseSplit(rows, demand)
           IN  /\ plan \in Allocations(demand)
               /\ \A l \in DOMAIN demand : Given(plan, l) <= demand[l].qty
<1>1. Fitting(rows, demand, Split(rows, demand))
  <2>1. Fitting(rows, demand, Pass(rows, demand, TRUE, Nothing(demand)))
      BY NothingFits, PassFits
  <2>. QED
      BY <2>1, PassFits DEF Split
<1>2. /\ Split(rows, demand) \in Allocations(demand)
      /\ \A l \in DOMAIN demand : Given(Split(rows, demand), l) <= demand[l].qty
    BY <1>1 DEF Fitting
<1>. QED
    BY <1>2, AllFromIsAllocation DEF PlanWarehouseSplit

---------------------------------------------------------------------------
(* What the fulfillments hold of a row.  They are a parameter, so that     *)
(* those before and after a step can be compared.                          *)

HoldersIn(ff) == {o \in Orders : ff[o] # None /\ ff[o].reserved /\ ff[o].status # "SHIPPED"}
HeldIn(ff, w, p) == SumFunction([o \in HoldersIn(ff) |-> Units(o, Unshipped(ff[o]), w, p)])

Holding(o, f, w, p) ==
    IF f # None /\ f.reserved /\ f.status # "SHIPPED" THEN Units(o, Unshipped(f), w, p) ELSE 0

AreTyped(ff) == \A o \in Orders : ff[o] = None \/ ff[o] \in Fulfillment(o)

(* Every order demands a sequence of lines.                                *)
LEMMA DemandsAreLines == \A o \in Orders : Demand[o] \in Seq(Line) /\ LinesIn(o) = DOMAIN Demand[o]
BY DemandType DEF LinesIn

(* What a fulfillment has still to send is an allocation.                  *)
LEMMA UnshippedIsAllocation ==
    ASSUME NEW o \in Orders, NEW f \in Fulfillment(o)
    PROVE  /\ f.alloc \in Allocations(Demand[o]) /\ Unshipped(f) \in Allocations(Demand[o])
           /\ \A w \in Sites, l \in LinesIn(o) :
                  Unshipped(f)[w][l] = IF w \in f.shipped THEN 0 ELSE f.alloc[w][l]
           /\ f.shipped = {} => Unshipped(f) = f.alloc
<1>1. f.alloc \in [Sites -> [LinesIn(o) -> Nat]]
    BY DEF Fulfillment
<1>2. \A w \in Sites : DOMAIN f.alloc[w] = LinesIn(o)
    BY <1>1
<1>3. Unshipped(f) = [w \in Sites |-> IF w \in f.shipped THEN [l \in LinesIn(o) |-> 0] ELSE f.alloc[w]]
    BY <1>2 DEF Unshipped
<1>. QED
    BY <1>1, <1>3 DEF Allocations, LinesIn

(* The units an allocation takes of a row are a natural number.            *)
LEMMA UnitsAreNat ==
    ASSUME NEW o \in Orders, NEW alloc \in Allocations(Demand[o]), NEW w \in Sites, NEW p \in Products
    PROVE  /\ Units(o, alloc, w, p) \in Nat
           /\ (\A l \in LinesIn(o) : alloc[w][l] = 0) => Units(o, alloc, w, p) = 0
<1>1. Demand[o] \in Seq(Line)
    BY DemandsAreLines
<1>2. Units(o, alloc, w, p) \in Nat
    BY <1>1, SumsOfAllocation DEF Units
<1>3. ASSUME \A l \in LinesIn(o) : alloc[w][l] = 0 PROVE Units(o, alloc, w, p) = 0
  <2>1. /\ IsFiniteSet(LinesOf(Demand[o], p))
        /\ \A l \in LinesOf(Demand[o], p) : alloc[w][l] = 0
      BY <1>1, <1>3, LinesAreFinite DEF LinesIn
  <2>. QED
      BY <2>1, SumOfZeros DEF Units, TakenFrom
<1>. QED
    BY <1>2, <1>3

(* So are those a fulfillment holds.                                       *)
LEMMA HoldingIsNat ==
    ASSUME NEW o \in Orders, NEW f, f = None \/ f \in Fulfillment(o), NEW w \in Sites, NEW p \in Products
    PROVE  Holding(o, f, w, p) \in Nat
<1>1. CASE f = None
    BY <1>1 DEF Holding
<1>2. CASE f \in Fulfillment(o)
    BY <1>2, UnshippedIsAllocation, UnitsAreNat DEF Holding
<1>. QED
    BY <1>1, <1>2

(* What is held of a row is the sum of what each order holds.              *)
LEMMA HeldIsSum ==
    ASSUME NEW ff, AreTyped(ff), NEW S \in SUBSET Orders, IsFiniteSet(S), HoldersIn(ff) \subseteq S,
           NEW w \in Sites, NEW p \in Products
    PROVE  HeldIn(ff, w, p) = SumFunctionOnSet([o \in S |-> Holding(o, ff[o], w, p)], S)
<1>. DEFINE f == [o \in S |-> Holding(o, ff[o], w, p)]
            g == [o \in HoldersIn(ff) |-> Units(o, Unshipped(ff[o]), w, p)]
            H == HoldersIn(ff)
<1>1. \A o \in S : f[o] \in Int /\ (o \notin H => f[o] = 0)
  <2>. SUFFICES ASSUME NEW o \in S PROVE f[o] \in Int /\ (o \notin H => f[o] = 0)
      OBVIOUS
  <2>1. Holding(o, ff[o], w, p) \in Nat
      BY HoldingIsNat DEF AreTyped
  <2>2. o \notin H => Holding(o, ff[o], w, p) = 0
      BY DEF HoldersIn, Holding
  <2>. QED
      BY <2>1, <2>2
<1>2. \A o \in H : g[o] = f[o]
    BY DEF HoldersIn, Holding
<1>3. HeldIn(ff, w, p) = SumFunctionOnSet(g, H)
    BY DEF HeldIn, SumFunction
<1>4. H \in SUBSET S /\ IsFiniteSet(H)
    BY FS_Subset
<1>. HIDE DEF f, g, H
<1>5. SumFunctionOnSet(f, S) = SumFunctionOnSet(f, H)
    BY <1>1, <1>4, SumOfPart
<1>6. SumFunctionOnSet(g, H) = SumFunctionOnSet(f, H)
    BY <1>1, <1>2, <1>4, SumAgrees
<1>. QED
    BY <1>3, <1>5, <1>6 DEF f

(* It changes by what the one order that moves holds more or less.         *)
LEMMA HeldMoves ==
    ASSUME NEW ff, NEW gg, AreTyped(ff), AreTyped(gg), IsFiniteSet(HoldersIn(ff)),
           NEW o \in Orders, \A q \in Orders : q # o => gg[q] = ff[q],
           NEW w \in Sites, NEW p \in Products
    PROVE  /\ HeldIn(ff, w, p) \in Nat /\ HeldIn(gg, w, p) \in Nat
           /\ HeldIn(gg, w, p) = HeldIn(ff, w, p) - Holding(o, ff[o], w, p) + Holding(o, gg[o], w, p)
<1>. DEFINE S == HoldersIn(ff) \cup {o}
            f == [q \in S |-> Holding(q, ff[q], w, p)]
            g == [q \in S |-> Holding(q, gg[q], w, p)]
<1>1. S \in SUBSET Orders /\ HoldersIn(ff) \subseteq S /\ HoldersIn(gg) \subseteq S /\ o \in S
    BY DEF HoldersIn
<1>2. IsFiniteSet(S)
    BY FS_AddElement
<1>. HIDE DEF S
<1>3. HeldIn(ff, w, p) = SumFunctionOnSet(f, S) /\ HeldIn(gg, w, p) = SumFunctionOnSet(g, S)
    BY <1>1, <1>2, HeldIsSum
<1>4. /\ \A q \in S : f[q] \in Nat /\ g[q] \in Nat
      /\ \A q \in S : q # o => g[q] = f[q]
      /\ f[o] = Holding(o, ff[o], w, p) /\ g[o] = Holding(o, gg[o], w, p)
    BY <1>1, HoldingIsNat DEF AreTyped
<1>. HIDE DEF f, g
<1>5. SumFunctionOnSet(f, S) \in Nat /\ SumFunctionOnSet(g, S) \in Nat
    BY <1>2, <1>4, SumIsNat
<1>6. SumFunctionOnSet(g, S) = SumFunctionOnSet(f, S) - f[o] + g[o]
  <2>1. \A q \in S : f[q] \in Int /\ g[q] \in Int
      BY <1>4
  <2>. QED
      BY <1>1, <1>2, <1>4, <2>1, SumChangesByOne
<1>. QED
    BY <1>3, <1>4, <1>5, <1>6

---------------------------------------------------------------------------
(* The goods of a confirmed order.  Where an order names a product twice a *)
(* consolidation may give one line what another waits for, so that the     *)
(* lines of a shipped fulfillment need not add up.                         *)

ProductsOnce ==
    \A o \in Orders : \A k, l \in LinesIn(o) : Demand[o][k].product = Demand[o][l].product => k = l

Left(f, l) == SumFunctionOnSet([w \in Sites |-> f.alloc[w][l]], f.shipped)

Behind(f) == f.status = "SHIPPED" /\ \E w \in Sites : w \notin f.shipped /\ Serves(f.alloc, w)

Goods(o, f, doc) ==
    /\ f \in Fulfillment(o) /\ doc \in Order(o)
    /\ \A w \in f.shipped : Serves(f.alloc, w)
    /\ \A l \in LinesIn(o) :
          /\ doc.qtyShipped[l] <= Demand[o][l].qty
          /\ doc.status = "SHIPPED" => doc.qtyShipped[l] = Demand[o][l].qty
          /\ ~Behind(f) => doc.qtyShipped[l] = Min({Demand[o][l].qty, Left(f, l)})
          /\ (ProductsOnce \/ f.status # "SHIPPED") =>
                f.back[l] = Max({0, Demand[o][l].qty - Given(f.alloc, l)})

GoodsInv ==
    /\ StandingInv
    /\ IsFiniteSet({o \in Orders : Confirmed(o)})
    /\ stock \in [Sites -> [Products -> Row]]
    /\ \A o \in Orders : IF Confirmed(o) THEN Goods(o, fulfillment[o], order[o]) ELSE order[o] = None
    /\ ReservedIsHeld

---------------------------------------------------------------------------
(* The stock and the fulfillments are typed.                               *)
LEMMA RowsOfStock ==
    ASSUME GoodsInv
    PROVE  /\ stock \in Rows /\ AreTyped(fulfillment) /\ IsFiniteSet(HoldersIn(fulfillment))
           /\ \A w \in Sites, p \in Products :
                 /\ stock[w][p].inStock \in Int /\ stock[w][p].reserved \in Nat
                 /\ OpeningStock[w][p].reserved \in Nat
<1>1. stock \in [Sites -> [Products -> Row]]
    BY DEF GoodsInv
<1>2. \A w \in Sites, p \in Products : stock[w][p] \in Row
    BY <1>1
<1>3. stock \in Rows
    BY <1>1 DEF Rows, Row
<1>4. AreTyped(fulfillment)
    BY DEF GoodsInv, Goods, AreTyped, Confirmed
<1>5. HoldersIn(fulfillment) \subseteq {o \in Orders : Confirmed(o)}
    BY DEF HoldersIn, Confirmed
<1>6. IsFiniteSet(HoldersIn(fulfillment))
    BY <1>5, FS_Subset DEF GoodsInv
<1>7. \A w \in Sites, p \in Products : OpeningStock[w][p].reserved \in Nat
    BY OpeningStockType
<1>. QED
    BY <1>2, <1>3, <1>4, <1>6, <1>7 DEF Row

(* What is held depends on the fulfillments only ...                       *)
LEMMA HeldIsHeldIn == \A w, p : Held(w, p) = HeldIn(fulfillment, w, p)
BY DEF Held, HeldIn, Holders, HoldersIn, Confirmed

(* ... also after a step.                                                  *)
LEMMA HeldNextIsHeldIn == \A w, p : Held(w, p)' = HeldIn(fulfillment', w, p)
BY DEF Held, HeldIn, Holders, HoldersIn, Confirmed

(* No fulfillment that was not behind and is looked at holds more or less. *)
LEMMA BehindIsLeftBehind ==
    /\ \A o \in Orders : LeftBehind(o) <=> Confirmed(o) /\ Behind(fulfillment[o])
    /\ \A o \in Orders : LeftBehind(o)' <=> Confirmed(o)' /\ Behind(fulfillment'[o])
BY DEF LeftBehind, Behind

(* What a step on one order has to show.                                   *)
LEMMA GoodsMove ==
    ASSUME GoodsInv, StandingInv', NEW o \in Orders, NEW f, NEW doc,
           Confirmed(o) => fulfillment[o].status # "SHIPPED",
           fulfillment'[o] = f, order'[o] = doc,
           \A q \in Orders : q # o => fulfillment'[q] = fulfillment[q] /\ order'[q] = order[q],
           Goods(o, f, doc),
           stock' \in Rows,
           \A w \in Sites, p \in Products :
              LET reserved == stock'[w][p].reserved - stock[w][p].reserved
                  holding == Holding(o, f, w, p) - Holding(o, fulfillment[o], w, p)
              IN  reserved >= holding /\ (~Behind(f) => reserved = holding)
    PROVE  GoodsInv'
<1>1. f # None
    BY NoneIsNoFulfillment DEF Goods
<1>2. AreTyped(fulfillment) /\ AreTyped(fulfillment')
    BY RowsOfStock DEF AreTyped, Goods
<1>3. ASSUME NEW w \in Sites, NEW p \in Products
      PROVE  LET kept == stock'[w][p].reserved - OpeningStock[w][p].reserved
             IN  /\ kept >= Held(w, p)'
                 /\ (\A q \in Orders : ~LeftBehind(q)') => kept = Held(w, p)'
                 /\ stock'[w][p].reserved \in Nat
  <2>1. /\ HeldIn(fulfillment, w, p) \in Nat /\ HeldIn(fulfillment', w, p) \in Nat
        /\ HeldIn(fulfillment', w, p) = HeldIn(fulfillment, w, p)
              - Holding(o, fulfillment[o], w, p) + Holding(o, f, w, p)
      BY <1>2, RowsOfStock, HeldMoves
  <2>2. stock[w][p].reserved \in Nat /\ OpeningStock[w][p].reserved \in Nat /\ stock'[w][p].reserved \in Int
      BY RowsOfStock DEF Rows
  <2>3. Holding(o, fulfillment[o], w, p) \in Nat /\ Holding(o, f, w, p) \in Nat
      BY <1>2, HoldingIsNat DEF AreTyped
  <2>4. LET reserved == stock[w][p].reserved - OpeningStock[w][p].reserved
        IN  /\ reserved >= HeldIn(fulfillment, w, p)
            /\ (\A q \in Orders : ~LeftBehind(q)) => reserved = HeldIn(fulfillment, w, p)
      BY HeldIsHeldIn DEF GoodsInv, ReservedIsHeld
  <2>5. stock'[w][p].reserved - OpeningStock[w][p].reserved >= HeldIn(fulfillment', w, p)
      BY <2>1, <2>2, <2>3, <2>4
  <2>6. stock'[w][p].reserved \in Nat
      BY <2>1, <2>2, <2>5
  <2>7. ASSUME \A q \in Orders : ~LeftBehind(q)'
        PROVE  stock'[w][p].reserved - OpeningStock[w][p].reserved = HeldIn(fulfillment', w, p)
    <3>1. ~Behind(f)
        BY <1>1, <2>7, BehindIsLeftBehind DEF Confirmed
    <3>2. ASSUME NEW q \in Orders PROVE ~LeftBehind(q)
      <4>1. CASE q = o
          BY <4>1 DEF LeftBehind
      <4>2. CASE q # o
          BY <2>7, <4>2, BehindIsLeftBehind DEF Confirmed
      <4>. QED
          BY <4>1, <4>2
    <3>. QED
        BY <2>1, <2>2, <2>3, <2>4, <3>1, <3>2
  <2>. QED
      BY <2>5, <2>6, <2>7, HeldNextIsHeldIn
<1>4. stock' \in [Sites -> [Products -> Row]]
  <2>1. \A w \in Sites, p \in Products : stock'[w][p] \in [inStock : Int, reserved : Int]
      BY DEF Rows
  <2>2. \A w \in Sites, p \in Products : stock'[w][p] \in Row
      BY <1>3, <2>1 DEF Row
  <2>. QED
      BY <2>2 DEF Rows
<1>5. IsFiniteSet({q \in Orders : Confirmed(q)}')
  <2>1. {q \in Orders : Confirmed(q)}' = {q \in Orders : Confirmed(q)} \cup {o}
      BY <1>1 DEF Confirmed
  <2>. QED
      BY <2>1, FS_AddElement DEF GoodsInv
<1>6. ASSUME NEW q \in Orders
      PROVE  IF Confirmed(q)' THEN Goods(q, fulfillment'[q], order'[q]) ELSE order'[q] = None
  <2>1. CASE q = o
      BY <1>1, <2>1 DEF Confirmed
  <2>2. CASE q # o
      BY <2>2 DEF GoodsInv, Confirmed
  <2>. QED
      BY <2>1, <2>2
<1>7. ReservedIsHeld'
    BY <1>3 DEF ReservedIsHeld
<1>. QED
    BY <1>4, <1>5, <1>6, <1>7 DEF GoodsInv

---------------------------------------------------------------------------
(* The rows after units are reserved, given back, taken and sent.          *)

(* What reserving, releasing, taking and sending do to each row.           *)
LEMMA RowsMove ==
    ASSUME NEW rows \in Rows, NEW o \in Orders, NEW alloc \in Allocations(Demand[o])
    PROVE  /\ Reserving(rows, o, alloc) \in Rows /\ Releasing(rows, o, alloc) \in Rows
           /\ Taking(rows, o, alloc) \in Rows /\ Sending(rows, o, alloc) \in Rows
           /\ \A w \in Sites, p \in Products :
                 LET units == Units(o, alloc, w, p)
                     row == rows[w][p]
                 IN  /\ Reserving(rows, o, alloc)[w][p].inStock = row.inStock
                     /\ Reserving(rows, o, alloc)[w][p].reserved = row.reserved + units
                     /\ Releasing(rows, o, alloc)[w][p].inStock = row.inStock
                     /\ Releasing(rows, o, alloc)[w][p].reserved = row.reserved - units
                     /\ Taking(rows, o, alloc)[w][p].inStock = row.inStock - units
                     /\ Taking(rows, o, alloc)[w][p].reserved = row.reserved - units
                     /\ Sending(rows, o, alloc)[w][p].inStock = row.inStock - units
                     /\ Sending(rows, o, alloc)[w][p].reserved = row.reserved
<1>1. \A w \in Sites, p \in Products : Units(o, alloc, w, p) \in Nat
    BY UnitsAreNat
<1>2. \A w \in Sites, p \in Products :
          /\ rows[w][p] \in [inStock : Int, reserved : Int]
          /\ rows[w][p].inStock \in Int /\ rows[w][p].reserved \in Int
    BY DEF Rows
<1>. DEFINE reserving == [w \in Sites |-> [p \in Products |->
                [rows[w][p] EXCEPT !.reserved = rows[w][p].reserved + Units(o, alloc, w, p)]]]
            releasing == [w \in Sites |-> [p \in Products |->
                [rows[w][p] EXCEPT !.reserved = rows[w][p].reserved - Units(o, alloc, w, p)]]]
            taking == [w \in Sites |-> [p \in Products |->
                [rows[w][p] EXCEPT !.inStock = rows[w][p].inStock - Units(o, alloc, w, p),
                                   !.reserved = rows[w][p].reserved - Units(o, alloc, w, p)]]]
            sending == [w \in Sites |-> [p \in Products |->
                [rows[w][p] EXCEPT !.inStock = rows[w][p].inStock - Units(o, alloc, w, p)]]]
<1>3. reserving = Reserving(rows, o, alloc) /\ releasing = Releasing(rows, o, alloc)
    BY Zenon DEF Reserving, Releasing
<1>4. taking = Taking(rows, o, alloc) /\ sending = Sending(rows, o, alloc)
    BY Zenon DEF Taking, Sending
<1>5. ASSUME NEW w \in Sites, NEW p \in Products
      PROVE  LET units == Units(o, alloc, w, p)
                 row == rows[w][p]
             IN  /\ reserving[w][p] = [inStock |-> row.inStock, reserved |-> row.reserved + units]
                 /\ releasing[w][p] = [inStock |-> row.inStock, reserved |-> row.reserved - units]
                 /\ taking[w][p] = [inStock |-> row.inStock - units, reserved |-> row.reserved - units]
                 /\ sending[w][p] = [inStock |-> row.inStock - units, reserved |-> row.reserved]
  <2>1. rows[w][p] \in [inStock : Int, reserved : Int]
      BY <1>2
  <2>. QED
      BY <2>1
<1>6. /\ reserving = [w \in Sites |-> [p \in Products |-> reserving[w][p]]]
      /\ releasing = [w \in Sites |-> [p \in Products |-> releasing[w][p]]]
      /\ taking = [w \in Sites |-> [p \in Products |-> taking[w][p]]]
      /\ sending = [w \in Sites |-> [p \in Products |-> sending[w][p]]]
  <2>1. reserving = [w \in Sites |-> [p \in Products |-> reserving[w][p]]]
      OBVIOUS
  <2>2. releasing = [w \in Sites |-> [p \in Products |-> releasing[w][p]]]
      OBVIOUS
  <2>3. taking = [w \in Sites |-> [p \in Products |-> taking[w][p]]]
      OBVIOUS
  <2>4. sending = [w \in Sites |-> [p \in Products |-> sending[w][p]]]
      OBVIOUS
  <2>. HIDE DEF reserving, releasing, taking, sending
  <2>. QED
      BY <2>1, <2>2, <2>3, <2>4
<1>. HIDE DEF reserving, releasing, taking, sending
<1>7. ASSUME NEW w \in Sites, NEW p \in Products
      PROVE  LET units == Units(o, alloc, w, p)
                 row == rows[w][p]
             IN  /\ /\ reserving[w][p].inStock = row.inStock
                    /\ reserving[w][p].reserved = row.reserved + units
                    /\ releasing[w][p].inStock = row.inStock
                    /\ releasing[w][p].reserved = row.reserved - units
                 /\ /\ taking[w][p].inStock = row.inStock - units
                    /\ taking[w][p].reserved = row.reserved - units
                    /\ sending[w][p].inStock = row.inStock - units
                    /\ sending[w][p].reserved = row.reserved
                 /\ {reserving[w][p], releasing[w][p], taking[w][p], sending[w][p]}
                        \subseteq [inStock : Int, reserved : Int]
  <2>. DEFINE units == Units(o, alloc, w, p)
              row == rows[w][p]
  <2>1. units \in Nat /\ row.inStock \in Int /\ row.reserved \in Int
      BY <1>1, <1>2
  <2>2. /\ reserving[w][p] = [inStock |-> row.inStock, reserved |-> row.reserved + units]
        /\ releasing[w][p] = [inStock |-> row.inStock, reserved |-> row.reserved - units]
        /\ taking[w][p] = [inStock |-> row.inStock - units, reserved |-> row.reserved - units]
        /\ sending[w][p] = [inStock |-> row.inStock - units, reserved |-> row.reserved]
      BY <1>5
  <2>. HIDE DEF units, row
  <2>3. /\ reserving[w][p].inStock = row.inStock
        /\ reserving[w][p].reserved = row.reserved + units
        /\ releasing[w][p].inStock = row.inStock
        /\ releasing[w][p].reserved = row.reserved - units
      BY <2>2
  <2>4. /\ taking[w][p].inStock = row.inStock - units
        /\ taking[w][p].reserved = row.reserved - units
        /\ sending[w][p].inStock = row.inStock - units
        /\ sending[w][p].reserved = row.reserved
      BY <2>2
  <2>5. {reserving[w][p], releasing[w][p], taking[w][p], sending[w][p]}
            \subseteq [inStock : Int, reserved : Int]
      BY <2>1, <2>2
  <2>. QED
      BY <2>3, <2>4, <2>5 DEF units, row
<1>8. reserving \in Rows /\ releasing \in Rows /\ taking \in Rows /\ sending \in Rows
    BY <1>6, <1>7 DEF Rows
<1>. QED
    BY <1>3, <1>4, <1>7, <1>8

---------------------------------------------------------------------------
(* A split of which nothing has left.                                      *)

(* Where nothing has left, goods are accounted for if the backorder is.    *)
LEMMA OpenGoods ==
    ASSUME NEW o \in Orders, NEW f \in Fulfillment(o), NEW doc \in Order(o),
           f.shipped = {}, f.status # "SHIPPED", NothingLeft(o, f, doc),
           \A l \in LinesIn(o) : f.back[l] = Max({0, Demand[o][l].qty - Given(f.alloc, l)})
    PROVE  /\ Goods(o, f, doc)
           /\ \A w \in Sites, p \in Products :
                 Holding(o, f, w, p) = IF f.reserved THEN Units(o, f.alloc, w, p) ELSE 0
<1>1. f # None /\ Unshipped(f) = f.alloc
    BY NoneIsNoFulfillment, UnshippedIsAllocation
<1>2. ASSUME NEW l \in LinesIn(o)
      PROVE  /\ doc.qtyShipped[l] <= Demand[o][l].qty
             /\ doc.status = "SHIPPED" => doc.qtyShipped[l] = Demand[o][l].qty
             /\ doc.qtyShipped[l] = Min({Demand[o][l].qty, Left(f, l)})
  <2>1. doc.qtyShipped[l] = 0 /\ doc.status = "CONFIRMED"
      BY DEF NothingLeft
  <2>2. Demand[o][l].qty \in Nat
      BY DemandsAreLines, LinesAreFinite
  <2>3. Left(f, l) = 0
      BY SumOfNothing DEF Left
  <2>4. Min({Demand[o][l].qty, Left(f, l)}) = 0
    <3>1. Demand[o][l].qty \in Int /\ 0 \in Int
        BY <2>2
    <3>2. Min({Demand[o][l].qty, 0}) = IF Demand[o][l].qty <= 0 THEN Demand[o][l].qty ELSE 0
        BY <3>1, MinOfTwo
    <3>. QED
        BY <2>2, <2>3, <3>2
  <2>. QED
      BY <2>1, <2>2, <2>4
<1>3. Goods(o, f, doc)
    BY <1>2 DEF Goods
<1>. QED
    BY <1>1, <1>3 DEF Holding

(* So a plan is, and it holds nothing yet.                                 *)
LEMMA PlannedGoods ==
    ASSUME NEW o \in Orders, NEW rows \in Rows, NEW doc \in Order(o),
           NothingLeft(o, Planned(o, rows), doc)
    PROVE  /\ Goods(o, Planned(o, rows), doc)
           /\ \A w \in Sites, p \in Products : Holding(o, Planned(o, rows), w, p) = 0
<1>. DEFINE f == Planned(o, rows)
            plan == PlanWarehouseSplit(rows, Demand[o])
            back == Backorders(Demand[o], plan)
<1>1. f = [status |-> IF HasBackorder(back) THEN "BACKORDER" ELSE "SPLIT_PENDING",
           alloc |-> plan, shipped |-> {}, back |-> back, reserved |-> FALSE, ready |-> FALSE]
    BY DEF Planned
<1>2. /\ Demand[o] \in Seq(Line)
      /\ LinesIn(o) = DOMAIN Demand[o]
    BY DemandsAreLines
<1>3. plan \in Allocations(Demand[o]) /\ \A l \in LinesIn(o) : Given(plan, l) <= Demand[o][l].qty
    BY <1>2, PlanIsAllocation
<1>4. back = [l \in LinesIn(o) |-> Demand[o][l].qty - Given(plan, l)]
    BY <1>2 DEF Backorders, Remaining
<1>. HIDE DEF f, plan, back
<1>5. \A l \in LinesIn(o) : Demand[o][l].qty \in Nat /\ Given(plan, l) \in Nat
    BY <1>2, <1>3, LinesAreFinite, SumsOfAllocation
<1>6. back \in [LinesIn(o) -> Nat]
    BY <1>3, <1>4, <1>5
<1>7. \A l \in LinesIn(o) : back[l] = Max({0, Demand[o][l].qty - Given(plan, l)})
  <2>. SUFFICES ASSUME NEW l \in LinesIn(o)
                PROVE  back[l] = Max({0, Demand[o][l].qty - Given(plan, l)})
      OBVIOUS
  <2>. DEFINE n == Demand[o][l].qty - Given(plan, l)
  <2>1. n \in Nat /\ back[l] = n
      BY <1>3, <1>4, <1>5
  <2>. HIDE DEF n
  <2>2. n \in Int /\ 0 \in Int
      BY <2>1
  <2>3. Max({0, n}) = IF 0 >= n THEN 0 ELSE n
      BY <2>2, MaxOfTwo
  <2>4. Max({0, n}) = n
      BY <2>1, <2>3
  <2>. QED
      BY <2>1, <2>4 DEF n
<1>8. f \in Fulfillment(o)
  <2>1. plan \in [Sites -> [LinesIn(o) -> Nat]]
      BY <1>2, <1>3 DEF Allocations
  <2>2. CASE HasBackorder(back)
      BY <1>1, <1>6, <2>1, <2>2 DEF Fulfillment, FulfillmentStatus
  <2>3. CASE ~HasBackorder(back)
      BY <1>1, <1>6, <2>1, <2>3 DEF Fulfillment, FulfillmentStatus
  <2>. QED
      BY <2>2, <2>3
<1>9. /\ f.shipped = {} /\ f.status # "SHIPPED" /\ ~f.reserved
      /\ f.alloc = plan /\ f.back = back
    BY <1>1
<1>10. NothingLeft(o, f, doc)
    BY DEF f
<1>11. /\ Goods(o, f, doc)
       /\ \A w \in Sites, p \in Products :
             Holding(o, f, w, p) = IF f.reserved THEN Units(o, f.alloc, w, p) ELSE 0
    BY <1>7, <1>8, <1>9, <1>10, OpenGoods
<1>. QED
    BY <1>9, <1>11 DEF f

(* So an override is, and it holds what it gives.                          *)
LEMMA OverriddenGoods ==
    ASSUME NEW o \in Orders, NEW alloc \in Allocations(Demand[o]), NEW doc \in Order(o),
           NothingLeft(o, Overridden(o, alloc), doc)
    PROVE  /\ Goods(o, Overridden(o, alloc), doc)
           /\ \A w \in Sites, p \in Products :
                 Holding(o, Overridden(o, alloc), w, p) = Units(o, alloc, w, p)
<1>. DEFINE f == Overridden(o, alloc)
            back == Short(o, alloc)
<1>1. f = [status |-> IF HasBackorder(back) THEN "BACKORDER" ELSE "RESERVED",
           alloc |-> alloc, shipped |-> {}, back |-> back, reserved |-> TRUE, ready |-> FALSE]
    BY DEF Overridden, StatusReserved
<1>2. Demand[o] \in Seq(Line) /\ LinesIn(o) = DOMAIN Demand[o]
    BY DemandsAreLines
<1>3. back = [l \in LinesIn(o) |-> Max({0, Demand[o][l].qty - Given(alloc, l)})]
    BY DEF Short, Remaining
<1>. HIDE DEF f, back
<1>4. \A l \in LinesIn(o) : Demand[o][l].qty \in Nat /\ Given(alloc, l) \in Nat
    BY <1>2, LinesAreFinite, SumsOfAllocation
<1>5. \A l \in LinesIn(o) : Max({0, Demand[o][l].qty - Given(alloc, l)}) \in Nat
  <2>. SUFFICES ASSUME NEW l \in LinesIn(o)
                PROVE  Max({0, Demand[o][l].qty - Given(alloc, l)}) \in Nat
      OBVIOUS
  <2>. DEFINE n == Demand[o][l].qty - Given(alloc, l)
  <2>1. n \in Int /\ 0 \in Int
      BY <1>4
  <2>. HIDE DEF n
  <2>2. Max({0, n}) = IF 0 >= n THEN 0 ELSE n
      BY <2>1, MaxOfTwo
  <2>3. Max({0, n}) \in Nat
      BY <2>1, <2>2
  <2>. QED
      BY <2>3 DEF n
<1>6. back \in [LinesIn(o) -> Nat]
    BY <1>3, <1>5
<1>7. f \in Fulfillment(o)
  <2>1. alloc \in [Sites -> [LinesIn(o) -> Nat]]
      BY <1>2 DEF Allocations
  <2>2. CASE HasBackorder(back)
      BY <1>1, <1>6, <2>1, <2>2 DEF Fulfillment, FulfillmentStatus
  <2>3. CASE ~HasBackorder(back)
      BY <1>1, <1>6, <2>1, <2>3 DEF Fulfillment, FulfillmentStatus
  <2>. QED
      BY <2>2, <2>3
<1>8. /\ f.shipped = {} /\ f.status # "SHIPPED" /\ f.reserved
      /\ f.alloc = alloc /\ f.back = back
    BY <1>1
<1>9. NothingLeft(o, f, doc)
    BY DEF f
<1>10. \A l \in LinesIn(o) : f.back[l] = Max({0, Demand[o][l].qty - Given(f.alloc, l)})
    BY <1>3, <1>8
<1>11. /\ Goods(o, f, doc)
       /\ \A w \in Sites, p \in Products :
             Holding(o, f, w, p) = IF f.reserved THEN Units(o, f.alloc, w, p) ELSE 0
    BY <1>7, <1>8, <1>9, <1>10, OpenGoods
<1>. QED
    BY <1>8, <1>11 DEF f

(* A fulfillment that can be planned again, and what it gives back.        *)
LEMMA ReplannableGoods ==
    ASSUME GoodsInv, NEW o \in Orders, Replannable(o)
    PROVE  /\ fulfillment[o] \in Fulfillment(o) /\ order[o] \in Order(o)
           /\ fulfillment[o].shipped = {} /\ fulfillment[o].status # "SHIPPED"
           /\ NothingLeft(o, fulfillment[o], order[o])
           /\ \A l \in LinesIn(o) :
                 fulfillment[o].back[l] = Max({0, Demand[o][l].qty - Given(fulfillment[o].alloc, l)})
           /\ \A w \in Sites, p \in Products :
                 Holding(o, fulfillment[o], w, p) =
                    IF fulfillment[o].reserved THEN Units(o, fulfillment[o].alloc, w, p) ELSE 0
<1>1. /\ Confirmed(o) /\ fulfillment[o].status # "SHIPPED"
      /\ Goods(o, fulfillment[o], order[o])
      /\ NothingLeft(o, fulfillment[o], order[o])
    BY DEF GoodsInv, StandingInv, Replannable
<1>2. /\ fulfillment[o] \in Fulfillment(o) /\ order[o] \in Order(o)
      /\ \A l \in LinesIn(o) :
            fulfillment[o].back[l] = Max({0, Demand[o][l].qty - Given(fulfillment[o].alloc, l)})
    BY <1>1 DEF Goods
<1>3. fulfillment[o].shipped = {}
    BY <1>1 DEF NothingLeft
<1>. QED
    BY <1>1, <1>2, <1>3, OpenGoods

(* A release gives a row what the fulfillment holds of it.                 *)
LEMMA ReleasedRows ==
    ASSUME GoodsInv, NEW o \in Orders, Replannable(o)
    PROVE  /\ Released(o, fulfillment[o]) \in Rows
           /\ \A w \in Sites, p \in Products :
                 /\ Released(o, fulfillment[o])[w][p].inStock = stock[w][p].inStock
                 /\ Released(o, fulfillment[o])[w][p].reserved
                        = stock[w][p].reserved - Holding(o, fulfillment[o], w, p)
<1>1. fulfillment[o] \in Fulfillment(o) /\ stock \in Rows
    BY ReplannableGoods, RowsOfStock
<1>2. fulfillment[o].alloc \in Allocations(Demand[o])
    BY <1>1, UnshippedIsAllocation
<1>3. CASE fulfillment[o].reserved
  <2>1. Released(o, fulfillment[o]) = Releasing(stock, o, fulfillment[o].alloc)
      BY <1>3 DEF Released
  <2>. QED
      BY <1>1, <1>2, <1>3, <2>1, RowsMove, ReplannableGoods
<1>4. CASE ~fulfillment[o].reserved
  <2>1. Released(o, fulfillment[o]) = stock
      BY <1>4 DEF Released
  <2>2. \A w \in Sites, p \in Products :
            stock[w][p].reserved \in Int /\ Holding(o, fulfillment[o], w, p) = 0
      BY <1>1, <1>4, ReplannableGoods DEF Rows
  <2>. QED
      BY <1>1, <2>1, <2>2
<1>. QED
    BY <1>3, <1>4

---------------------------------------------------------------------------
(* The steps of an order, one by one.                                      *)

(* A confirmation keeps the goods accounted for.                           *)
LEMMA ConfirmKeepsGoods ==
    ASSUME GoodsInv, NEW o \in Orders, Confirm(o) PROVE GoodsInv'
<1>. DEFINE f == Planned(o, stock)
            doc == [status |-> "CONFIRMED", qtyShipped |-> [l \in LinesIn(o) |-> 0]]
<1>1. StandingInv /\ StandingInv'
    BY ConfirmStands DEF GoodsInv
<1>2. /\ ~Confirmed(o) /\ UNCHANGED stock
      /\ fulfillment' = [fulfillment EXCEPT ![o] = f] /\ order' = [order EXCEPT ![o] = doc]
    BY DEF Confirm
<1>3. stock \in Rows
    BY RowsOfStock
<1>4. doc \in Order(o) /\ NothingLeft(o, f, doc)
    BY PlannedStands DEF Order, OrderStatus, NothingLeft
<1>5. /\ Goods(o, f, doc)
      /\ \A w \in Sites, p \in Products : Holding(o, f, w, p) = 0
    BY <1>3, <1>4, PlannedGoods
<1>. HIDE DEF f, doc
<1>6. /\ fulfillment'[o] = f /\ order'[o] = doc
      /\ \A q \in Orders : q # o => fulfillment'[q] = fulfillment[q] /\ order'[q] = order[q]
    BY <1>1, <1>2 DEF StandingInv
<1>7. \A w \in Sites, p \in Products :
          LET reserved == stock'[w][p].reserved - stock[w][p].reserved
              holding == Holding(o, f, w, p) - Holding(o, fulfillment[o], w, p)
          IN  reserved >= holding /\ (~Behind(f) => reserved = holding)
  <2>1. fulfillment[o] = None
      BY <1>2 DEF Confirmed
  <2>2. \A w \in Sites, p \in Products : Holding(o, fulfillment[o], w, p) = 0
      BY <2>1 DEF Holding
  <2>. QED
      BY <1>2, <1>5, <2>2, RowsOfStock
<1>. QED
    BY <1>1, <1>2, <1>3, <1>5, <1>6, <1>7, GoodsMove

(* A replan does: it releases what was held.                               *)
LEMMA PlanKeepsGoods ==
    ASSUME GoodsInv, NEW o \in Orders, Plan(o) PROVE GoodsInv'
<1>. DEFINE rows == IF Transactions THEN stock ELSE Released(o, fulfillment[o])
            f == Planned(o, rows)
<1>1. StandingInv /\ StandingInv'
    BY PlanStands DEF GoodsInv
<1>2. /\ Replannable(o) /\ UNCHANGED order
      /\ stock' = Released(o, fulfillment[o])
      /\ fulfillment' = [fulfillment EXCEPT ![o] = f]
    BY DEF Plan
<1>3. rows \in Rows /\ stock' \in Rows
    BY <1>2, RowsOfStock, ReleasedRows
<1>4. /\ order[o] \in Order(o) /\ NothingLeft(o, f, order[o])
      /\ fulfillment[o].status # "SHIPPED"
    BY <1>2, PlannedStands, ReplannableGoods DEF NothingLeft
<1>5. /\ Goods(o, f, order[o])
      /\ \A w \in Sites, p \in Products : Holding(o, f, w, p) = 0
    BY <1>3, <1>4, PlannedGoods
<1>. HIDE DEF f, rows
<1>6. /\ fulfillment'[o] = f /\ order'[o] = order[o]
      /\ \A q \in Orders : q # o => fulfillment'[q] = fulfillment[q] /\ order'[q] = order[q]
    BY <1>1, <1>2 DEF StandingInv
<1>7. \A w \in Sites, p \in Products :
          LET reserved == stock'[w][p].reserved - stock[w][p].reserved
              holding == Holding(o, f, w, p) - Holding(o, fulfillment[o], w, p)
          IN  reserved >= holding /\ (~Behind(f) => reserved = holding)
  <2>. SUFFICES ASSUME NEW w \in Sites, NEW p \in Products
                PROVE  stock'[w][p].reserved - stock[w][p].reserved
                           = 0 - Holding(o, fulfillment[o], w, p)
                       /\ Holding(o, fulfillment[o], w, p) \in Int
      BY <1>5
  <2>1. Holding(o, fulfillment[o], w, p) \in Int
      BY <1>2, HoldingIsNat, ReplannableGoods
  <2>2. stock[w][p].reserved \in Int
      BY RowsOfStock
  <2>. QED
      BY <1>2, <2>1, <2>2, ReleasedRows
<1>. QED
    BY <1>1, <1>3, <1>4, <1>5, <1>6, <1>7, GoodsMove

(* What is accepted has not left in part: that would be reserved.          *)
LEMMA AcceptableIsReplannable ==
    ASSUME StandingInv, NEW o \in Orders, Acceptable(o) PROVE Replannable(o)
BY DEF StandingInv, Standing, Acceptable, Replannable

(* An acceptance does: it reserves what it comes to hold.                  *)
LEMMA AcceptKeepsGoods ==
    ASSUME GoodsInv, NEW o \in Orders, Accept(o) PROVE GoodsInv'
<1>. DEFINE f == fulfillment[o]
            g == Accepted(f)
<1>1. StandingInv /\ StandingInv'
    BY AcceptStands DEF GoodsInv
<1>2. /\ Acceptable(o) /\ ~f.reserved /\ UNCHANGED order
      /\ stock' = Reserving(stock, o, f.alloc)
      /\ fulfillment' = [fulfillment EXCEPT ![o] = g]
    BY DEF Accept, Acceptable
<1>3. Replannable(o)
    BY <1>1, <1>2, AcceptableIsReplannable
<1>4. /\ f \in Fulfillment(o) /\ order[o] \in Order(o) /\ f.shipped = {} /\ f.status # "SHIPPED"
      /\ NothingLeft(o, f, order[o])
      /\ \A l \in LinesIn(o) : f.back[l] = Max({0, Demand[o][l].qty - Given(f.alloc, l)})
      /\ \A w \in Sites, p \in Products : Holding(o, f, w, p) = 0
    BY <1>2, <1>3, ReplannableGoods
<1>5. /\ g \in Fulfillment(o) /\ g.reserved /\ g.status # "SHIPPED"
      /\ g.alloc = f.alloc /\ g.shipped = f.shipped /\ g.back = f.back
    BY <1>4 DEF Accepted, StatusReserved, Fulfillment, FulfillmentStatus
<1>6. NothingLeft(o, g, order[o])
    BY <1>4, <1>5 DEF NothingLeft
<1>7. stock \in Rows /\ f.alloc \in Allocations(Demand[o])
    BY <1>4, RowsOfStock, UnshippedIsAllocation
<1>. HIDE DEF f, g
<1>8. /\ Goods(o, g, order[o])
      /\ \A w \in Sites, p \in Products :
            Holding(o, g, w, p) = IF g.reserved THEN Units(o, g.alloc, w, p) ELSE 0
    BY <1>4, <1>5, <1>6, OpenGoods
<1>9. /\ fulfillment'[o] = g /\ order'[o] = order[o]
      /\ \A q \in Orders : q # o => fulfillment'[q] = fulfillment[q] /\ order'[q] = order[q]
    BY <1>1, <1>2 DEF StandingInv
<1>10. stock' \in Rows
    BY <1>2, <1>7, RowsMove
<1>11. \A w \in Sites, p \in Products :
          LET reserved == stock'[w][p].reserved - stock[w][p].reserved
              holding == Holding(o, g, w, p) - Holding(o, fulfillment[o], w, p)
          IN  reserved >= holding /\ (~Behind(g) => reserved = holding)
  <2>. SUFFICES ASSUME NEW w \in Sites, NEW p \in Products
                PROVE  /\ stock'[w][p].reserved - stock[w][p].reserved = Units(o, f.alloc, w, p)
                       /\ Units(o, f.alloc, w, p) \in Int
      BY <1>4, <1>5, <1>8 DEF f
  <2>1. Units(o, f.alloc, w, p) \in Int /\ stock[w][p].reserved \in Int
      BY <1>7, UnitsAreNat, RowsOfStock
  <2>2. stock'[w][p].reserved = stock[w][p].reserved + Units(o, f.alloc, w, p)
      BY <1>2, <1>7, RowsMove
  <2>. QED
      BY <2>1, <2>2
<1>12. fulfillment[o].status # "SHIPPED"
    BY <1>4 DEF f
<1>. QED
    BY <1>1, <1>8, <1>9, <1>10, <1>11, <1>12, GoodsMove

(* An override does: it releases the old and reserves the new.             *)
LEMMA OverrideKeepsGoods ==
    ASSUME GoodsInv, NEW o \in Orders, NEW alloc \in Allocations(Demand[o]), Override(o, alloc)
    PROVE  GoodsInv'
<1>. DEFINE f == fulfillment[o]
            g == Overridden(o, alloc)
            rows == Released(o, f)
<1>1. StandingInv /\ StandingInv'
    BY OverrideStands DEF GoodsInv
<1>2. /\ Replannable(o) /\ UNCHANGED order
      /\ stock' = Reserving(rows, o, alloc)
      /\ fulfillment' = [fulfillment EXCEPT ![o] = g]
    BY DEF Override, MayOverride
<1>3. /\ f \in Fulfillment(o) /\ order[o] \in Order(o) /\ f.status # "SHIPPED"
      /\ NothingLeft(o, f, order[o])
    BY <1>2, ReplannableGoods
<1>4. NothingLeft(o, g, order[o])
    BY <1>3, OverriddenStands DEF NothingLeft
<1>5. /\ Goods(o, g, order[o])
      /\ \A w \in Sites, p \in Products : Holding(o, g, w, p) = Units(o, alloc, w, p)
    BY <1>3, <1>4, OverriddenGoods
<1>6. /\ rows \in Rows
      /\ \A w \in Sites, p \in Products :
            rows[w][p].reserved = stock[w][p].reserved - Holding(o, f, w, p)
    BY <1>2, ReleasedRows
<1>. HIDE DEF f, g, rows
<1>7. /\ fulfillment'[o] = g /\ order'[o] = order[o]
      /\ \A q \in Orders : q # o => fulfillment'[q] = fulfillment[q] /\ order'[q] = order[q]
    BY <1>1, <1>2 DEF StandingInv
<1>8. stock' \in Rows
    BY <1>2, <1>6, RowsMove
<1>9. \A w \in Sites, p \in Products :
          LET reserved == stock'[w][p].reserved - stock[w][p].reserved
              holding == Holding(o, g, w, p) - Holding(o, fulfillment[o], w, p)
          IN  reserved >= holding /\ (~Behind(g) => reserved = holding)
  <2>. SUFFICES ASSUME NEW w \in Sites, NEW p \in Products
                PROVE  /\ stock'[w][p].reserved - stock[w][p].reserved
                              = Units(o, alloc, w, p) - Holding(o, f, w, p)
                       /\ Units(o, alloc, w, p) \in Int /\ Holding(o, f, w, p) \in Int
      BY <1>5 DEF f
  <2>1. /\ Units(o, alloc, w, p) \in Int /\ stock[w][p].reserved \in Int
        /\ Holding(o, f, w, p) \in Int
      BY <1>3, UnitsAreNat, HoldingIsNat, RowsOfStock
  <2>2. stock'[w][p].reserved = rows[w][p].reserved + Units(o, alloc, w, p)
      BY <1>2, <1>6, RowsMove
  <2>. QED
      BY <1>6, <2>1, <2>2
<1>10. fulfillment[o].status # "SHIPPED"
    BY <1>3 DEF f
<1>. QED
    BY <1>1, <1>5, <1>7, <1>8, <1>9, <1>10, GoodsMove

---------------------------------------------------------------------------
(* Goods that leave.                                                       *)

(* A sum with one summand that is not zero is that summand.                *)
LEMMA SumOfOne ==
    ASSUME NEW f, NEW S, IsFiniteSet(S), NEW x \in S,
           \A y \in S : f[y] \in Int, \A y \in S : y # x => f[y] = 0
    PROVE  SumFunctionOnSet(f, S) = f[x]
<1>1. IsFiniteSet(S \ {x}) /\ \A y \in S \ {x} : f[y] = 0
    BY FS_RemoveElement
<1>2. SumFunctionOnSet(f, S \ {x}) = 0
    BY <1>1, SumOfZeros
<1>3. SumFunctionOnSet(f, S) = f[x] + SumFunctionOnSet(f, S \ {x})
    BY SumWithout
<1>. QED
    BY <1>2, <1>3

(* The sum over a part, and the rest with that part left out.              *)
LEMMA SumSplits ==
    ASSUME NEW h, NEW S, IsFiniteSet(S), NEW T \in SUBSET S, \A x \in S : h[x] \in Nat
    PROVE  LET rest == [x \in S |-> IF x \in T THEN 0 ELSE h[x]]
           IN  /\ SumFunctionOnSet(h, T) \in Nat /\ SumFunctionOnSet(rest, S) \in Nat
               /\ SumFunctionOnSet(h, S) = SumFunctionOnSet(h, T) + SumFunctionOnSet(rest, S)
<1>. DEFINE part == [x \in S |-> IF x \in T THEN h[x] ELSE 0]
            rest == [x \in S |-> IF x \in T THEN 0 ELSE h[x]]
<1>1. IsFiniteSet(T)
    BY FS_Subset
<1>2. \A x \in S : /\ part[x] \in Int /\ rest[x] \in Int /\ h[x] = part[x] + rest[x]
                   /\ rest[x] \in Nat
                   /\ x \notin T => part[x] = 0
    OBVIOUS
<1>3. \A x \in T : h[x] \in Int /\ h[x] \in Nat /\ part[x] = h[x]
    OBVIOUS
<1>. HIDE DEF part, rest
<1>4. SumFunctionOnSet(h, S) = SumFunctionOnSet(part, S) + SumFunctionOnSet(rest, S)
    BY <1>2, SumAdds
<1>5. SumFunctionOnSet(part, S) = SumFunctionOnSet(part, T)
    BY <1>2, SumOfPart
<1>6. SumFunctionOnSet(part, T) = SumFunctionOnSet(h, T)
    BY <1>1, <1>3, SumAgrees
<1>7. SumFunctionOnSet(h, T) \in Nat /\ SumFunctionOnSet(rest, S) \in Nat
    BY <1>1, <1>2, <1>3, SumIsNat
<1>. QED
    BY <1>4, <1>5, <1>6, <1>7 DEF rest

(* What a line is given has left, or is still to leave.                    *)
LEMMA LeftAndPicked ==
    ASSUME NEW o \in Orders, NEW f \in Fulfillment(o), NEW l \in LinesIn(o)
    PROVE  /\ Left(f, l) \in Nat /\ Given(Unshipped(f), l) \in Nat /\ Given(f.alloc, l) \in Nat
           /\ Given(f.alloc, l) = Left(f, l) + Given(Unshipped(f), l)
<1>. DEFINE all == [w \in Sites |-> f.alloc[w][l]]
            picked == [w \in Sites |-> IF w \in f.shipped THEN 0 ELSE all[w]]
<1>1. f.shipped \in SUBSET Sites /\ \A w \in Sites : all[w] \in Nat
    BY DEF Fulfillment
<1>2. [w \in Sites |-> Unshipped(f)[w][l]] = picked
    BY UnshippedIsAllocation
<1>3. /\ Given(f.alloc, l) = SumFunctionOnSet(all, Sites)
      /\ Given(Unshipped(f), l) = SumFunctionOnSet(picked, Sites)
      /\ Left(f, l) = SumFunctionOnSet(all, f.shipped)
    BY <1>2, GivenIsSum DEF Left
<1>. HIDE DEF all
<1>4. /\ SumFunctionOnSet(all, f.shipped) \in Nat /\ SumFunctionOnSet(picked, Sites) \in Nat
      /\ SumFunctionOnSet(all, Sites)
            = SumFunctionOnSet(all, f.shipped) + SumFunctionOnSet(picked, Sites)
    BY <1>1, SitesAreFinite, SumSplits
<1>. HIDE DEF picked
<1>. QED
    BY <1>3, <1>4

(* Where every site that serves the order has sent its part.               *)
LEMMA AllLeft ==
    ASSUME NEW o \in Orders, NEW f \in Fulfillment(o),
           \A w \in Sites : Serves(f.alloc, w) => w \in f.shipped
    PROVE  /\ \A l \in LinesIn(o) : Left(f, l) = Given(f.alloc, l)
           /\ \A w \in Sites, p \in Products : Units(o, Unshipped(f), w, p) = 0 /\ Holding(o, f, w, p) = 0
<1>1. /\ f.alloc \in [Sites -> [LinesIn(o) -> Nat]] /\ Unshipped(f) \in Allocations(Demand[o])
      /\ \A w \in Sites, l \in LinesIn(o) : Unshipped(f)[w][l] = IF w \in f.shipped THEN 0 ELSE f.alloc[w][l]
    BY UnshippedIsAllocation DEF Fulfillment
<1>2. ASSUME NEW w \in Sites, NEW l \in LinesIn(o) PROVE Unshipped(f)[w][l] = 0
  <2>1. CASE w \in f.shipped
      BY <1>1, <2>1
  <2>2. CASE w \notin f.shipped
    <3>1. DOMAIN f.alloc[w] = LinesIn(o) /\ f.alloc[w][l] \in Nat
        BY <1>1
    <3>2. ~(f.alloc[w][l] > 0)
        BY <2>2, <3>1 DEF Serves
    <3>. QED
        BY <1>1, <2>2, <3>1, <3>2
  <2>. QED
      BY <2>1, <2>2
<1>3. ASSUME NEW l \in LinesIn(o) PROVE Left(f, l) = Given(f.alloc, l)
  <2>. DEFINE picked == [w \in Sites |-> Unshipped(f)[w][l]]
  <2>1. \A w \in Sites : picked[w] = 0
      BY <1>2
  <2>2. Given(Unshipped(f), l) = SumFunctionOnSet(picked, Sites)
      BY GivenIsSum
  <2>. HIDE DEF picked
  <2>3. SumFunctionOnSet(picked, Sites) = 0
      BY <2>1, SitesAreFinite, SumOfZeros
  <2>. QED
      BY <2>2, <2>3, LeftAndPicked
<1>4. ASSUME NEW w \in Sites, NEW p \in Products
      PROVE  Units(o, Unshipped(f), w, p) = 0 /\ Holding(o, f, w, p) = 0
  <2>1. Units(o, Unshipped(f), w, p) = 0
      BY <1>1, <1>2, UnitsAreNat
  <2>. QED
      BY <2>1 DEF Holding
<1>. QED
    BY <1>3, <1>4

(* Capping twice is capping once.                                          *)
LEMMA MinTwice ==
    ASSUME NEW q \in Nat, NEW a \in Nat, NEW b \in Nat
    PROVE  /\ Min({q, a}) \in Nat /\ Min({q, a}) <= q /\ Min({q, a}) <= a
           /\ Min({q, Min({q, a}) + b}) = Min({q, a + b})
           /\ a <= q => Min({q, a}) = a
           /\ a >= q => Min({q, a}) = q
<1>1. q \in Int /\ a \in Int /\ a + b \in Int
    OBVIOUS
<1>2. Min({q, a}) = IF q <= a THEN q ELSE a
    BY <1>1, MinOfTwo
<1>. DEFINE m == Min({q, a})
<1>3. Min({q, a + b}) = IF q <= a + b THEN q ELSE a + b
    BY <1>1, MinOfTwo
<1>4. m = IF q <= a THEN q ELSE a
    BY <1>2
<1>. HIDE DEF m
<1>5. m \in Nat /\ m <= q /\ m <= a /\ m + b \in Int
    BY <1>4
<1>6. Min({q, m + b}) = IF q <= m + b THEN q ELSE m + b
    BY <1>1, <1>5, MinOfTwo
<1>7. Min({q, m + b}) = Min({q, a + b})
    BY <1>3, <1>4, <1>5, <1>6
<1>8. (a <= q => m = a) /\ (a >= q => m = q)
    BY <1>4
<1>. QED
    BY <1>5, <1>7, <1>8 DEF m

(* What an order has had shipped.                                          *)
LEMMA DeliveredIs ==
    ASSUME NEW o \in Orders, NEW was \in [LinesIn(o) -> Nat], NEW given \in [LinesIn(o) -> Nat],
           \A l \in LinesIn(o) : was[l] <= Demand[o][l].qty
    PROVE  /\ Delivered(o, was, given) \in [LinesIn(o) -> Nat]
           /\ \A l \in LinesIn(o) :
                 LET delivered == Delivered(o, was, given)[l]
                 IN  /\ delivered = Min({Demand[o][l].qty, was[l] + given[l]})
                     /\ was[l] <= delivered /\ delivered <= Demand[o][l].qty
<1>. DEFINE d == [l \in LinesIn(o) |-> Min({Demand[o][l].qty, was[l] + given[l]})]
<1>1. d = Delivered(o, was, given)
    BY DEF Delivered
<1>2. ASSUME NEW l \in LinesIn(o)
      PROVE  /\ d[l] = Min({Demand[o][l].qty, was[l] + given[l]})
             /\ d[l] \in Nat /\ was[l] <= d[l] /\ d[l] <= Demand[o][l].qty
  <2>1. Demand[o][l].qty \in Nat /\ was[l] \in Nat /\ given[l] \in Nat
      BY DemandsAreLines, LinesAreFinite
  <2>. DEFINE sum == was[l] + given[l]
  <2>2. Demand[o][l].qty \in Int /\ sum \in Int /\ sum >= was[l] /\ sum >= 0
      BY <2>1
  <2>3. d[l] = Min({Demand[o][l].qty, sum})
      OBVIOUS
  <2>. HIDE DEF sum, d
  <2>4. d[l] = IF Demand[o][l].qty <= sum THEN Demand[o][l].qty ELSE sum
      BY <2>2, <2>3, MinOfTwo
  <2>. QED
      BY <2>1, <2>2, <2>3, <2>4 DEF sum
<1>3. d \in [LinesIn(o) -> Nat]
    BY <1>2
<1>. QED
    BY <1>1, <1>2, <1>3

(* Goods leave for an order: the fulfillment and the order record it.      *)
GoodsLeave(o, f, g, doc, doc2, sent) ==
    /\ sent \in Allocations(Demand[o])
    /\ g \in Fulfillment(o)
    /\ doc2 = [status |-> doc2.status, qtyShipped |-> doc2.qtyShipped]
    /\ doc2.qtyShipped = Delivered(o, doc.qtyShipped, [l \in LinesIn(o) |-> Given(sent, l)])
    /\ doc2.status \in OrderStatus
    /\ doc2.status = "SHIPPED" =>
          doc.status = "SHIPPED" \/ \A l \in LinesIn(o) : doc2.qtyShipped[l] >= Demand[o][l].qty
    /\ \A w \in g.shipped : Serves(g.alloc, w)
    /\ ~Behind(g) => \A l \in LinesIn(o) : Left(g, l) = Left(f, l) + Given(sent, l)
    /\ \A l \in LinesIn(o) : (ProductsOnce \/ g.status # "SHIPPED") =>
          g.back[l] = Max({0, Demand[o][l].qty - Given(g.alloc, l)})

(* What is delivered is what was, and what is sent, up to the order.       *)
LEMMA GoodsThatLeave ==
    ASSUME NEW o \in Orders, NEW f, NEW g, NEW doc, NEW doc2, NEW sent,
           Goods(o, f, doc), ~Behind(f), GoodsLeave(o, f, g, doc, doc2, sent)
    PROVE  /\ Goods(o, g, doc2)
           /\ \A l \in LinesIn(o) :
                 /\ doc2.qtyShipped[l] >= doc.qtyShipped[l]
                 /\ doc2.qtyShipped[l] = Min({Demand[o][l].qty, doc.qtyShipped[l] + Given(sent, l)})
<1>. DEFINE given == [l \in LinesIn(o) |-> Given(sent, l)]
            was == doc.qtyShipped
            delivered == Delivered(o, was, given)
<1>1. Demand[o] \in Seq(Line) /\ LinesIn(o) = DOMAIN Demand[o] /\ sent \in Allocations(Demand[o])
    BY DemandsAreLines DEF GoodsLeave
<1>2. given \in [LinesIn(o) -> Nat] /\ \A l \in LinesIn(o) : given[l] = Given(sent, l)
    BY <1>1, SumsOfAllocation
<1>3. /\ f \in Fulfillment(o) /\ doc \in Order(o)
      /\ was \in [LinesIn(o) -> Nat] /\ \A l \in LinesIn(o) : was[l] <= Demand[o][l].qty
      /\ \A l \in LinesIn(o) : was[l] = Min({Demand[o][l].qty, Left(f, l)})
      /\ doc.status = "SHIPPED" => \A l \in LinesIn(o) : was[l] = Demand[o][l].qty
    BY DEF Goods, Order
<1>4. doc2.qtyShipped = delivered
    BY DEF GoodsLeave
<1>. HIDE DEF was, given
<1>5. /\ delivered \in [LinesIn(o) -> Nat]
      /\ \A l \in LinesIn(o) :
            /\ delivered[l] = Min({Demand[o][l].qty, was[l] + Given(sent, l)})
            /\ was[l] <= delivered[l] /\ delivered[l] <= Demand[o][l].qty
  <2>1. /\ delivered \in [LinesIn(o) -> Nat]
        /\ \A l \in LinesIn(o) :
              /\ delivered[l] = Min({Demand[o][l].qty, was[l] + given[l]})
              /\ was[l] <= delivered[l] /\ delivered[l] <= Demand[o][l].qty
      BY <1>2, <1>3, DeliveredIs
  <2>. HIDE DEF delivered
  <2>. QED
      BY <1>2, <2>1
<1>. HIDE DEF delivered
<1>6. doc2 \in Order(o)
  <2>1. doc2 = [status |-> doc2.status, qtyShipped |-> doc2.qtyShipped] /\ doc2.status \in OrderStatus
      BY DEF GoodsLeave
  <2>2. doc2.qtyShipped \in [LinesIn(o) -> Nat]
      BY <1>4, <1>5
  <2>. QED
      BY <2>1, <2>2 DEF Order
<1>7. ASSUME NEW l \in LinesIn(o), doc2.status = "SHIPPED"
      PROVE  doc2.qtyShipped[l] = Demand[o][l].qty
  <2>1. Demand[o][l].qty \in Nat /\ doc2.qtyShipped[l] \in Nat
      BY <1>1, <1>4, <1>5, LinesAreFinite
  <2>2. doc2.qtyShipped[l] <= Demand[o][l].qty
      BY <1>4, <1>5
  <2>3. doc2.qtyShipped[l] >= Demand[o][l].qty
    <3>1. CASE doc.status = "SHIPPED"
      <4>1. was[l] = Demand[o][l].qty /\ was[l] <= doc2.qtyShipped[l]
          BY <1>3, <1>4, <1>5, <3>1
      <4>. QED
          BY <2>1, <4>1
    <3>2. CASE doc.status # "SHIPPED"
        BY <1>7, <3>2 DEF GoodsLeave
    <3>. QED
        BY <3>1, <3>2
  <2>. QED
      BY <2>1, <2>2, <2>3
<1>8. ASSUME NEW l \in LinesIn(o), ~Behind(g)
      PROVE  doc2.qtyShipped[l] = Min({Demand[o][l].qty, Left(g, l)})
  <2>. DEFINE q == Demand[o][l].qty
              a == Left(f, l)
              b == Given(sent, l)
  <2>1. q \in Nat /\ a \in Nat /\ b \in Nat
      BY <1>1, <1>3, LinesAreFinite, LeftAndPicked, SumsOfAllocation
  <2>2. doc2.qtyShipped[l] = Min({q, was[l] + b}) /\ was[l] = Min({q, a}) /\ Left(g, l) = a + b
      BY <1>3, <1>4, <1>5, <1>8 DEF GoodsLeave
  <2>. HIDE DEF q, a, b
  <2>3. Min({q, Min({q, a}) + b}) = Min({q, a + b})
      BY <2>1, MinTwice
  <2>. QED
      BY <2>2, <2>3 DEF q
<1>. QED
    BY <1>4, <1>5, <1>6, <1>7, <1>8 DEF Goods, GoodsLeave, was

(* A step that sends goods to an order: what has left is what it shipped   *)
(* before and what is sent, up to what was ordered.                        *)
Sends(o, sent) ==
    /\ Confirmed(o) /\ fulfillment[o].status # "SHIPPED" /\ sent \in Allocations(Demand[o])
    /\ fulfillment'[o] # None /\ order'[o] \in Order(o)
    /\ \A q \in Orders : q # o => fulfillment'[q] = fulfillment[q] /\ order'[q] = order[q]
    /\ fulfillment[o].shipped \subseteq fulfillment'[o].shipped
    /\ \A l \in LinesIn(o) :
          /\ order'[o].qtyShipped[l] >= order[o].qtyShipped[l]
          /\ order'[o].qtyShipped[l] =
                Min({Demand[o][l].qty, order[o].qtyShipped[l] + Given(sent, l)})
          /\ \A w \in Sites : fulfillment'[o].alloc[w][l] >= fulfillment[o].alloc[w][l]
    /\ \A w \in Sites, p \in Products :
          stock'[w][p].inStock = stock[w][p].inStock - Units(o, sent, w, p)

(* Accepted stock that is still to leave is not behind.                    *)
LEMMA ShipKeepsGoods ==
    ASSUME GoodsInv, NEW o \in Orders, Ship(o)
    PROVE  GoodsInv' /\ Sends(o, Unshipped(fulfillment[o]))
<1>. DEFINE f == fulfillment[o]
            g == ShippedAll(f)
            picked == Unshipped(f)
            given == [l \in LinesIn(o) |-> Given(picked, l)]
            doc2 == OrderShipped(o, order[o], picked)
<1>1. StandingInv /\ StandingInv'
    BY ShipStands DEF GoodsInv
<1>2. /\ Confirmed(o) /\ f.reserved /\ f.status # "SHIPPED"
      /\ stock' = Taking(stock, o, picked)
      /\ fulfillment' = [fulfillment EXCEPT ![o] = g]
      /\ order' = [order EXCEPT ![o] = doc2]
    BY DEF Ship, Shippable
<1>3. Goods(o, f, order[o]) /\ f \in Fulfillment(o) /\ order[o] \in Order(o) /\ ~Behind(f) /\ f # None
    BY <1>2, NoneIsNoFulfillment DEF GoodsInv, Goods, Behind
<1>4. /\ g.alloc = f.alloc /\ g.back = f.back /\ g.reserved = f.reserved
      /\ g.shipped = {w \in Sites : Serves(f.alloc, w)}
      /\ g.status \in {"PARTIALLY_SHIPPED", "SHIPPED"}
      /\ g \in Fulfillment(o)
    BY <1>3 DEF ShippedAll, Fulfillment, FulfillmentStatus
<1>5. picked \in Allocations(Demand[o]) /\ stock \in Rows
    BY <1>3, UnshippedIsAllocation, RowsOfStock
<1>6. \A w \in Sites : Serves(g.alloc, w) => w \in g.shipped
    BY <1>4
<1>7. /\ \A l \in LinesIn(o) : Left(g, l) = Given(g.alloc, l)
      /\ \A w \in Sites, p \in Products : Holding(o, g, w, p) = 0
  <2>. HIDE DEF g
  <2>. QED
      BY <1>4, <1>6, AllLeft
<1>8. \A l \in LinesIn(o) : Left(g, l) = Left(f, l) + Given(picked, l)
    BY <1>3, <1>4, <1>7, LeftAndPicked
<1>9. /\ doc2 = [status |-> doc2.status, qtyShipped |-> doc2.qtyShipped]
      /\ doc2.qtyShipped = Delivered(o, order[o].qtyShipped, given)
      /\ doc2.status \in OrderStatus
      /\ doc2.status = "SHIPPED" =>
            order[o].status = "SHIPPED" \/ \A l \in LinesIn(o) : doc2.qtyShipped[l] >= Demand[o][l].qty
  <2>. DEFINE delivered == Delivered(o, order[o].qtyShipped, given)
              complete == \A l \in LinesIn(o) : delivered[l] >= Demand[o][l].qty
              status == IF complete /\ order[o].status = "CONFIRMED" THEN "SHIPPED" ELSE order[o].status
  <2>1. doc2 = [order[o] EXCEPT !.qtyShipped = delivered, !.status = status]
      BY DEF OrderShipped
  <2>2. order[o].status \in OrderStatus
      BY <1>3 DEF Order
  <2>3. status \in OrderStatus /\ (status = "SHIPPED" => order[o].status = "SHIPPED" \/ complete)
      BY <2>2 DEF OrderStatus
  <2>. HIDE DEF delivered, status, doc2
  <2>4. doc2 = [status |-> status, qtyShipped |-> delivered]
      BY <1>3, <2>1 DEF Order
  <2>5. doc2.qtyShipped = delivered /\ doc2.status = status
      BY <2>4
  <2>. QED
      BY <2>3, <2>4, <2>5 DEF delivered
<1>10. \A l \in LinesIn(o) : g.back[l] = Max({0, Demand[o][l].qty - Given(g.alloc, l)})
    BY <1>2, <1>3, <1>4 DEF Goods
<1>11. \A w \in g.shipped : Serves(g.alloc, w)
    BY <1>4
<1>. HIDE DEF g, picked, doc2
<1>12. GoodsLeave(o, f, g, order[o], doc2, picked)
    BY <1>4, <1>5, <1>8, <1>9, <1>10, <1>11 DEF GoodsLeave
<1>. HIDE DEF f, given
<1>13. /\ Goods(o, g, doc2)
       /\ \A l \in LinesIn(o) :
             /\ doc2.qtyShipped[l] >= order[o].qtyShipped[l]
             /\ doc2.qtyShipped[l] = Min({Demand[o][l].qty, order[o].qtyShipped[l] + Given(picked, l)})
    BY <1>3, <1>12, GoodsThatLeave
<1>14. /\ fulfillment'[o] = g /\ order'[o] = doc2
       /\ \A q \in Orders : q # o => fulfillment'[q] = fulfillment[q] /\ order'[q] = order[q]
    BY <1>1, <1>2 DEF StandingInv
<1>15. stock' \in Rows
    BY <1>2, <1>5, RowsMove
<1>16. \A w \in Sites, p \in Products :
          LET reserved == stock'[w][p].reserved - stock[w][p].reserved
              holding == Holding(o, g, w, p) - Holding(o, fulfillment[o], w, p)
          IN  reserved >= holding /\ (~Behind(g) => reserved = holding)
  <2>. SUFFICES ASSUME NEW w \in Sites, NEW p \in Products
                PROVE  /\ stock'[w][p].reserved - stock[w][p].reserved = 0 - Holding(o, f, w, p)
                       /\ Holding(o, f, w, p) \in Int
      BY <1>7 DEF f
  <2>1. Units(o, picked, w, p) \in Int /\ stock[w][p].reserved \in Int
      BY <1>5, UnitsAreNat, RowsOfStock
  <2>2. stock'[w][p].reserved = stock[w][p].reserved - Units(o, picked, w, p)
      BY <1>2, <1>5, RowsMove
  <2>3. Holding(o, f, w, p) = Units(o, picked, w, p)
      BY <1>2, <1>3 DEF Holding, picked
  <2>. QED
      BY <2>1, <2>2, <2>3
<1>17. fulfillment[o].status # "SHIPPED"
    BY <1>2 DEF f
<1>18. GoodsInv'
    BY <1>1, <1>13, <1>14, <1>15, <1>16, <1>17, GoodsMove
<1>19. f.shipped \subseteq g.shipped
    BY <1>3, <1>4 DEF Goods, Fulfillment
<1>20. \A l \in LinesIn(o), w \in Sites : g.alloc[w][l] >= f.alloc[w][l]
  <2>1. \A l \in LinesIn(o), w \in Sites : f.alloc[w][l] \in Int
      BY <1>3 DEF Fulfillment
  <2>. QED
      BY <1>4, <2>1
<1>21. \A w \in Sites, p \in Products : stock'[w][p].inStock = stock[w][p].inStock - Units(o, picked, w, p)
    BY <1>2, <1>5, RowsMove
<1>22. fulfillment'[o] # None /\ order'[o] \in Order(o)
    BY <1>4, <1>13, <1>14, NoneIsNoFulfillment DEF Goods
<1>23. Sends(o, picked)
    BY <1>2, <1>5, <1>13, <1>14, <1>17, <1>19, <1>20, <1>21, <1>22 DEF Sends, f
<1>. QED
    BY <1>18, <1>23 DEF picked, f

---------------------------------------------------------------------------
(* A consolidation.                                                        *)

(* Lines that wait are lines of the order, with natural backorders.        *)
LEMMA WaitingLines ==
    ASSUME NEW o \in Orders, NEW f \in Fulfillment(o)
    PROVE  /\ Waiting(f.back) \subseteq LinesIn(o) /\ IsFiniteSet(Waiting(f.back))
           /\ \A l \in LinesIn(o) : f.back[l] \in Nat /\ (l \notin Waiting(f.back) => f.back[l] = 0)
<1>1. f.back \in [LinesIn(o) -> Nat]
    BY DEF Fulfillment
<1>2. Waiting(f.back) = {l \in LinesIn(o) : f.back[l] > 0}
    BY <1>1 DEF Waiting
<1>3. IsFiniteSet(LinesIn(o))
    BY DemandsAreLines, LinesAreFinite
<1>. QED
    BY <1>1, <1>2, <1>3, FS_Subset

(* The backorders that go from a site to a line.                           *)
FromTo(o, f, source, w, l) == {k \in DOMAIN source : source[k] = w /\ Target(o, f, k) = l}

(* What a consolidation sends is an allocation.                            *)
LEMMA ConsolidationIs ==
    ASSUME NEW o \in Orders, NEW f \in Fulfillment(o), NEW source \in [Waiting(f.back) -> Sites]
    PROVE  /\ Consolidation(o, f, source) =
                [w \in Sites |-> [l \in LinesIn(o) |->
                    SumFunctionOnSet(f.back, FromTo(o, f, source, w, l))]]
           /\ Consolidation(o, f, source) \in Allocations(Demand[o])
<1>1. Consolidation(o, f, source) =
          [w \in Sites |-> [l \in LinesIn(o) |-> SumFunctionOnSet(f.back, FromTo(o, f, source, w, l))]]
    BY DEF Consolidation, FromTo
<1>2. \A w \in Sites, l \in LinesIn(o) : SumFunctionOnSet(f.back, FromTo(o, f, source, w, l)) \in Nat
  <2>. SUFFICES ASSUME NEW w \in Sites, NEW l \in LinesIn(o)
                PROVE  SumFunctionOnSet(f.back, FromTo(o, f, source, w, l)) \in Nat
      OBVIOUS
  <2>. DEFINE S == FromTo(o, f, source, w, l)
  <2>1. S \subseteq Waiting(f.back)
      BY DEF FromTo
  <2>2. IsFiniteSet(S) /\ \A k \in S : f.back[k] \in Nat
      BY <2>1, WaitingLines, FS_Subset
  <2>. QED
      BY <2>2, SumIsNat
<1>3. Consolidation(o, f, source) \in Allocations(Demand[o])
    BY <1>1, <1>2, DemandsAreLines DEF Allocations
<1>. QED
    BY <1>1, <1>3

(* Where an order names a product once, each backorder reaches its line.   *)
LEMMA EachToItsLine ==
    ASSUME ProductsOnce, NEW o \in Orders, NEW f \in Fulfillment(o),
           NEW source \in [Waiting(f.back) -> Sites]
    PROVE  LET sent == Consolidation(o, f, source)
           IN  /\ \A w \in Sites, l \in LinesIn(o) :
                     sent[w][l] = IF l \in Waiting(f.back) /\ source[l] = w THEN f.back[l] ELSE 0
               /\ \A l \in LinesIn(o) : Given(sent, l) = f.back[l]
<1>. DEFINE sent == Consolidation(o, f, source)
            W == Waiting(f.back)
<1>1. /\ W \subseteq LinesIn(o) /\ LinesIn(o) \subseteq Nat
      /\ \A l \in LinesIn(o) : f.back[l] \in Nat /\ (l \notin W => f.back[l] = 0)
    BY WaitingLines, DemandsAreLines, LinesAreFinite
<1>2. \A k \in W : Target(o, f, k) = k
  <2>. SUFFICES ASSUME NEW k \in W PROVE Target(o, f, k) = k
      OBVIOUS
  <2>1. {j \in W : Demand[o][j].product = Demand[o][k].product} = {k}
      BY <1>1 DEF ProductsOnce
  <2>2. Target(o, f, k) = Min({k})
      BY <2>1 DEF Target
  <2>3. k \in {k} /\ \A y \in {k} : k <= y
      BY <1>1
  <2>4. Min({k}) \in {k}
      BY <2>3 DEF Min
  <2>. QED
      BY <2>2, <2>4
<1>3. ASSUME NEW w \in Sites, NEW l \in LinesIn(o)
      PROVE  sent[w][l] = IF l \in W /\ source[l] = w THEN f.back[l] ELSE 0
  <2>. DEFINE S == FromTo(o, f, source, w, l)
  <2>1. sent[w][l] = SumFunctionOnSet(f.back, S)
      BY ConsolidationIs
  <2>2. S = {k \in W : source[k] = w /\ k = l}
      BY <1>2 DEF FromTo
  <2>3. CASE l \in W /\ source[l] = w
    <3>1. S = {l}
        BY <2>2, <2>3
    <3>2. f.back[l] \in Int
        BY <1>1
    <3>. HIDE DEF S
    <3>3. IsFiniteSet(S) /\ l \in S /\ \A y \in S : y = l
        BY <3>1, FS_Singleton
    <3>4. SumFunctionOnSet(f.back, S) = f.back[l]
        BY <3>2, <3>3, SumOfOne
    <3>5. sent[w][l] = f.back[l]
        BY <2>1, <3>4
    <3>. HIDE DEF sent
    <3>. QED
        BY <2>3, <3>5
  <2>4. CASE ~(l \in W /\ source[l] = w)
    <3>1. S = {}
        BY <2>2, <2>4
    <3>. QED
        BY <2>1, <2>4, <3>1, SumOfNothing
  <2>. QED
      BY <2>3, <2>4
<1>4. ASSUME NEW l \in LinesIn(o) PROVE Given(sent, l) = f.back[l]
  <2>. DEFINE h == [w \in Sites |-> sent[w][l]]
  <2>1. Given(sent, l) = SumFunctionOnSet(h, Sites)
      BY GivenIsSum
  <2>2. \A w \in Sites : h[w] = IF l \in W /\ source[l] = w THEN f.back[l] ELSE 0
      BY <1>3
  <2>. HIDE DEF h
  <2>3. CASE l \in W
    <3>1. source[l] \in Sites
        BY <2>3
    <3>2. (\A w \in Sites : h[w] \in Int) /\ \A w \in Sites : w # source[l] => h[w] = 0
        BY <1>1, <2>2
    <3>3. SumFunctionOnSet(h, Sites) = h[source[l]]
        BY <3>1, <3>2, SitesAreFinite, SumOfOne
    <3>. QED
        BY <2>1, <2>2, <2>3, <3>1, <3>3
  <2>4. CASE l \notin W
    <3>1. \A w \in Sites : h[w] = 0
        BY <2>2, <2>4
    <3>2. SumFunctionOnSet(h, Sites) = 0
        BY <3>1, SitesAreFinite, SumOfZeros
    <3>. QED
        BY <1>1, <2>1, <2>4, <3>2
  <2>. QED
      BY <2>3, <2>4
<1>. QED
    BY <1>3, <1>4

(* Allocations that are added.                                             *)
Added(o, a, b) == [w \in Sites |-> [l \in LinesIn(o) |-> a[w][l] + b[w][l]]]

(* Two allocations together give the sum of what each gives.               *)
LEMMA GivenAdds ==
    ASSUME NEW o \in Orders, NEW a \in Allocations(Demand[o]), NEW b \in Allocations(Demand[o])
    PROVE  LET c == Added(o, a, b)
           IN  /\ c \in Allocations(Demand[o])
               /\ \A l \in LinesIn(o) : Given(c, l) = Given(a, l) + Given(b, l)
<1>. DEFINE c == Added(o, a, b)
<1>1. Demand[o] \in Seq(Line) /\ LinesIn(o) = DOMAIN Demand[o]
    BY DemandsAreLines
<1>2. \A w \in Sites, l \in LinesIn(o) :
          a[w][l] \in Nat /\ b[w][l] \in Nat /\ c[w][l] = a[w][l] + b[w][l]
    BY <1>1 DEF Allocations, Added
<1>3. c \in Allocations(Demand[o])
    BY <1>1, <1>2 DEF Allocations, Added
<1>. HIDE DEF c
<1>4. ASSUME NEW l \in LinesIn(o) PROVE Given(c, l) = Given(a, l) + Given(b, l)
  <2>. DEFINE f == [w \in Sites |-> a[w][l]]
              g == [w \in Sites |-> b[w][l]]
              h == [w \in Sites |-> c[w][l]]
  <2>1. \A w \in Sites : f[w] \in Int /\ g[w] \in Int /\ h[w] = f[w] + g[w]
      BY <1>2
  <2>2. /\ Given(a, l) = SumFunctionOnSet(f, Sites) /\ Given(b, l) = SumFunctionOnSet(g, Sites)
        /\ Given(c, l) = SumFunctionOnSet(h, Sites)
      BY GivenIsSum
  <2>3. IsFiniteSet(Sites)
      BY SitesAreFinite
  <2>. HIDE DEF f, g, h
  <2>4. SumFunctionOnSet(h, Sites) = SumFunctionOnSet(f, Sites) + SumFunctionOnSet(g, Sites)
      BY <2>1, <2>3, SumAdds
  <2>. QED
      BY <2>2, <2>4
<1>. QED
    BY <1>3, <1>4 DEF c

(* A site serves an allocation if it gives to some line.                   *)
LEMMA ServesIs ==
    ASSUME NEW o \in Orders, NEW alloc \in Allocations(Demand[o]), NEW w \in Sites
    PROVE  Serves(alloc, w) <=> \E l \in LinesIn(o) : alloc[w][l] > 0
<1>1. DOMAIN alloc[w] = LinesIn(o)
    BY DemandsAreLines DEF Allocations
<1>. QED
    BY <1>1 DEF Serves

(* What a fulfillment is after a consolidation.                            *)
LEMMA ConsolidatedIs ==
    ASSUME NEW o \in Orders, NEW f \in Fulfillment(o), NEW sent \in Allocations(Demand[o])
    PROVE  LET g == Consolidated(o, f, sent)
           IN  /\ g \in Fulfillment(o)
               /\ g.alloc = Added(o, f.alloc, sent)
               /\ g.shipped = f.shipped \cup {w \in Sites : Serves(sent, w) /\ ~Serves(f.alloc, w)}
               /\ g.back = [l \in LinesIn(o) |-> 0]
               /\ g.status = "SHIPPED"
               /\ \A w \in Sites : Serves(g.alloc, w) <=> Serves(f.alloc, w) \/ Serves(sent, w)
<1>. DEFINE alloc == Added(o, f.alloc, sent)
            shipped == f.shipped \cup {w \in Sites : Serves(sent, w) /\ ~Serves(f.alloc, w)}
            back == [l \in LinesIn(o) |-> 0]
            j == Joined(o, f, sent)
            g == Consolidated(o, f, sent)
<1>1. f.alloc \in Allocations(Demand[o]) /\ alloc \in Allocations(Demand[o])
    BY UnshippedIsAllocation, GivenAdds
<1>2. j = [f EXCEPT !.alloc = alloc, !.shipped = shipped]
    BY DEF Joined, Added
<1>3. g = [j EXCEPT !.back = back, !.ready = FALSE, !.status = "SHIPPED"]
    BY DEF Consolidated
<1>4. shipped \in SUBSET Sites
    BY DEF Fulfillment
<1>5. alloc \in [Sites -> [LinesIn(o) -> Nat]] /\ back \in [LinesIn(o) -> Nat]
    BY <1>1, DemandsAreLines DEF Allocations
<1>6. \A w \in Sites : Serves(alloc, w) <=> Serves(f.alloc, w) \/ Serves(sent, w)
  <2>. SUFFICES ASSUME NEW w \in Sites
                PROVE  Serves(alloc, w) <=> Serves(f.alloc, w) \/ Serves(sent, w)
      OBVIOUS
  <2>1. \A l \in LinesIn(o) : /\ f.alloc[w][l] \in Nat /\ sent[w][l] \in Nat
                              /\ alloc[w][l] = f.alloc[w][l] + sent[w][l]
      BY <1>1, DemandsAreLines DEF Allocations, Added
  <2>. HIDE DEF alloc
  <2>2. \A l \in LinesIn(o) : alloc[w][l] > 0 <=> f.alloc[w][l] > 0 \/ sent[w][l] > 0
      BY <2>1
  <2>. QED
      BY <1>1, <2>2, ServesIs
<1>. HIDE DEF alloc, shipped, back, j, g
<1>7. /\ g.alloc = alloc /\ g.shipped = shipped /\ g.back = back /\ g.status = "SHIPPED"
      /\ g = [status |-> "SHIPPED", alloc |-> alloc, shipped |-> shipped, back |-> back,
              reserved |-> f.reserved, ready |-> FALSE]
  <2>1. j = [status |-> f.status, alloc |-> alloc, shipped |-> shipped, back |-> f.back,
             reserved |-> f.reserved, ready |-> f.ready]
      BY <1>2 DEF Fulfillment
  <2>2. g = [status |-> "SHIPPED", alloc |-> alloc, shipped |-> shipped, back |-> back,
             reserved |-> f.reserved, ready |-> FALSE]
      BY <1>3, <2>1
  <2>. QED
      BY <2>2
<1>8. f.reserved \in BOOLEAN
    BY DEF Fulfillment
<1>9. g \in Fulfillment(o)
    BY <1>4, <1>5, <1>7, <1>8 DEF Fulfillment, FulfillmentStatus
<1>. QED
    BY <1>6, <1>7, <1>9 DEF alloc, shipped, back, g

(* A consolidation of what waits for goods, and what it leaves behind.     *)
LEMMA ConsolidateKeepsGoods ==
    ASSUME GoodsInv, NEW o \in Orders, NEW source \in [Waiting(fulfillment[o].back) -> Sites],
           Consolidate(o, source)
    PROVE  GoodsInv' /\ Sends(o, Consolidation(o, fulfillment[o], source))
<1>. DEFINE f == fulfillment[o]
            sent == Consolidation(o, f, source)
            g == Consolidated(o, f, sent)
            doc2 == OrderSent(o, order[o], sent)
            given == [l \in LinesIn(o) |-> Given(sent, l)]
<1>1. StandingInv /\ StandingInv'
    BY ConsolidateStands DEF GoodsInv
<1>2. /\ Confirmed(o) /\ HasBackorder(f.back)
      /\ stock' = Sending(stock, o, sent)
      /\ fulfillment' = [fulfillment EXCEPT ![o] = g]
      /\ order' = [order EXCEPT ![o] = doc2]
    BY DEF Consolidate, MayConsolidate
<1>3. f.status # "SHIPPED"
    BY <1>1, <1>2 DEF StandingInv, Standing
<1>4. Goods(o, f, order[o]) /\ f \in Fulfillment(o) /\ order[o] \in Order(o) /\ ~Behind(f)
    BY <1>2, <1>3 DEF GoodsInv, Goods, Behind
<1>5. sent \in Allocations(Demand[o]) /\ f.alloc \in Allocations(Demand[o]) /\ stock \in Rows
    BY <1>4, ConsolidationIs, UnshippedIsAllocation, RowsOfStock
<1>6. /\ order[o].status \in OrderStatus
      /\ doc2 = [status |-> order[o].status, qtyShipped |-> Delivered(o, order[o].qtyShipped, given)]
    BY <1>4 DEF OrderSent, Order
<1>7. ProductsOnce => \A l \in LinesIn(o) : Given(sent, l) = f.back[l]
    BY <1>4, EachToItsLine
<1>. HIDE DEF sent
<1>8. /\ g \in Fulfillment(o)
      /\ g.alloc = Added(o, f.alloc, sent)
      /\ g.shipped = f.shipped \cup {w \in Sites : Serves(sent, w) /\ ~Serves(f.alloc, w)}
      /\ g.back = [l \in LinesIn(o) |-> 0]
      /\ g.status = "SHIPPED"
      /\ \A w \in Sites : Serves(g.alloc, w) <=> Serves(f.alloc, w) \/ Serves(sent, w)
    BY <1>4, <1>5, ConsolidatedIs
<1>. HIDE DEF g
<1>9. \A l \in LinesIn(o) : Given(g.alloc, l) = Given(f.alloc, l) + Given(sent, l)
    BY <1>5, <1>8, GivenAdds
<1>10. \A w \in g.shipped : Serves(g.alloc, w)
    BY <1>4, <1>8 DEF Goods, Fulfillment
<1>11. ~Behind(g) => /\ \A w \in Sites : Serves(g.alloc, w) => w \in g.shipped
                     /\ \A w \in Sites : Serves(f.alloc, w) => w \in f.shipped
    BY <1>8 DEF Behind
<1>12. ~Behind(g) => \A l \in LinesIn(o) : Left(g, l) = Left(f, l) + Given(sent, l)
    BY <1>4, <1>8, <1>9, <1>11, AllLeft
<1>13. ProductsOnce => \A l \in LinesIn(o) : g.back[l] = Max({0, Demand[o][l].qty - Given(g.alloc, l)})
  <2>. SUFFICES ASSUME ProductsOnce, NEW l \in LinesIn(o)
                PROVE  g.back[l] = Max({0, Demand[o][l].qty - Given(g.alloc, l)})
      OBVIOUS
  <2>. DEFINE n == Demand[o][l].qty - Given(f.alloc, l)
              m == Demand[o][l].qty - Given(g.alloc, l)
  <2>1. /\ Demand[o][l].qty \in Nat /\ Given(f.alloc, l) \in Nat
        /\ f.back[l] \in Nat /\ Given(sent, l) = f.back[l]
      BY <1>4, <1>7, DemandsAreLines, LinesAreFinite, LeftAndPicked, WaitingLines
  <2>2. n \in Int /\ 0 \in Int /\ m = n - f.back[l] /\ m \in Int
      BY <1>9, <2>1
  <2>3. f.back[l] = Max({0, n})
      BY <1>3, <1>4 DEF Goods
  <2>. HIDE DEF n, m
  <2>4. f.back[l] = IF 0 >= n THEN 0 ELSE n
      BY <2>2, <2>3, MaxOfTwo
  <2>5. Max({0, m}) = IF 0 >= m THEN 0 ELSE m
      BY <2>2, MaxOfTwo
  <2>6. Max({0, m}) = 0
      BY <2>2, <2>4, <2>5
  <2>. QED
      BY <1>8, <2>6 DEF m
<1>14. /\ doc2 = [status |-> doc2.status, qtyShipped |-> doc2.qtyShipped]
       /\ doc2.qtyShipped = Delivered(o, order[o].qtyShipped, given)
       /\ doc2.status \in OrderStatus /\ doc2.status = order[o].status
    BY <1>6
<1>. HIDE DEF doc2
<1>15. GoodsLeave(o, f, g, order[o], doc2, sent)
    BY <1>5, <1>8, <1>10, <1>12, <1>13, <1>14 DEF GoodsLeave
<1>. HIDE DEF f, given
<1>16. /\ Goods(o, g, doc2)
       /\ \A l \in LinesIn(o) :
             /\ doc2.qtyShipped[l] >= order[o].qtyShipped[l]
             /\ doc2.qtyShipped[l] = Min({Demand[o][l].qty, order[o].qtyShipped[l] + Given(sent, l)})
    BY <1>4, <1>15, GoodsThatLeave
<1>17. /\ fulfillment'[o] = g /\ order'[o] = doc2
       /\ \A q \in Orders : q # o => fulfillment'[q] = fulfillment[q] /\ order'[q] = order[q]
    BY <1>1, <1>2 DEF StandingInv
<1>18. stock' \in Rows
    BY <1>2, <1>5, RowsMove
<1>19. \A w \in Sites, p \in Products :
          LET reserved == stock'[w][p].reserved - stock[w][p].reserved
              holding == Holding(o, g, w, p) - Holding(o, fulfillment[o], w, p)
          IN  reserved >= holding /\ (~Behind(g) => reserved = holding)
  <2>. SUFFICES ASSUME NEW w \in Sites, NEW p \in Products
                PROVE  /\ stock'[w][p].reserved - stock[w][p].reserved = 0
                       /\ Holding(o, g, w, p) = 0
                       /\ Holding(o, f, w, p) \in Nat
                       /\ ~Behind(g) => Holding(o, f, w, p) = 0
      BY DEF f
  <2>1. stock[w][p].reserved \in Int /\ stock'[w][p].reserved = stock[w][p].reserved
      BY <1>2, <1>5, RowsMove, RowsOfStock
  <2>2. Holding(o, g, w, p) = 0
      BY <1>8 DEF Holding
  <2>3. Holding(o, f, w, p) \in Nat
      BY <1>4, HoldingIsNat
  <2>4. ~Behind(g) => Holding(o, f, w, p) = 0
      BY <1>4, <1>11, AllLeft
  <2>. QED
      BY <2>1, <2>2, <2>3, <2>4
<1>20. fulfillment[o].status # "SHIPPED"
    BY <1>3 DEF f
<1>21. GoodsInv'
    BY <1>1, <1>16, <1>17, <1>18, <1>19, <1>20, GoodsMove
<1>22. \A l \in LinesIn(o), w \in Sites : g.alloc[w][l] >= f.alloc[w][l]
  <2>1. \A l \in LinesIn(o), w \in Sites :
            f.alloc[w][l] \in Nat /\ sent[w][l] \in Nat /\ g.alloc[w][l] = f.alloc[w][l] + sent[w][l]
    <3>. SUFFICES ASSUME NEW l \in LinesIn(o), NEW w \in Sites
                  PROVE  f.alloc[w][l] \in Nat /\ sent[w][l] \in Nat
                         /\ g.alloc[w][l] = f.alloc[w][l] + sent[w][l]
        OBVIOUS
    <3>. DEFINE a == f.alloc
    <3>1. a[w][l] \in Nat /\ sent[w][l] \in Nat
        BY <1>5, DemandsAreLines DEF Allocations
    <3>2. g.alloc = Added(o, a, sent)
        BY <1>8
    <3>. HIDE DEF a
    <3>3. g.alloc[w][l] = a[w][l] + sent[w][l]
        BY <3>2 DEF Added
    <3>. QED
        BY <3>1, <3>3 DEF a
  <2>. QED
      BY <2>1
<1>23. \A w \in Sites, p \in Products : stock'[w][p].inStock = stock[w][p].inStock - Units(o, sent, w, p)
    BY <1>2, <1>5, RowsMove
<1>24. fulfillment'[o] # None /\ order'[o] \in Order(o)
    BY <1>8, <1>16, <1>17, NoneIsNoFulfillment DEF Goods
<1>25. f.shipped \subseteq g.shipped
    BY <1>8
<1>26. Sends(o, sent)
    BY <1>2, <1>5, <1>16, <1>17, <1>20, <1>22, <1>23, <1>24, <1>25 DEF Sends, f
<1>. QED
    BY <1>21, <1>26 DEF sent, f

---------------------------------------------------------------------------
(* A count changes the units in stock and what is marked, nothing else.    *)
LEMMA AdjustKeepsGoods ==
    ASSUME GoodsInv, NEW w \in Sites, NEW p \in Products, NEW delta \in Deltas, Adjust(w, p, delta)
    PROVE  /\ GoodsInv'
           /\ stock' = [stock EXCEPT ![w][p].inStock = stock[w][p].inStock + delta]
           /\ \A o \in Orders : Confirmed(o) =>
                 LET f == fulfillment[o]
                     g == fulfillment'[o]
                 IN  /\ g.status = f.status /\ g.alloc = f.alloc /\ g.shipped = f.shipped
                     /\ order'[o] = order[o]
<1>. DEFINE inStock == stock[w][p].inStock + delta
            rows == [stock EXCEPT ![w][p].inStock = inStock]
<1>1. StandingInv /\ StandingInv'
    BY AdjustStands DEF GoodsInv
<1>2. /\ inStock \in Int
      /\ stock' = rows /\ UNCHANGED order
      /\ fulfillment' = [o \in Orders |->
             IF Flipped(o, p, rows) THEN [fulfillment[o] EXCEPT !.ready = TRUE] ELSE fulfillment[o]]
  <2>1. inStock \in Int
      BY RowsOfStock, DeltasType
  <2>. QED
      BY <2>1 DEF Adjust, Recount
<1>3. ASSUME NEW o \in Orders, Confirmed(o)
      PROVE  LET f == fulfillment[o]
                 g == fulfillment'[o]
             IN  /\ Confirmed(o)' /\ g \in Fulfillment(o)
                 /\ g.status = f.status /\ g.alloc = f.alloc /\ g.shipped = f.shipped
                 /\ g.back = f.back /\ g.reserved = f.reserved
                 /\ order'[o] = order[o]
  <2>1. fulfillment[o] \in Fulfillment(o)
      BY <1>3 DEF GoodsInv, Goods
  <2>2. fulfillment'[o] = fulfillment[o] \/ fulfillment'[o] = [fulfillment[o] EXCEPT !.ready = TRUE]
      BY <1>2
  <2>3. /\ fulfillment'[o] \in Fulfillment(o)
        /\ fulfillment'[o].status = fulfillment[o].status
        /\ fulfillment'[o].alloc = fulfillment[o].alloc
        /\ fulfillment'[o].shipped = fulfillment[o].shipped
        /\ fulfillment'[o].back = fulfillment[o].back
        /\ fulfillment'[o].reserved = fulfillment[o].reserved
      BY <2>1, <2>2 DEF Fulfillment
  <2>. QED
      BY <1>2, <2>3, NoneIsNoFulfillment DEF Confirmed
<1>4. ASSUME NEW o \in Orders, ~Confirmed(o)
      PROVE  ~Confirmed(o)' /\ fulfillment'[o] = fulfillment[o] /\ order'[o] = order[o]
  <2>1. ~Flipped(o, p, rows)
      BY <1>4 DEF Flipped
  <2>. QED
      BY <1>2, <1>4, <2>1 DEF Confirmed
<1>5. {o \in Orders : Confirmed(o)}' = {o \in Orders : Confirmed(o)}
    BY <1>3, <1>4
<1>6. \A o \in Orders : IF Confirmed(o)' THEN Goods(o, fulfillment'[o], order'[o]) ELSE order'[o] = None
  <2>. SUFFICES ASSUME NEW o \in Orders
                PROVE  IF Confirmed(o)' THEN Goods(o, fulfillment'[o], order'[o]) ELSE order'[o] = None
      OBVIOUS
  <2>1. CASE Confirmed(o)
    <3>. DEFINE f == fulfillment[o]
                g == fulfillment'[o]
    <3>1. /\ Confirmed(o)' /\ g \in Fulfillment(o)
          /\ g.status = f.status /\ g.alloc = f.alloc /\ g.shipped = f.shipped
          /\ g.back = f.back /\ order'[o] = order[o]
        BY <1>3, <2>1
    <3>2. Goods(o, f, order[o])
        BY <2>1 DEF GoodsInv
    <3>. HIDE DEF f, g
    <3>3. (Behind(g) <=> Behind(f)) /\ \A l : Left(g, l) = Left(f, l)
        BY <3>1 DEF Behind, Left
    <3>4. Goods(o, g, order[o])
        BY <3>1, <3>2, <3>3 DEF Goods
    <3>. QED
        BY <3>1, <3>4 DEF g
  <2>2. CASE ~Confirmed(o)
      BY <1>4, <2>2 DEF GoodsInv
  <2>. QED
      BY <2>1, <2>2
<1>7. \A v \in Sites, q \in Products : stock'[v][q] \in Row /\ stock'[v][q].reserved = stock[v][q].reserved
  <2>. SUFFICES ASSUME NEW v \in Sites, NEW q \in Products
                PROVE  stock'[v][q] \in Row /\ stock'[v][q].reserved = stock[v][q].reserved
      OBVIOUS
  <2>1. stock \in [Sites -> [Products -> Row]]
      BY DEF GoodsInv
  <2>2. stock[v][q] \in Row
      BY <2>1
  <2>3. \/ stock'[v][q] = stock[v][q]
        \/ stock'[v][q] = [stock[v][q] EXCEPT !.inStock = inStock]
      BY <1>2, <2>1
  <2>. HIDE DEF inStock
  <2>. QED
      BY <1>2, <2>2, <2>3 DEF Row
<1>8. stock' \in [Sites -> [Products -> Row]]
  <2>1. stock' \in [Sites -> [Products -> {stock'[v][q] : v \in Sites, q \in Products}]]
      BY <1>2 DEF GoodsInv
  <2>. QED
      BY <1>7, <2>1
<1>9. \A v, q : Held(v, q)' = Held(v, q)
  <2>1. HoldersIn(fulfillment') = HoldersIn(fulfillment)
      BY <1>3, <1>4 DEF HoldersIn, Confirmed
  <2>2. \A o \in HoldersIn(fulfillment) : Unshipped(fulfillment'[o]) = Unshipped(fulfillment[o])
    <3>. SUFFICES ASSUME NEW o \in HoldersIn(fulfillment)
                  PROVE  Unshipped(fulfillment'[o]) = Unshipped(fulfillment[o])
        OBVIOUS
    <3>1. /\ fulfillment'[o].alloc = fulfillment[o].alloc
          /\ fulfillment'[o].shipped = fulfillment[o].shipped
        BY <1>3 DEF HoldersIn, Confirmed
    <3>. QED
        BY <3>1 DEF Unshipped
  <2>3. \A v, q : HeldIn(fulfillment', v, q) = HeldIn(fulfillment, v, q)
    <3>. SUFFICES ASSUME NEW v, NEW q PROVE HeldIn(fulfillment', v, q) = HeldIn(fulfillment, v, q)
        OBVIOUS
    <3>1. [o \in HoldersIn(fulfillment') |-> Units(o, Unshipped(fulfillment'[o]), v, q)]
            = [o \in HoldersIn(fulfillment) |-> Units(o, Unshipped(fulfillment[o]), v, q)]
        BY <2>1, <2>2
    <3>. QED
        BY <3>1 DEF HeldIn
  <2>. QED
      BY <2>3, HeldIsHeldIn, HeldNextIsHeldIn
<1>10. \A o \in Orders : LeftBehind(o)' <=> LeftBehind(o)
  <2>. SUFFICES ASSUME NEW o \in Orders PROVE LeftBehind(o)' <=> LeftBehind(o)
      OBVIOUS
  <2>1. CASE Confirmed(o)
    <3>1. Confirmed(o)' /\ (Behind(fulfillment'[o]) <=> Behind(fulfillment[o]))
        BY <1>3, <2>1 DEF Behind
    <3>. QED
        BY <2>1, <3>1, BehindIsLeftBehind
  <2>2. CASE ~Confirmed(o)
      BY <1>4, <2>2, BehindIsLeftBehind
  <2>. QED
      BY <2>1, <2>2
<1>11. ReservedIsHeld'
    BY <1>7, <1>9, <1>10 DEF ReservedIsHeld, GoodsInv
<1>. QED
    BY <1>1, <1>2, <1>3, <1>5, <1>6, <1>8, <1>11 DEF GoodsInv

---------------------------------------------------------------------------
(* Before anything is confirmed the goods are accounted for.               *)
LEMMA GoodsAtFirst == Init => GoodsInv
<1>. SUFFICES ASSUME Init PROVE GoodsInv
    OBVIOUS
<1>1. StandingInv
    BY StandingAtFirst
<1>2. /\ stock = OpeningStock /\ \A o \in Orders : ~Confirmed(o) /\ order[o] = None
    BY DEF Init, Confirmed
<1>3. IsFiniteSet({o \in Orders : Confirmed(o)})
  <2>1. {o \in Orders : Confirmed(o)} = {}
      BY <1>2
  <2>. QED
      BY <2>1, FS_EmptySet
<1>4. stock \in [Sites -> [Products -> Row]]
    BY <1>2, OpeningStockType DEF Row
<1>5. ReservedIsHeld
  <2>. SUFFICES ASSUME NEW w \in Sites, NEW p \in Products
                PROVE  stock[w][p].reserved - OpeningStock[w][p].reserved = 0 /\ Held(w, p) = 0
      BY DEF ReservedIsHeld
  <2>1. OpeningStock[w][p].reserved \in Nat
      BY OpeningStockType
  <2>. DEFINE f == [o \in Holders |-> Units(o, Unshipped(fulfillment[o]), w, p)]
  <2>2. Holders = {}
      BY <1>2 DEF Holders
  <2>3. Held(w, p) = SumFunctionOnSet(f, DOMAIN f) /\ DOMAIN f = {}
      BY <2>2 DEF Held, SumFunction
  <2>. HIDE DEF f
  <2>4. Held(w, p) = 0
      BY <2>3, SumOfNothing
  <2>. QED
      BY <1>2, <2>1, <2>4
<1>. QED
    BY <1>1, <1>2, <1>3, <1>4, <1>5 DEF GoodsInv

(* What may be asked for is an allocation.                                 *)
LEMMA RequestsAreAllocations ==
    ASSUME NEW o \in Orders
    PROVE  OverrideRequests(o) \subseteq Allocations(Demand[o])
<1>1. \A n \in 0..TotalUnits(Demand[o]) : n \in Nat
    OBVIOUS
<1>2. OverrideRequests(o) \subseteq [Sites -> [LinesIn(o) -> 0..TotalUnits(Demand[o])]]
    BY DEF OverrideRequests
<1>. QED
    BY <1>1, <1>2, DemandsAreLines DEF Allocations

(* Every step keeps them so.                                               *)
LEMMA GoodsKept ==
    ASSUME GoodsInv, [Next]_vars
    PROVE  GoodsInv'
<1>1. CASE UNCHANGED vars
  <2>1. UNCHANGED <<stock, fulfillment, order>>
      BY <1>1 DEF vars
  <2>2. StandingInv'
      BY <1>1, StandingKept DEF GoodsInv
  <2>3. \A w, p : Held(w, p)' = Held(w, p)
      BY <2>1, HeldIsHeldIn, HeldNextIsHeldIn
  <2>4. \A o \in Orders : (Confirmed(o)' <=> Confirmed(o)) /\ (LeftBehind(o)' <=> LeftBehind(o))
      BY <2>1 DEF Confirmed, LeftBehind
  <2>5. ReservedIsHeld'
      BY <2>1, <2>3, <2>4 DEF ReservedIsHeld, GoodsInv
  <2>6. {o \in Orders : Confirmed(o)}' = {o \in Orders : Confirmed(o)}
      BY <2>4
  <2>. QED
      BY <2>1, <2>2, <2>4, <2>5, <2>6 DEF GoodsInv
<1>2. ASSUME NEW o \in Orders, Confirm(o) \/ Plan(o) \/ Accept(o) \/ Ship(o)
      PROVE  GoodsInv'
    BY <1>2, ConfirmKeepsGoods, PlanKeepsGoods, AcceptKeepsGoods, ShipKeepsGoods
<1>3. ASSUME NEW o \in Orders, NEW alloc \in OverrideRequests(o), Override(o, alloc)
      PROVE  GoodsInv'
    BY <1>3, OverrideKeepsGoods, RequestsAreAllocations
<1>4. ASSUME NEW o \in Orders, NEW source \in [Waiting(fulfillment[o].back) -> Sites], Consolidate(o, source)
      PROVE  GoodsInv'
    BY <1>4, ConsolidateKeepsGoods
<1>5. ASSUME NEW w \in Sites, NEW p \in Products, NEW delta \in Deltas, Adjust(w, p, delta)
      PROVE  GoodsInv'
    BY <1>5, AdjustKeepsGoods
<1>. QED
    BY <1>1, <1>2, <1>3, <1>4, <1>5 DEF Next

(* The invariant of the goods.                                             *)
THEOREM GoodsAreAccountedFor == Spec => []GoodsInv
BY GoodsAtFirst, GoodsKept, PTL DEF Spec

(* fulfillment.routes.ts:179: whatever is planned, accepted, overridden,   *)
(* shipped, counted and consolidated, also of orders that name a product   *)
(* twice, a row reserves what the fulfillments still to ship hold of it.   *)
THEOREM ReservationsAreHeld == Spec => [](TypeOK /\ ReservedIsHeld)
<1>1. GoodsInv => TypeOK /\ ReservedIsHeld
    BY DEF GoodsInv, Goods, TypeOK, Confirmed
<1>. QED
    BY <1>1, GoodsAreAccountedFor, PTL

---------------------------------------------------------------------------
(* What the screens show of it.                                            *)

(* Allocation and backorder, before a consolidation.                       *)
LEMMA BackIs ==
    ASSUME GoodsInv, NEW o \in Orders, Confirmed(o), ProductsOnce \/ fulfillment[o].status # "SHIPPED",
           NEW l \in LinesIn(o)
    PROVE  LET f == fulfillment[o]
               qty == Demand[o][l].qty
               given == Given(f.alloc, l)
           IN  /\ qty \in Nat /\ given \in Nat /\ f.back[l] \in Nat
               /\ f.back[l] = Max({0, qty - given})
               /\ f.back[l] = IF qty >= given THEN qty - given ELSE 0
               /\ given + f.back[l] = Max({qty, given})
               /\ l \in Waiting(f.back) <=> f.back[l] > 0
<1>. DEFINE f == fulfillment[o]
            qty == Demand[o][l].qty
            given == Given(f.alloc, l)
            n == qty - given
<1>1. Goods(o, f, order[o]) /\ f \in Fulfillment(o)
    BY DEF GoodsInv, Goods
<1>2. qty \in Nat /\ given \in Nat /\ f.back[l] \in Nat /\ f.back[l] = Max({0, n})
    BY <1>1, DemandsAreLines, LinesAreFinite, LeftAndPicked, WaitingLines DEF Goods
<1>3. l \in Waiting(f.back) <=> f.back[l] > 0
    BY <1>1 DEF Waiting, Fulfillment
<1>. HIDE DEF f, qty, given
<1>4. n \in Int /\ 0 \in Int /\ qty \in Int /\ given \in Int
    BY <1>2
<1>5. Max({qty, given}) = IF qty >= given THEN qty ELSE given
    BY <1>4, MaxOfTwo
<1>6. f.back[l] = IF 0 >= n THEN 0 ELSE n
  <2>. HIDE DEF n
  <2>. QED
      BY <1>2, <1>4, MaxOfTwo
<1>7. f.back[l] = (IF qty >= given THEN qty - given ELSE 0) /\ given + f.back[l] = Max({qty, given})
    BY <1>2, <1>5, <1>6
<1>. QED
    BY <1>2, <1>3, <1>7 DEF f, qty, given

(* Goods that are accounted for add up, line by line.                      *)
LEMMA LinesDoAddUp ==
    ASSUME ProductsOnce, GoodsInv PROVE LinesAddUp
<1>. SUFFICES ASSUME NEW o \in Orders, Confirmed(o), NEW l \in LinesIn(o)
              PROVE  LET f == fulfillment[o]
                     IN  /\ f.back[l] = Max({0, Demand[o][l].qty - Given(f.alloc, l)})
                         /\ ~LeftBehind(o) => order[o].qtyShipped[l] = Min({Demand[o][l].qty, Left(f, l)})
    BY DEF LinesAddUp, Left
<1>1. Goods(o, fulfillment[o], order[o])
    BY DEF GoodsInv
<1>. QED
    BY <1>1, BackIs, BehindIsLeftBehind DEF Goods

(* And the editor of a split shows them.                                   *)
LEMMA EditorFits ==
    ASSUME GoodsInv PROVE EditorFitsTheOrder
<1>. SUFFICES ASSUME NEW o \in Orders, Replannable(o)
              PROVE  LET f == fulfillment[o]
                         editor == OpenOverride(f)
                         untouched == GroupRowsByWarehouse(o, editor)
                     IN  /\ StockLines(Demand[o]) \subseteq DOMAIN editor
                         /\ \A l \in DOMAIN editor :
                               /\ editor[l].total = Max({Demand[o][l].qty, Given(f.alloc, l)})
                               /\ FullyAllocated(editor[l]) <=> l \notin BackorderTable(f)
                         /\ f.reserved =>
                               /\ \A role \in WriteRoles : AcceptsOverride(o, role, untouched)
                               /\ Overridden(o, untouched) = [f EXCEPT !.ready = FALSE]
    BY DEF EditorFitsTheOrder
<1>. DEFINE f == fulfillment[o]
            rowsOf(l) == {w \in DOMAIN SplitTable(f) : l \in SplitTable(f)[w]}
            editor == OpenOverride(f)
            untouched == GroupRowsByWarehouse(o, editor)
<1>1. /\ f \in Fulfillment(o) /\ f.shipped = {} /\ f.status # "SHIPPED" /\ Confirmed(o)
      /\ f.alloc \in Allocations(Demand[o])
      /\ Demand[o] \in Seq(Line) /\ LinesIn(o) = DOMAIN Demand[o]
      /\ DOMAIN f.back = LinesIn(o)
    BY ReplannableGoods, UnshippedIsAllocation, DemandsAreLines DEF Replannable, Fulfillment
<1>2. \A l \in LinesIn(o) :
          /\ Demand[o][l].qty \in Nat /\ Given(f.alloc, l) \in Nat /\ f.back[l] \in Nat
          /\ f.back[l] = Max({0, Demand[o][l].qty - Given(f.alloc, l)})
          /\ f.back[l] = IF Demand[o][l].qty >= Given(f.alloc, l)
                         THEN Demand[o][l].qty - Given(f.alloc, l) ELSE 0
          /\ Given(f.alloc, l) + f.back[l] = Max({Demand[o][l].qty, Given(f.alloc, l)})
          /\ l \in BackorderTable(f) <=> f.back[l] > 0
    BY <1>1, BackIs DEF BackorderTable
<1>3. \A l \in LinesIn(o) : rowsOf(l) = {w \in Sites : f.alloc[w][l] > 0}
    BY <1>1, ServesIs DEF SplitTable
<1>4. /\ DOMAIN editor = {l \in LinesIn(o) : rowsOf(l) # {}} \cup BackorderTable(f)
      /\ \A l \in DOMAIN editor :
            /\ editor[l].total = Given(f.alloc, l) + f.back[l]
            /\ editor[l].rows = [w \in rowsOf(l) |-> f.alloc[w][l]]
    BY <1>1 DEF OpenOverride
<1>5. DOMAIN editor \subseteq LinesIn(o)
    BY <1>1, <1>4 DEF BackorderTable, Waiting
<1>. HIDE DEF f, rowsOf, editor
<1>6. ASSUME NEW l \in LinesIn(o)
      PROVE  /\ SumFunctionOnSet([w \in rowsOf(l) |-> f.alloc[w][l]], rowsOf(l)) = Given(f.alloc, l)
             /\ rowsOf(l) = {} => Given(f.alloc, l) = 0
  <2>. DEFINE all == [w \in Sites |-> f.alloc[w][l]]
              R == rowsOf(l)
              rows == [w \in R |-> f.alloc[w][l]]
  <2>1. \A w \in Sites : all[w] \in Nat /\ (w \notin R => all[w] = 0)
      BY <1>1, <1>3 DEF Allocations
  <2>2. R \in SUBSET Sites
      BY <1>3
  <2>3. Given(f.alloc, l) = SumFunctionOnSet(all, Sites)
      BY GivenIsSum
  <2>4. \A w \in R : rows[w] = all[w] /\ all[w] \in Int
      BY <2>1, <2>2
  <2>. HIDE DEF all, R, rows
  <2>5. \A w \in Sites : all[w] \in Int /\ (w \notin R => all[w] = 0)
      BY <2>1
  <2>6. SumFunctionOnSet(all, Sites) = SumFunctionOnSet(all, R) /\ IsFiniteSet(R)
      BY <2>2, <2>5, SitesAreFinite, SumOfPart, FS_Subset
  <2>7. SumFunctionOnSet(rows, R) = SumFunctionOnSet(all, R)
      BY <2>4, <2>6, SumAgrees
  <2>8. R = {} => SumFunctionOnSet(all, R) = 0
      BY SumOfNothing
  <2>. QED
      BY <2>3, <2>6, <2>7, <2>8 DEF R, rows
<1>7. StockLines(Demand[o]) \subseteq DOMAIN editor
  <2>. SUFFICES ASSUME NEW l \in LinesIn(o), Demand[o][l].qty > 0, rowsOf(l) = {}
                PROVE  l \in BackorderTable(f)
      BY <1>1, <1>4 DEF StockLines
  <2>1. Given(f.alloc, l) = 0
      BY <1>6
  <2>2. /\ Demand[o][l].qty \in Nat
        /\ f.back[l] = IF Demand[o][l].qty >= Given(f.alloc, l)
                       THEN Demand[o][l].qty - Given(f.alloc, l) ELSE 0
      BY <1>2
  <2>3. f.back[l] > 0
      BY <2>1, <2>2
  <2>. QED
      BY <1>2, <2>3
<1>8. ASSUME NEW l \in DOMAIN editor
      PROVE  /\ editor[l].total = Max({Demand[o][l].qty, Given(f.alloc, l)})
             /\ FullyAllocated(editor[l]) <=> l \notin BackorderTable(f)
  <2>1. l \in LinesIn(o)
      BY <1>5
  <2>. DEFINE R == rowsOf(l)
              rows == [w \in R |-> f.alloc[w][l]]
  <2>2. AllocatedQty(editor[l]) = SumFunction(rows) /\ DOMAIN rows = R
      BY <1>4 DEF AllocatedQty
  <2>3. SumFunction(rows) = SumFunctionOnSet(rows, R)
      BY <2>2 DEF SumFunction
  <2>4. SumFunctionOnSet(rows, R) = Given(f.alloc, l)
      BY <1>6, <2>1
  <2>. HIDE DEF R, rows
  <2>5. AllocatedQty(editor[l]) = Given(f.alloc, l)
      BY <2>2, <2>3, <2>4
  <2>6. editor[l].total = Given(f.alloc, l) + f.back[l]
      BY <1>4
  <2>7. /\ Given(f.alloc, l) \in Nat /\ f.back[l] \in Nat
        /\ l \in BackorderTable(f) <=> f.back[l] > 0
      BY <1>2, <2>1
  <2>8. FullyAllocated(editor[l]) <=> f.back[l] = 0
    <3>1. FullyAllocated(editor[l]) <=> Given(f.alloc, l) = Given(f.alloc, l) + f.back[l]
        BY <2>5, <2>6 DEF FullyAllocated
    <3>. QED
        BY <2>7, <3>1
  <2>9. editor[l].total = Max({Demand[o][l].qty, Given(f.alloc, l)})
      BY <1>2, <2>1, <2>6
  <2>. QED
      BY <2>7, <2>8, <2>9
<1>9. untouched = f.alloc
  <2>1. \A w \in Sites, l \in LinesIn(o) :
            (IF l \in DOMAIN editor /\ w \in DOMAIN editor[l].rows THEN editor[l].rows[w] ELSE 0) = f.alloc[w][l]
    <3>. SUFFICES ASSUME NEW w \in Sites, NEW l \in LinesIn(o)
                  PROVE  (IF l \in DOMAIN editor /\ w \in DOMAIN editor[l].rows
                          THEN editor[l].rows[w] ELSE 0) = f.alloc[w][l]
        OBVIOUS
    <3>1. f.alloc[w][l] \in Nat
        BY <1>1 DEF Allocations
    <3>2. CASE f.alloc[w][l] > 0
      <4>1. w \in rowsOf(l)
          BY <1>3, <3>2
      <4>2. l \in DOMAIN editor
          BY <1>4, <4>1
      <4>. QED
          BY <1>4, <4>1, <4>2
    <3>3. CASE ~(f.alloc[w][l] > 0)
      <4>1. w \notin rowsOf(l) /\ f.alloc[w][l] = 0
          BY <1>3, <3>1, <3>3
      <4>. QED
          BY <1>4, <4>1
    <3>. QED
        BY <3>2, <3>3
  <2>2. untouched = [w \in Sites |-> [l \in LinesIn(o) |-> f.alloc[w][l]]]
      BY <2>1 DEF GroupRowsByWarehouse
  <2>. QED
      BY <1>1, <2>2 DEF Allocations
<1>. HIDE DEF untouched
<1>10. ASSUME f.reserved
       PROVE  /\ MayOverride(o, f.alloc)
              /\ Overridden(o, f.alloc) = [f EXCEPT !.ready = FALSE]
  <2>1. MayOverride(o, f.alloc)
    <3>. SUFFICES ASSUME NEW w \in Sites, NEW p \in Products
                  PROVE  Units(o, f.alloc, w, p) <= Overridable(o, w, p)
        BY DEF MayOverride
    <3>1. Units(o, f.alloc, w, p) \in Nat /\ Free(stock, w, p) \in Nat
        BY <1>1, UnitsAreNat, RowsOfStock, FreeIsNat
    <3>2. Overridable(o, w, p) = Free(stock, w, p) + Units(o, f.alloc, w, p)
        BY <1>10 DEF Overridable, f
    <3>. QED
        BY <3>1, <3>2
  <2>2. Short(o, f.alloc) = f.back
    <3>1. f.back = [l \in LinesIn(o) |-> f.back[l]]
        BY <1>1 DEF Fulfillment
    <3>2. f.back = [l \in LinesIn(o) |-> Max({0, Demand[o][l].qty - Given(f.alloc, l)})]
        BY <1>2, <3>1
    <3>. QED
        BY <3>2 DEF Short, Remaining
  <2>3. f.status = StatusReserved(f.back)
    <3>1. Standing(f)
        BY <1>1 DEF GoodsInv, StandingInv, f
    <3>2. f.status # "PARTIALLY_SHIPPED"
        BY DEF Replannable, f
    <3>. QED
        BY <1>1, <1>10, <3>1, <3>2 DEF Standing, StatusReserved, FulfillmentStatus
  <2>4. Overridden(o, f.alloc) =
            [status |-> f.status, alloc |-> f.alloc, shipped |-> {}, back |-> f.back,
             reserved |-> TRUE, ready |-> FALSE]
      BY <2>2, <2>3 DEF Overridden
  <2>5. [f EXCEPT !.ready = FALSE] =
            [status |-> f.status, alloc |-> f.alloc, shipped |-> {}, back |-> f.back,
             reserved |-> TRUE, ready |-> FALSE]
    <3>1. f.reserved = TRUE
        BY <1>1, <1>10 DEF Fulfillment
    <3>2. PICK s, a, b, r : f = [status |-> s, alloc |-> a, shipped |-> {}, back |-> b,
                                 reserved |-> TRUE, ready |-> r]
        BY <1>1, <3>1 DEF Fulfillment
    <3>3. f.status = s /\ f.alloc = a /\ f.back = b
        BY <3>2
    <3>. DEFINE g == [f EXCEPT !.ready = FALSE]
    <3>4. g = [f EXCEPT !.ready = FALSE]
        OBVIOUS
    <3>. HIDE DEF g
    <3>5. g = [status |-> s, alloc |-> a, shipped |-> {}, back |-> b, reserved |-> TRUE, ready |-> FALSE]
        BY <3>2, <3>4
    <3>. QED
        BY <3>3, <3>4, <3>5
  <2>. QED
      BY <2>1, <2>4, <2>5
<1>11. f.reserved =>
           /\ \A role \in WriteRoles : AcceptsOverride(o, role, untouched)
           /\ Overridden(o, untouched) = [f EXCEPT !.ready = FALSE]
    BY <1>9, <1>10 DEF AcceptsOverride
<1>. QED
    BY <1>7, <1>8, <1>11 DEF f, editor, untouched

(* And the stepper of the order follows them.                              *)
LEMMA StepperFollows ==
    ASSUME GoodsInv PROVE StepperFollowsTheGoods
<1>. SUFFICES ASSUME NEW o \in Orders, Confirmed(o), Steps(order[o])[2] = "active", NEW l \in LinesIn(o)
              PROVE  order[o].qtyShipped[l] = Demand[o][l].qty
    BY DEF StepperFollowsTheGoods
<1>1. Goods(o, fulfillment[o], order[o])
    BY DEF GoodsInv
<1>2. order[o].status \in OrderStatus
    BY <1>1 DEF Goods, Order
<1>3. order[o].status # "CONFIRMED"
  <2>. SUFFICES ASSUME order[o].status = "CONFIRMED" PROVE FALSE
      OBVIOUS
  <2>. DEFINE reached == CHOOSE i \in DOMAIN ORDER_STEPPER : ORDER_STEPPER[i] = order[o].status
  <2>1. DOMAIN ORDER_STEPPER = 1..4 /\ \A i \in 1..4 : ORDER_STEPPER[i] = "CONFIRMED" <=> i = 1
      BY DEF ORDER_STEPPER
  <2>2. reached = 1
      BY <2>1
  <2>3. Steps(order[o])[2] = IF 2 < reached THEN "done" ELSE IF 2 = reached THEN "active" ELSE "pending"
      BY <2>1 DEF Steps
  <2>. HIDE DEF reached
  <2>. QED
      BY <2>2, <2>3
<1>. QED
    BY <1>1, <1>2, <1>3 DEF Goods, OrderStatus

(* Units add up in the documents and on the screens, of orders that name a *)
(* product once (fulfillment.routes.ts, fulfillment-detail.page.ts).       *)
THEOREM ShownUnitsDoAddUp ==
    ASSUME ProductsOnce
    PROVE  Spec => []ShownUnitsAddUp
<1>1. GoodsInv => ShownUnitsAddUp
  <2>1. GoodsInv => TypeOK /\ ReservedIsHeld
      BY DEF GoodsInv, Goods, TypeOK, Confirmed
  <2>. QED
      BY <2>1, LinesDoAddUp, EditorFits, StepperFollows DEF ShownUnitsAddUp, UnitsAddUp
<1>. QED
    BY <1>1, GoodsAreAccountedFor, PTL

---------------------------------------------------------------------------
(* What a step takes of a row.                                             *)

NoMoreOvercommitted ==
    \A w \in Sites, p \in Products : ~Overcommitted(w, p) => ~(Overcommitted(w, p)')

(* Of a product that an order names once, a site gives to one line.        *)
LEMMA UnitsOfOneLine ==
    ASSUME ProductsOnce, NEW o \in Orders, NEW alloc \in Allocations(Demand[o]),
           NEW w \in Sites, NEW p \in Products
    PROVE  \/ Units(o, alloc, w, p) = 0
           \/ \E l \in LinesIn(o) : Demand[o][l].product = p /\ Units(o, alloc, w, p) = alloc[w][l]
<1>. DEFINE L == LinesOf(Demand[o], p)
<1>1. Demand[o] \in Seq(Line) /\ LinesIn(o) = DOMAIN Demand[o]
    BY DemandsAreLines
<1>2. L = {l \in LinesIn(o) : Demand[o][l].product = p} /\ IsFiniteSet(L)
    BY <1>1, LinesAreFinite DEF LinesOf
<1>3. Units(o, alloc, w, p) = SumFunctionOnSet(alloc[w], L)
    BY DEF Units, TakenFrom
<1>4. \A l \in LinesIn(o) : alloc[w][l] \in Int
    BY <1>1 DEF Allocations
<1>. HIDE DEF L
<1>5. CASE L = {}
    BY <1>3, <1>5, SumOfNothing
<1>6. CASE L # {}
  <2>1. PICK l \in L : TRUE
      BY <1>6
  <2>2. (\A k \in L : alloc[w][k] \in Int) /\ \A k \in L : k = l
      BY <1>2, <1>4, <2>1 DEF ProductsOnce
  <2>3. SumFunctionOnSet(alloc[w], L) = alloc[w][l]
      BY <1>2, <2>2, SumOfOne
  <2>. QED
      BY <1>2, <1>3, <2>3
<1>. QED
    BY <1>5, <1>6

(* A replan gives back only.                                               *)
LEMMA PlanOvercommitsNothing ==
    ASSUME GoodsInv, NEW o \in Orders, Plan(o) PROVE NoMoreOvercommitted
<1>. SUFFICES ASSUME NEW w \in Sites, NEW p \in Products, ~Overcommitted(w, p)
              PROVE  ~(Overcommitted(w, p)')
    BY DEF NoMoreOvercommitted
<1>1. Replannable(o) /\ stock' = Released(o, fulfillment[o])
    BY DEF Plan
<1>2. /\ stock'[w][p].inStock = stock[w][p].inStock
      /\ stock'[w][p].reserved = stock[w][p].reserved - Holding(o, fulfillment[o], w, p)
      /\ stock[w][p].inStock \in Int /\ stock[w][p].reserved \in Int
      /\ Holding(o, fulfillment[o], w, p) \in Nat
    BY <1>1, ReleasedRows, RowsOfStock, ReplannableGoods, HoldingIsNat
<1>. QED
    BY <1>2 DEF Overcommitted

(* A split planned long ago is accepted only of what is free now.          *)
LEMMA AcceptOvercommitsNothing ==
    ASSUME ProductsOnce, GoodsInv, NEW o \in Orders, Accept(o) PROVE NoMoreOvercommitted
<1>. SUFFICES ASSUME NEW w \in Sites, NEW p \in Products, ~Overcommitted(w, p)
              PROVE  ~(Overcommitted(w, p)')
    BY DEF NoMoreOvercommitted
<1>. DEFINE alloc == fulfillment[o].alloc
            units == Units(o, alloc, w, p)
<1>1. /\ Confirmed(o) /\ AllAvailable(o, alloc) /\ stock' = Reserving(stock, o, alloc)
    BY DEF Accept, Acceptable
<1>2. alloc \in Allocations(Demand[o]) /\ stock \in Rows
    BY <1>1, RowsOfStock, UnshippedIsAllocation DEF GoodsInv, Goods
<1>. HIDE DEF alloc
<1>3. /\ stock'[w][p].inStock = stock[w][p].inStock
      /\ stock'[w][p].reserved = stock[w][p].reserved + units
      /\ stock[w][p].inStock \in Int /\ stock[w][p].reserved \in Int
      /\ units \in Nat
    BY <1>1, <1>2, RowsMove, RowsOfStock, UnitsAreNat
<1>4. Free(stock, w, p) = stock[w][p].inStock - stock[w][p].reserved
    BY <1>2, <1>3, FreeIsNat DEF Overcommitted
<1>5. units <= stock[w][p].inStock - stock[w][p].reserved
  <2>1. CASE units = 0
      BY <1>3, <2>1 DEF Overcommitted
  <2>2. CASE units # 0
    <3>1. PICK l \in LinesIn(o) : Demand[o][l].product = p /\ units = alloc[w][l]
        BY <1>2, <2>2, UnitsOfOneLine
    <3>2. Free(stock, w, p) >= alloc[w][l]
        BY <1>1, <1>3, <2>2, <3>1 DEF AllAvailable
    <3>. HIDE DEF units
    <3>. QED
        BY <1>3, <1>4, <3>1, <3>2
  <2>. QED
      BY <2>1, <2>2
<1>. QED
    BY <1>3, <1>5 DEF Overcommitted

(* An override takes what is free and what it held.                        *)
LEMMA OverrideOvercommitsNothing ==
    ASSUME GoodsInv, NEW o \in Orders, NEW alloc \in Allocations(Demand[o]), Override(o, alloc)
    PROVE  NoMoreOvercommitted
<1>. SUFFICES ASSUME NEW w \in Sites, NEW p \in Products, ~Overcommitted(w, p)
              PROVE  ~(Overcommitted(w, p)')
    BY DEF NoMoreOvercommitted
<1>. DEFINE f == fulfillment[o]
            rows == Released(o, f)
            units == Units(o, alloc, w, p)
            held == Holding(o, f, w, p)
<1>1. Replannable(o) /\ stock' = Reserving(rows, o, alloc) /\ units <= Overridable(o, w, p)
    BY DEF Override, MayOverride
<1>2. /\ rows \in Rows /\ rows[w][p].inStock = stock[w][p].inStock
      /\ rows[w][p].reserved = stock[w][p].reserved - held
    BY <1>1, ReleasedRows
<1>3. held \in Nat /\ held = IF f.reserved THEN Units(o, f.alloc, w, p) ELSE 0
    BY <1>1, ReplannableGoods, HoldingIsNat
<1>4. Overridable(o, w, p) = Free(stock, w, p) + held
    BY <1>3 DEF Overridable
<1>. HIDE DEF rows, held, f
<1>5. /\ stock'[w][p].inStock = stock[w][p].inStock
      /\ stock'[w][p].reserved = stock[w][p].reserved - held + units
      /\ stock[w][p].inStock \in Int /\ stock[w][p].reserved \in Int
      /\ units \in Nat
  <2>1. stock[w][p].inStock \in Int /\ stock[w][p].reserved \in Int /\ units \in Nat
      BY RowsOfStock, UnitsAreNat
  <2>2. /\ stock'[w][p].inStock = rows[w][p].inStock
        /\ stock'[w][p].reserved = rows[w][p].reserved + units
      BY <1>1, <1>2, RowsMove
  <2>. QED
      BY <1>2, <2>1, <2>2
<1>6. Free(stock, w, p) = stock[w][p].inStock - stock[w][p].reserved
    BY <1>5, RowsOfStock, FreeIsNat DEF Overcommitted
<1>. HIDE DEF units
<1>7. units <= stock[w][p].inStock - stock[w][p].reserved + held
    BY <1>1, <1>4, <1>6
<1>. QED
    BY <1>3, <1>5, <1>7 DEF Overcommitted

(* A shipment takes as much from the stock as from what is reserved.       *)
LEMMA ShipOvercommitsNothing ==
    ASSUME GoodsInv, NEW o \in Orders, Ship(o) PROVE NoMoreOvercommitted
<1>. SUFFICES ASSUME NEW w \in Sites, NEW p \in Products, ~Overcommitted(w, p)
              PROVE  ~(Overcommitted(w, p)')
    BY DEF NoMoreOvercommitted
<1>. DEFINE picked == Unshipped(fulfillment[o])
            units == Units(o, picked, w, p)
<1>1. Confirmed(o) /\ stock' = Taking(stock, o, picked)
    BY DEF Ship, Shippable
<1>2. picked \in Allocations(Demand[o]) /\ stock \in Rows
    BY <1>1, RowsOfStock, UnshippedIsAllocation DEF GoodsInv, Goods
<1>. HIDE DEF picked
<1>3. /\ stock'[w][p].inStock = stock[w][p].inStock - units
      /\ stock'[w][p].reserved = stock[w][p].reserved - units
      /\ stock[w][p].inStock \in Int /\ stock[w][p].reserved \in Int
      /\ units \in Nat
    BY <1>1, <1>2, RowsMove, RowsOfStock, UnitsAreNat
<1>. QED
    BY <1>3 DEF Overcommitted

(* A consolidation takes of a site what is free there.                     *)
LEMMA ConsolidateOvercommitsNothing ==
    ASSUME ProductsOnce, GoodsInv, NEW o \in Orders, NEW source \in [Waiting(fulfillment[o].back) -> Sites],
           Consolidate(o, source)
    PROVE  NoMoreOvercommitted
<1>. SUFFICES ASSUME NEW w \in Sites, NEW p \in Products, ~Overcommitted(w, p)
              PROVE  ~(Overcommitted(w, p)')
    BY DEF NoMoreOvercommitted
<1>. DEFINE f == fulfillment[o]
            sent == Consolidation(o, f, source)
            units == Units(o, sent, w, p)
<1>1. /\ Confirmed(o) /\ Sourced(o, source) /\ stock' = Sending(stock, o, sent)
    BY DEF Consolidate, MayConsolidate
<1>2. f \in Fulfillment(o) /\ stock \in Rows
    BY <1>1, RowsOfStock DEF GoodsInv, Goods
<1>3. sent \in Allocations(Demand[o])
    BY <1>2, ConsolidationIs
<1>4. \A l \in LinesIn(o) : sent[w][l] = IF l \in Waiting(f.back) /\ source[l] = w THEN f.back[l] ELSE 0
    BY <1>2, EachToItsLine
<1>5. \A l \in Waiting(f.back) : source[l] = w =>
          stock[w][Demand[o][l].product].inStock - stock[w][Demand[o][l].product].reserved >= f.back[l]
  <2>1. DOMAIN source = Waiting(f.back)
      OBVIOUS
  <2>. QED
      BY <1>1, <2>1 DEF Sourced, Sources
<1>. HIDE DEF sent, f
<1>6. /\ stock'[w][p].inStock = stock[w][p].inStock - units
      /\ stock'[w][p].reserved = stock[w][p].reserved
      /\ stock[w][p].inStock \in Int /\ stock[w][p].reserved \in Int
      /\ units \in Nat
  <2>1. stock[w][p].inStock \in Int /\ stock[w][p].reserved \in Int
      BY RowsOfStock
  <2>2. units \in Nat
      BY <1>3, UnitsAreNat
  <2>3. /\ Sending(stock, o, sent)[w][p].inStock = stock[w][p].inStock - units
        /\ Sending(stock, o, sent)[w][p].reserved = stock[w][p].reserved
      BY <1>2, <1>3, RowsMove
  <2>. QED
      BY <1>1, <2>1, <2>2, <2>3
<1>7. units <= stock[w][p].inStock - stock[w][p].reserved
  <2>1. CASE units = 0
      BY <1>6, <2>1 DEF Overcommitted
  <2>2. CASE units # 0
    <3>1. PICK l \in LinesIn(o) : Demand[o][l].product = p /\ units = sent[w][l]
        BY <1>3, <2>2, UnitsOfOneLine
    <3>2. l \in Waiting(f.back) /\ source[l] = w /\ units = f.back[l]
        BY <1>4, <2>2, <3>1
    <3>3. stock[w][p].inStock - stock[w][p].reserved >= f.back[l]
        BY <1>5, <3>1, <3>2
    <3>. HIDE DEF units
    <3>. QED
        BY <1>6, <3>2, <3>3
  <2>. QED
      BY <2>1, <2>2
<1>. HIDE DEF units
<1>. QED
    BY <1>6, <1>7 DEF Overcommitted

(* A count overcommits only downwards.                                     *)
LEMMA AdjustOvercommitsDown ==
    ASSUME GoodsInv, NEW v \in Sites, NEW q \in Products, NEW delta \in Deltas, Adjust(v, q, delta),
           NEW w \in Sites, NEW p \in Products, Overcommitted(w, p)', ~Overcommitted(w, p)
    PROVE  delta < 0 /\ w = v /\ p = q
<1>1. stock' = [stock EXCEPT ![v][q].inStock = stock[v][q].inStock + delta]
    BY AdjustKeepsGoods
<1>2. stock \in [Sites -> [Products -> Row]] /\ delta \in Int
    BY DeltasType DEF GoodsInv
<1>3. stock[w][p] \in Row
    BY <1>2
<1>4. CASE w = v /\ p = q
  <2>1. /\ stock'[w][p].inStock = stock[w][p].inStock + delta
        /\ stock'[w][p].reserved = stock[w][p].reserved
      BY <1>1, <1>2, <1>3, <1>4 DEF Row
  <2>. QED
      BY <1>2, <1>3, <1>4, <2>1 DEF Overcommitted, Row
<1>5. CASE ~(w = v /\ p = q)
  <2>1. stock'[w][p] = stock[w][p]
      BY <1>1, <1>2, <1>5
  <2>. QED
      BY <2>1 DEF Overcommitted
<1>. QED
    BY <1>4, <1>5

(* Of orders that name a product once: only counting stock down makes a    *)
(* row promise more than it has (fulfillment.routes.ts, the checks of      *)
(* accept, override and consolidate).                                      *)
THEOREM OnlyWriteDownsDoOvercommit ==
    ASSUME ProductsOnce
    PROVE  Spec => OnlyWriteDownsOvercommit
<1>. DEFINE A == \A w \in Sites, p \in Products :
                    Overcommitted(w, p)' /\ ~Overcommitted(w, p) =>
                        \E delta \in Deltas : delta < 0 /\ Adjust(w, p, delta)
<1>1. ASSUME GoodsInv, Next PROVE A
  <2>1. NoMoreOvercommitted => A
      BY DEF NoMoreOvercommitted
  <2>2. ASSUME NEW o \in Orders, Confirm(o) PROVE A
    <3>1. NoMoreOvercommitted
        BY <2>2 DEF Confirm, NoMoreOvercommitted, Overcommitted
    <3>. QED
        BY <2>1, <3>1
  <2>3. ASSUME NEW o \in Orders, Plan(o) \/ Accept(o) \/ Ship(o) PROVE A
    <3>1. NoMoreOvercommitted
        BY <1>1, <2>3, PlanOvercommitsNothing, AcceptOvercommitsNothing, ShipOvercommitsNothing
    <3>. QED
        BY <2>1, <3>1
  <2>4. ASSUME NEW o \in Orders, NEW alloc \in OverrideRequests(o), Override(o, alloc) PROVE A
    <3>1. NoMoreOvercommitted
        BY <1>1, <2>4, OverrideOvercommitsNothing, RequestsAreAllocations
    <3>. QED
        BY <2>1, <3>1
  <2>5. ASSUME NEW o \in Orders, NEW source \in [Waiting(fulfillment[o].back) -> Sites], Consolidate(o, source)
        PROVE  A
    <3>1. NoMoreOvercommitted
        BY <1>1, <2>5, ConsolidateOvercommitsNothing
    <3>. QED
        BY <2>1, <3>1
  <2>6. ASSUME NEW w \in Sites, NEW p \in Products, NEW delta \in Deltas, Adjust(w, p, delta) PROVE A
      BY <1>1, <2>6, AdjustOvercommitsDown
  <2>. HIDE DEF A
  <2>. QED
      BY <1>1, <2>2, <2>3, <2>4, <2>5, <2>6 DEF Next
<1>2. GoodsInv /\ [Next]_vars => [A]_vars
    BY <1>1
<1>. QED
    BY <1>2, GoodsAreAccountedFor, PTL DEF Spec, OnlyWriteDownsOvercommit

---------------------------------------------------------------------------
(* The units of a product: in stock, and sent to the orders of S.          *)

ConfirmedIn(ff) == {o \in Orders : ff[o] # None}
InStock(rows, p) == SumFunctionOnSet([w \in Sites |-> rows[w][p].inStock], Sites)
SentTo(o, doc, p) == SumFunctionOnSet(doc.qtyShipped, LinesOf(Demand[o], p))
SentToAll(S, docs, p) == SumFunctionOnSet([o \in S |-> SentTo(o, docs[o], p)], S)

(* The units of a product, written with the sums above.                    *)
LEMMA UnitsOfIs ==
    /\ \A p : UnitsOf(p) = InStock(stock, p) + SentToAll(ConfirmedIn(fulfillment), order, p)
    /\ \A p : UnitsOf(p)' = InStock(stock', p) + SentToAll(ConfirmedIn(fulfillment'), order', p)
BY DEF UnitsOf, InStock, SentToAll, SentTo, ConfirmedIn, Confirmed, SumFunction

(* What an allocation takes of all sites it gives to all lines.            *)
LEMMA SumsSwap ==
    ASSUME NEW demand \in Seq(Line), NEW a \in Allocations(demand), NEW p
    PROVE  SumFunctionOnSet([w \in Sites |-> TakenFrom(demand, a, w, p)], Sites)
               = SumFunctionOnSet([l \in LinesOf(demand, p) |-> Given(a, l)], LinesOf(demand, p))
<1>. DEFINE L == LinesOf(demand, p)
            column(l) == [w \in Sites |-> a[w][l]]
            taken == [w \in Sites |-> TakenFrom(demand, a, w, p)]
            given(T) == [l \in L |-> SumFunctionOnSet(column(l), T)]
            P == {T \in SUBSET Sites : SumFunctionOnSet(taken, T) = SumFunctionOnSet(given(T), L)}
<1>1. IsFiniteSet(L) /\ L \subseteq DOMAIN demand
    BY LinesAreFinite
<1>2. \A w \in Sites, l \in L : a[w][l] \in Nat
    BY <1>1 DEF Allocations
<1>3. \A w \in Sites : taken[w] = SumFunctionOnSet(a[w], L) /\ taken[w] \in Int
  <2>. SUFFICES ASSUME NEW w \in Sites PROVE SumFunctionOnSet(a[w], L) \in Int
      BY DEF TakenFrom
  <2>1. \A l \in L : a[w][l] \in Int
      BY <1>2
  <2>. HIDE DEF L
  <2>. QED
      BY <1>1, <2>1, SumWithout
<1>4. \A l \in L, w \in Sites : column(l)[w] = a[w][l] /\ column(l)[w] \in Int
    BY <1>2
<1>5. ASSUME NEW T \in SUBSET Sites, \A U \in SUBSET T : U # T => U \in P
      PROVE  T \in P
  <2>1. IsFiniteSet(T)
      BY SitesAreFinite, FS_Subset
  <2>2. CASE T = {}
    <3>1. \A l \in L : given(T)[l] = 0
        BY <2>2, SumOfNothing
    <3>2. SumFunctionOnSet(taken, T) = 0
        BY <2>2, SumOfNothing
    <3>. DEFINE g == given(T)
    <3>3. \A l \in L : g[l] = 0
        BY <3>1
    <3>. HIDE DEF g, L
    <3>4. SumFunctionOnSet(g, L) = 0
        BY <1>1, <3>3, SumOfZeros
    <3>. QED
        BY <3>2, <3>4 DEF g
  <2>3. CASE T # {}
    <3>1. PICK c \in T : TRUE
        BY <2>3
    <3>. DEFINE U == T \ {c}
                g == given(T)
                h == given(U)
    <3>2. U \in P /\ IsFiniteSet(U)
        BY <1>5, <2>1, <3>1, FS_Subset
    <3>3. \A l \in L : /\ SumFunctionOnSet(column(l), T) = a[c][l] + SumFunctionOnSet(column(l), U)
                       /\ SumFunctionOnSet(column(l), U) \in Int
      <4>. SUFFICES ASSUME NEW l \in L
                    PROVE  /\ SumFunctionOnSet(column(l), T) = a[c][l] + SumFunctionOnSet(column(l), U)
                           /\ SumFunctionOnSet(column(l), U) \in Int
          OBVIOUS
      <4>. DEFINE f == column(l)
      <4>1. (\A w \in T : f[w] \in Int) /\ (\A w \in U : f[w] \in Int) /\ f[c] = a[c][l]
          BY <1>4, <3>1
      <4>. HIDE DEF f, U
      <4>2. SumFunctionOnSet(f, U) \in Int
          BY <3>2, <4>1, SumWithout
      <4>3. SumFunctionOnSet(f, T) = f[c] + SumFunctionOnSet(f, U)
          BY <2>1, <3>1, <4>1, SumWithout DEF U
      <4>. QED
          BY <4>1, <4>2, <4>3 DEF f
    <3>4. \A l \in L : a[c][l] \in Int /\ h[l] \in Int /\ g[l] = a[c][l] + h[l]
      <4>1. \A l \in L : a[c][l] \in Int
          BY <1>2, <3>1
      <4>2. \A l \in L : /\ h[l] = SumFunctionOnSet(column(l), U)
                         /\ g[l] = SumFunctionOnSet(column(l), T)
          OBVIOUS
      <4>. HIDE DEF g, h, column, L, U
      <4>. QED
          BY <3>3, <4>1, <4>2
    <3>5. \A w \in T : taken[w] \in Int
        BY <1>3
    <3>. DEFINE row == a[c]
    <3>6. taken[c] = SumFunctionOnSet(row, L)
        BY <1>3, <3>1
    <3>7. SumFunctionOnSet(taken, U) = SumFunctionOnSet(h, L)
        BY <3>2
    <3>8. \A l \in L : row[l] \in Int /\ h[l] \in Int /\ g[l] = row[l] + h[l]
        BY <3>4
    <3>. HIDE DEF g, h, L, taken, row
    <3>9. SumFunctionOnSet(g, L) = SumFunctionOnSet(row, L) + SumFunctionOnSet(h, L)
        BY <1>1, <3>8, SumAdds
    <3>10. SumFunctionOnSet(taken, T) = taken[c] + SumFunctionOnSet(taken, U)
        BY <2>1, <3>1, <3>5, SumWithout
    <3>. QED
        BY <3>6, <3>7, <3>9, <3>10 DEF g
  <2>. QED
      BY <2>2, <2>3
<1>6. Sites \in P
  <2>. HIDE DEF P
  <2>1. SUBSET Sites \subseteq P
      BY <1>5, SitesAreFinite, SubsetInduction
  <2>. QED
      BY <2>1
<1>7. \A l \in L : SumFunctionOnSet(column(l), Sites) = Given(a, l)
    BY GivenIsSum
<1>8. given(Sites) = [l \in L |-> Given(a, l)]
    BY <1>7
<1>. QED
    BY <1>6, <1>8

(* What an order was sent of a product is a number.                        *)
LEMMA SentIsInt ==
    ASSUME NEW o \in Orders, NEW doc \in Order(o), NEW p
    PROVE  SentTo(o, doc, p) \in Int
<1>. DEFINE L == LinesOf(Demand[o], p)
<1>1. IsFiniteSet(L) /\ \A l \in L : doc.qtyShipped[l] \in Int
    BY DemandsAreLines, LinesAreFinite DEF Order
<1>. HIDE DEF L
<1>2. SumFunctionOnSet(doc.qtyShipped, L) \in Int
    BY <1>1, SumWithout
<1>. QED
    BY <1>2 DEF SentTo, L

(* Confirmed orders are finitely many, and typed.                          *)
LEMMA OrdersAreTyped ==
    ASSUME GoodsInv
    PROVE  /\ \A o \in ConfirmedIn(fulfillment) : order[o] \in Order(o)
           /\ IsFiniteSet(ConfirmedIn(fulfillment))
BY DEF GoodsInv, Goods, Confirmed, ConfirmedIn

(* Units that stay, and units that leave the stock for an order.           *)
LEMMA UnitsStay ==
    ASSUME GoodsInv, ConfirmedIn(fulfillment') = ConfirmedIn(fulfillment), UNCHANGED order,
           \A w \in Sites, p \in Products : stock'[w][p].inStock = stock[w][p].inStock
    PROVE  \A p \in Products : UnitsOf(p)' = UnitsOf(p)
<1>. SUFFICES ASSUME NEW p \in Products PROVE UnitsOf(p)' = UnitsOf(p)
    OBVIOUS
<1>1. InStock(stock', p) = InStock(stock, p)
  <2>1. [w \in Sites |-> stock'[w][p].inStock] = [w \in Sites |-> stock[w][p].inStock]
      OBVIOUS
  <2>. QED
      BY <2>1 DEF InStock
<1>. QED
    BY <1>1, UnitsOfIs

(* Units that leave the rows and arrive at the lines are all still there.  *)
LEMMA UnitsLeave ==
    ASSUME GoodsInv, ConfirmedIn(fulfillment') = ConfirmedIn(fulfillment),
           NEW o \in ConfirmedIn(fulfillment), NEW sent \in Allocations(Demand[o]), order'[o] \in Order(o),
           \A q \in Orders : q # o => order'[q] = order[q],
           \A l \in LinesIn(o) : order'[o].qtyShipped[l] = order[o].qtyShipped[l] + Given(sent, l),
           \A w \in Sites, p \in Products :
              stock'[w][p].inStock = stock[w][p].inStock - Units(o, sent, w, p)
    PROVE  \A p \in Products : UnitsOf(p)' = UnitsOf(p)
<1>. SUFFICES ASSUME NEW p \in Products PROVE UnitsOf(p)' = UnitsOf(p)
    OBVIOUS
<1>. DEFINE S == ConfirmedIn(fulfillment)
            L == LinesOf(Demand[o], p)
            before == [w \in Sites |-> stock[w][p].inStock]
            after == [w \in Sites |-> stock'[w][p].inStock]
            taken == [w \in Sites |-> TakenFrom(Demand[o], sent, w, p)]
            given == [l \in L |-> Given(sent, l)]
<1>1. /\ o \in Orders /\ S \subseteq Orders /\ IsFiniteSet(S) /\ IsFiniteSet(Sites)
      /\ \A q \in S : order[q] \in Order(q) /\ order'[q] \in Order(q)
      /\ Demand[o] \in Seq(Line) /\ LinesIn(o) = DOMAIN Demand[o]
    BY OrdersAreTyped, DemandsAreLines, SitesAreFinite DEF ConfirmedIn
<1>2. IsFiniteSet(L) /\ L \subseteq LinesIn(o)
    BY <1>1, LinesAreFinite
<1>3. InStock(stock, p) = InStock(stock', p) + SumFunctionOnSet(taken, Sites)
  <2>1. \A w \in Sites : after[w] \in Int /\ taken[w] \in Int /\ before[w] = after[w] + taken[w]
    <3>. SUFFICES ASSUME NEW w \in Sites
                  PROVE  after[w] \in Int /\ taken[w] \in Int /\ before[w] = after[w] + taken[w]
        OBVIOUS
    <3>1. Units(o, sent, w, p) \in Int
        BY <1>1, UnitsAreNat
    <3>2. stock[w][p].inStock \in Int
        BY RowsOfStock
    <3>3. taken[w] = Units(o, sent, w, p)
        BY DEF Units
    <3>4. before[w] = stock[w][p].inStock /\ after[w] = stock[w][p].inStock - Units(o, sent, w, p)
        OBVIOUS
    <3>. HIDE DEF before, after, taken
    <3>. QED
        BY <3>1, <3>2, <3>3, <3>4
  <2>. HIDE DEF before, after, taken
  <2>2. SumFunctionOnSet(before, Sites) = SumFunctionOnSet(after, Sites) + SumFunctionOnSet(taken, Sites)
      BY <1>1, <2>1, SumAdds
  <2>. QED
      BY <2>2 DEF InStock, before, after
<1>4. SentTo(o, order'[o], p) = SentTo(o, order[o], p) + SumFunctionOnSet(given, L)
  <2>. DEFINE was == order[o].qtyShipped
              is == order'[o].qtyShipped
  <2>1. \A l \in L : was[l] \in Int /\ given[l] \in Int /\ is[l] = was[l] + given[l]
    <3>. SUFFICES ASSUME NEW l \in L
                  PROVE  was[l] \in Int /\ given[l] \in Int /\ is[l] = was[l] + given[l]
        OBVIOUS
    <3>1. l \in LinesIn(o) /\ order[o] \in Order(o)
        BY <1>1, <1>2
    <3>2. was[l] \in Int
        BY <3>1 DEF Order
    <3>3. Given(sent, l) \in Int
        BY <1>1, <3>1, SumsOfAllocation
    <3>4. is[l] = was[l] + Given(sent, l) /\ given[l] = Given(sent, l)
        BY <3>1
    <3>. QED
        BY <3>2, <3>3, <3>4
  <2>. HIDE DEF was, is, given, L
  <2>2. SumFunctionOnSet(is, L) = SumFunctionOnSet(was, L) + SumFunctionOnSet(given, L)
      BY <1>2, <2>1, SumAdds
  <2>. QED
      BY <2>2 DEF SentTo, was, is, L
<1>5. SentToAll(S, order', p) = SentToAll(S, order, p) - SentTo(o, order[o], p) + SentTo(o, order'[o], p)
  <2>. DEFINE f == [q \in S |-> SentTo(q, order[q], p)]
              g == [q \in S |-> SentTo(q, order'[q], p)]
  <2>1. \A q \in S : f[q] \in Int /\ g[q] \in Int
      BY <1>1, SentIsInt
  <2>2. \A q \in S : q # o => g[q] = f[q]
      BY <1>1
  <2>3. f[o] = SentTo(o, order[o], p) /\ g[o] = SentTo(o, order'[o], p) /\ o \in S
      OBVIOUS
  <2>. HIDE DEF f, g, S
  <2>4. SumFunctionOnSet(g, S) = SumFunctionOnSet(f, S) - f[o] + g[o]
      BY <1>1, <2>1, <2>2, <2>3, SumChangesByOne
  <2>. QED
      BY <2>3, <2>4 DEF SentToAll, f, g
<1>6. SumFunctionOnSet(taken, Sites) = SumFunctionOnSet(given, L)
    BY <1>1, SumsSwap
<1>7. /\ SentTo(o, order[o], p) \in Int /\ SentTo(o, order'[o], p) \in Int
      /\ SentToAll(S, order, p) \in Int /\ SumFunctionOnSet(given, L) \in Int
      /\ InStock(stock', p) \in Int
  <2>1. SentTo(o, order[o], p) \in Int /\ SentTo(o, order'[o], p) \in Int
      BY <1>1, SentIsInt
  <2>2. SentToAll(S, order, p) \in Int
    <3>. DEFINE f == [q \in S |-> SentTo(q, order[q], p)]
    <3>1. \A q \in S : f[q] \in Int
        BY <1>1, SentIsInt
    <3>. HIDE DEF f, S
    <3>2. SumFunctionOnSet(f, S) \in Int
        BY <1>1, <3>1, SumWithout
    <3>. QED
        BY <3>2 DEF f, SentToAll
  <2>3. SumFunctionOnSet(given, L) \in Int
    <3>1. \A l \in L : given[l] \in Int
      <4>1. \A l \in LinesIn(o) : Given(sent, l) \in Int
          BY <1>1, SumsOfAllocation
      <4>. QED
          BY <1>2, <4>1
    <3>. HIDE DEF given, L
    <3>. QED
        BY <1>2, <3>1, SumWithout
  <2>4. InStock(stock', p) \in Int
    <3>1. \A w \in Sites : after[w] \in Int
      <4>1. \A w \in Sites : stock[w][p].inStock \in Int
          BY RowsOfStock
      <4>2. \A w \in Sites : Units(o, sent, w, p) \in Int
          BY <1>1, UnitsAreNat
      <4>. QED
          BY <4>1, <4>2
    <3>. HIDE DEF after
    <3>2. SumFunctionOnSet(after, Sites) \in Int
        BY <1>1, <3>1, SumWithout
    <3>. QED
        BY <3>2 DEF InStock, after
  <2>. QED
      BY <2>1, <2>2, <2>3, <2>4
<1>8. /\ UnitsOf(p) = InStock(stock, p) + SentToAll(S, order, p)
      /\ UnitsOf(p)' = InStock(stock', p) + SentToAll(S, order', p)
    BY UnitsOfIs
<1>. HIDE DEF S, L, given, taken
<1>. QED
    BY <1>3, <1>4, <1>5, <1>6, <1>7, <1>8

---------------------------------------------------------------------------
(* What has left stays so, and is accounted for.                           *)

(* A plan and an override are fulfillments, not the absence of one.        *)
LEMMA PlansAreThere ==
    ASSUME NEW o \in Orders
    PROVE  /\ \A rows \in Rows : Planned(o, rows) # None
           /\ \A alloc \in Allocations(Demand[o]) : Overridden(o, alloc) # None
<1>. DEFINE doc == [status |-> "CONFIRMED", qtyShipped |-> [l \in LinesIn(o) |-> 0]]
<1>1. doc \in Order(o)
    BY DEF Order, OrderStatus
<1>2. ASSUME NEW rows \in Rows PROVE Planned(o, rows) # None
  <2>1. NothingLeft(o, Planned(o, rows), doc)
      BY PlannedStands DEF NothingLeft
  <2>. HIDE DEF doc
  <2>. QED
      BY <1>1, <2>1, PlannedGoods, NoneIsNoFulfillment DEF Goods
<1>3. ASSUME NEW alloc \in Allocations(Demand[o]) PROVE Overridden(o, alloc) # None
  <2>1. NothingLeft(o, Overridden(o, alloc), doc)
      BY OverriddenStands DEF NothingLeft
  <2>. HIDE DEF doc
  <2>. QED
      BY <1>1, <2>1, OverriddenGoods, NoneIsNoFulfillment DEF Goods
<1>. QED
    BY <1>2, <1>3

(* An order that is new has been sent nothing.                             *)
LEMMA ConfirmKeepsUnits ==
    ASSUME GoodsInv, NEW o \in Orders, Confirm(o)
    PROVE  /\ \A p \in Products : UnitsOf(p)' = UnitsOf(p)
           /\ \A q \in Orders : Confirmed(q) =>
                 fulfillment'[q] = fulfillment[q] /\ order'[q] = order[q]
<1>. DEFINE S == ConfirmedIn(fulfillment)
            T == ConfirmedIn(fulfillment')
            doc == [status |-> "CONFIRMED", qtyShipped |-> [l \in LinesIn(o) |-> 0]]
<1>1. /\ o \notin S /\ UNCHANGED stock
      /\ fulfillment' = [fulfillment EXCEPT ![o] = Planned(o, stock)]
      /\ order' = [order EXCEPT ![o] = doc]
    BY DEF Confirm, ConfirmedIn, Confirmed
<1>2. /\ fulfillment'[o] # None /\ order'[o] = doc
      /\ \A q \in Orders : q # o => fulfillment'[q] = fulfillment[q] /\ order'[q] = order[q]
  <2>1. Planned(o, stock) # None
      BY PlansAreThere, RowsOfStock
  <2>. QED
      BY <1>1, <2>1 DEF GoodsInv, StandingInv
<1>. HIDE DEF doc
<1>3. o \in T /\ S = T \ {o} /\ IsFiniteSet(S) /\ IsFiniteSet(T) /\ S \subseteq Orders /\ T \subseteq Orders
  <2>1. o \in T /\ S = T \ {o} /\ T = S \cup {o}
      BY <1>1, <1>2 DEF ConfirmedIn
  <2>2. IsFiniteSet(S)
      BY OrdersAreTyped
  <2>3. IsFiniteSet(S \cup {o})
      BY <2>2, FS_AddElement
  <2>. QED
      BY <2>1, <2>2, <2>3 DEF ConfirmedIn
<1>4. ASSUME NEW p \in Products PROVE UnitsOf(p)' = UnitsOf(p)
  <2>. DEFINE f == [q \in S |-> SentTo(q, order[q], p)]
              g == [q \in T |-> SentTo(q, order'[q], p)]
              L == LinesOf(Demand[o], p)
  <2>1. \A q \in S : f[q] \in Int /\ g[q] = f[q]
    <3>1. \A q \in S : order[q] \in Order(q) /\ q \in Orders /\ q # o /\ q \in T
        BY <1>3, OrdersAreTyped
    <3>2. \A q \in S : SentTo(q, order[q], p) \in Int
        BY <3>1, SentIsInt
    <3>. QED
        BY <1>2, <3>1, <3>2
  <2>2. g[o] = 0
    <3>1. IsFiniteSet(L) /\ L \subseteq LinesIn(o)
        BY DemandsAreLines, LinesAreFinite
    <3>. DEFINE zeros == doc.qtyShipped
    <3>2. \A l \in L : zeros[l] = 0
        BY <3>1 DEF doc
    <3>. HIDE DEF zeros, L
    <3>3. SumFunctionOnSet(zeros, L) = 0
        BY <3>1, <3>2, SumOfZeros
    <3>. QED
        BY <1>2, <1>3, <3>3 DEF SentTo, zeros, L
  <2>3. SentToAll(S, order, p) = SumFunctionOnSet(f, S) /\ SentToAll(T, order', p) = SumFunctionOnSet(g, T)
      BY DEF SentToAll
  <2>4. \A q \in T : g[q] \in Int
      BY <1>3, <2>1, <2>2
  <2>. HIDE DEF f, g, S, T
  <2>5. SumFunctionOnSet(g, T) = g[o] + SumFunctionOnSet(g, S)
      BY <1>3, <2>4, SumWithout
  <2>6. SumFunctionOnSet(g, S) = SumFunctionOnSet(f, S) /\ SumFunctionOnSet(f, S) \in Int
      BY <1>3, <2>1, SumAgrees, SumWithout
  <2>7. SentToAll(T, order', p) = SentToAll(S, order, p)
      BY <2>2, <2>3, <2>5, <2>6
  <2>8. UnitsOf(p) = InStock(stock, p) + SentToAll(S, order, p)
      BY UnitsOfIs DEF S
  <2>9. UnitsOf(p)' = InStock(stock', p) + SentToAll(T, order', p)
      BY UnitsOfIs DEF T
  <2>. QED
      BY <1>1, <2>7, <2>8, <2>9
<1>5. \A q \in Orders : Confirmed(q) => q # o
    BY DEF Confirm
<1>. QED
    BY <1>2, <1>4, <1>5

(* A plan, an acceptance and an override are for what nothing of has left. *)
Replans(o) ==
    /\ Confirmed(o) /\ fulfillment[o].status # "SHIPPED" /\ fulfillment[o].shipped = {}
    /\ UNCHANGED order /\ fulfillment'[o] # None
    /\ \A q \in Orders : q # o => fulfillment'[q] = fulfillment[q]
    /\ \A w \in Sites, p \in Products : stock'[w][p].inStock = stock[w][p].inStock

(* A plan leaves the goods where they are.                                 *)
LEMMA PlanReplans ==
    ASSUME GoodsInv, NEW o \in Orders, Plan(o) PROVE Replans(o)
<1>. DEFINE rows == IF Transactions THEN stock ELSE Released(o, fulfillment[o])
<1>1. /\ Replannable(o) /\ UNCHANGED order
      /\ stock' = Released(o, fulfillment[o])
      /\ fulfillment' = [fulfillment EXCEPT ![o] = Planned(o, rows)]
    BY DEF Plan
<1>2. rows \in Rows /\ Confirmed(o)
    BY <1>1, RowsOfStock, ReleasedRows DEF Replannable
<1>. HIDE DEF rows
<1>3. Planned(o, rows) # None
    BY <1>2, PlansAreThere
<1>4. /\ fulfillment'[o] # None
      /\ \A q \in Orders : q # o => fulfillment'[q] = fulfillment[q]
    BY <1>1, <1>3 DEF GoodsInv, StandingInv
<1>. QED
    BY <1>1, <1>2, <1>4, ReplannableGoods, ReleasedRows DEF Replans

(* So does an acceptance.                                                  *)
LEMMA AcceptReplans ==
    ASSUME GoodsInv, NEW o \in Orders, Accept(o) PROVE Replans(o)
<1>. DEFINE f == fulfillment[o]
            g == Accepted(f)
<1>1. /\ Acceptable(o) /\ UNCHANGED order
      /\ stock' = Reserving(stock, o, f.alloc)
      /\ fulfillment' = [fulfillment EXCEPT ![o] = g]
    BY DEF Accept
<1>2. Replannable(o) /\ Confirmed(o)
    BY <1>1, AcceptableIsReplannable DEF GoodsInv, Acceptable
<1>3. f \in Fulfillment(o) /\ f.shipped = {} /\ f.status # "SHIPPED"
    BY <1>2, ReplannableGoods
<1>4. g \in Fulfillment(o)
    BY <1>3 DEF Accepted, StatusReserved, Fulfillment, FulfillmentStatus
<1>5. stock \in Rows /\ f.alloc \in Allocations(Demand[o])
    BY <1>3, RowsOfStock, UnshippedIsAllocation
<1>. HIDE DEF g
<1>6. /\ fulfillment'[o] # None
      /\ \A q \in Orders : q # o => fulfillment'[q] = fulfillment[q]
    BY <1>1, <1>4, NoneIsNoFulfillment DEF GoodsInv, StandingInv
<1>7. \A w \in Sites, p \in Products : stock'[w][p].inStock = stock[w][p].inStock
    BY <1>1, <1>5, RowsMove
<1>. QED
    BY <1>1, <1>2, <1>3, <1>6, <1>7 DEF Replans

(* So does an override.                                                    *)
LEMMA OverrideReplans ==
    ASSUME GoodsInv, NEW o \in Orders, NEW alloc \in Allocations(Demand[o]), Override(o, alloc)
    PROVE  Replans(o)
<1>. DEFINE f == fulfillment[o]
            g == Overridden(o, alloc)
            rows == Released(o, f)
<1>1. /\ Replannable(o) /\ UNCHANGED order
      /\ stock' = Reserving(rows, o, alloc)
      /\ fulfillment' = [fulfillment EXCEPT ![o] = g]
    BY DEF Override, MayOverride
<1>2. Confirmed(o) /\ f.shipped = {} /\ f.status # "SHIPPED"
    BY <1>1, ReplannableGoods DEF Replannable
<1>3. /\ rows \in Rows
      /\ \A w \in Sites, p \in Products : rows[w][p].inStock = stock[w][p].inStock
    BY <1>1, ReleasedRows
<1>4. g # None
    BY PlansAreThere
<1>. HIDE DEF g, rows
<1>5. /\ fulfillment'[o] # None
      /\ \A q \in Orders : q # o => fulfillment'[q] = fulfillment[q]
    BY <1>1, <1>4 DEF GoodsInv, StandingInv
<1>6. \A w \in Sites, p \in Products : stock'[w][p].inStock = rows[w][p].inStock
    BY <1>1, <1>3, RowsMove
<1>. QED
    BY <1>1, <1>2, <1>3, <1>5, <1>6 DEF Replans

(* An order once confirmed stays so.                                       *)
LEMMA ConfirmedStay ==
    ASSUME NEW o \in Orders, Confirmed(o), fulfillment'[o] # None,
           \A q \in Orders : q # o => fulfillment'[q] = fulfillment[q]
    PROVE  ConfirmedIn(fulfillment') = ConfirmedIn(fulfillment)
BY DEF ConfirmedIn, Confirmed

(* Where goods stay, units stay.                                           *)
LEMMA ReplansKeepUnits ==
    ASSUME GoodsInv, NEW o \in Orders, Replans(o)
    PROVE  \A p \in Products : UnitsOf(p)' = UnitsOf(p)
<1>1. ConfirmedIn(fulfillment') = ConfirmedIn(fulfillment)
    BY ConfirmedStay DEF Replans
<1>. QED
    BY <1>1, UnitsStay DEF Replans

(* Goods that leave are shipped goods where no line gets more than ordered.*)
LEMMA SendsKeepUnits ==
    ASSUME GoodsInv, NEW o \in Orders, NEW sent, Sends(o, sent),
           \A l \in LinesIn(o) : order[o].qtyShipped[l] + Given(sent, l) <= Demand[o][l].qty
    PROVE  \A p \in Products : UnitsOf(p)' = UnitsOf(p)
<1>1. /\ ConfirmedIn(fulfillment') = ConfirmedIn(fulfillment)
      /\ o \in ConfirmedIn(fulfillment) /\ sent \in Allocations(Demand[o])
      /\ order[o] \in Order(o) /\ Demand[o] \in Seq(Line) /\ LinesIn(o) = DOMAIN Demand[o]
    BY ConfirmedStay, DemandsAreLines DEF Sends, ConfirmedIn, Confirmed, GoodsInv, Goods
<1>2. \A l \in LinesIn(o) : order'[o].qtyShipped[l] = order[o].qtyShipped[l] + Given(sent, l)
  <2>. SUFFICES ASSUME NEW l \in LinesIn(o)
                PROVE  order'[o].qtyShipped[l] = order[o].qtyShipped[l] + Given(sent, l)
      OBVIOUS
  <2>. DEFINE q == Demand[o][l].qty
              a == order[o].qtyShipped[l] + Given(sent, l)
  <2>1. q \in Nat /\ order[o].qtyShipped[l] \in Nat /\ Given(sent, l) \in Nat
      BY <1>1, LinesAreFinite, SumsOfAllocation DEF Order
  <2>2. a \in Nat /\ a <= q
      BY <2>1
  <2>3. order'[o].qtyShipped[l] = Min({q, a})
      BY DEF Sends
  <2>. HIDE DEF q, a
  <2>4. Min({q, a}) = a
      BY <2>1, <2>2, MinTwice
  <2>. QED
      BY <2>3, <2>4 DEF a
<1>3. /\ order'[o] \in Order(o)
      /\ \A q \in Orders : q # o => order'[q] = order[q]
      /\ \A w \in Sites, p \in Products : stock'[w][p].inStock = stock[w][p].inStock - Units(o, sent, w, p)
    BY DEF Sends
<1>. QED
    BY <1>1, <1>2, <1>3, UnitsLeave

(* What counts as shipped is no more than what has left, and where nothing *)
(* gives a line too much, what is still to leave fits.                     *)
LEMMA ShipFits ==
    ASSUME GoodsInv, NEW o \in Orders, Ship(o), ~OverGiven(o), NEW l \in LinesIn(o)
    PROVE  order[o].qtyShipped[l] + Given(Unshipped(fulfillment[o]), l) <= Demand[o][l].qty
<1>. DEFINE f == fulfillment[o]
            q == Demand[o][l].qty
            a == Left(f, l)
            b == Given(Unshipped(f), l)
<1>1. Confirmed(o) /\ f.status # "SHIPPED"
    BY DEF Ship, Shippable
<1>2. f \in Fulfillment(o) /\ order[o] \in Order(o) /\ order[o].qtyShipped[l] = Min({q, a})
    BY <1>1 DEF GoodsInv, Goods, Behind
<1>3. q \in Nat /\ a \in Nat /\ b \in Nat /\ Given(f.alloc, l) = a + b
    BY <1>2, DemandsAreLines, LinesAreFinite, LeftAndPicked
<1>4. Given(f.alloc, l) <= q
    BY <1>1, <1>2, <1>3 DEF OverGiven
<1>. HIDE DEF f, q, a, b
<1>5. Min({q, a}) \in Nat /\ Min({q, a}) <= a
    BY <1>3, MinTwice
<1>6. order[o].qtyShipped[l] + b <= q
    BY <1>2, <1>3, <1>4, <1>5
<1>. QED
    BY <1>6 DEF f, q, b

(* And a consolidation sends each line what it lacks.                      *)
LEMMA ConsolidationFits ==
    ASSUME ProductsOnce, GoodsInv, NEW o \in Orders, ~OverGiven(o),
           NEW source \in [Waiting(fulfillment[o].back) -> Sites], Consolidate(o, source),
           NEW l \in LinesIn(o)
    PROVE  order[o].qtyShipped[l] + Given(Consolidation(o, fulfillment[o], source), l)
               <= Demand[o][l].qty
<1>. DEFINE f == fulfillment[o]
            q == Demand[o][l].qty
            a == Left(f, l)
            c == Given(f.alloc, l)
            b == Given(Consolidation(o, f, source), l)
<1>1. Confirmed(o) /\ HasBackorder(f.back)
    BY DEF Consolidate, MayConsolidate
<1>2. f.status # "SHIPPED"
    BY <1>1 DEF GoodsInv, StandingInv, Standing
<1>3. f \in Fulfillment(o) /\ order[o] \in Order(o) /\ order[o].qtyShipped[l] = Min({q, a})
    BY <1>1, <1>2 DEF GoodsInv, Goods, Behind
<1>4. q \in Nat /\ a \in Nat /\ c \in Nat /\ a <= c
    BY <1>3, DemandsAreLines, LinesAreFinite, LeftAndPicked
<1>5. c <= q
    BY <1>1, <1>4 DEF OverGiven
<1>6. b = f.back[l] /\ f.back[l] = IF q >= c THEN q - c ELSE 0
  <2>1. b = f.back[l]
      BY <1>3, EachToItsLine
  <2>2. f.back[l] = IF q >= c THEN q - c ELSE 0
    <3>. HIDE DEF b
    <3>. QED
        BY <1>1, BackIs
  <2>. QED
      BY <2>1, <2>2
<1>. HIDE DEF f, q, a, b, c
<1>7. Min({q, a}) \in Nat /\ Min({q, a}) <= a
    BY <1>4, MinTwice
<1>8. order[o].qtyShipped[l] + b <= q
    BY <1>3, <1>4, <1>5, <1>6, <1>7
<1>. QED
    BY <1>8 DEF f, q, b

AllShippedStay == \A o \in Orders : Confirmed(o) => ShippedStaysShipped(o)

(* Where nothing has left, nothing can return.                             *)
LEMMA UntouchedStays ==
    ASSUME GoodsInv, NEW q \in Orders, Confirmed(q),
           fulfillment'[q].status = fulfillment[q].status,
           fulfillment'[q].alloc = fulfillment[q].alloc,
           fulfillment'[q].shipped = fulfillment[q].shipped, order'[q] = order[q]
    PROVE  ShippedStaysShipped(q)
<1>1. fulfillment[q] \in Fulfillment(q) /\ order[q] \in Order(q)
    BY DEF GoodsInv, Goods
<1>2. \A l \in LinesIn(q) : order[q].qtyShipped[l] \in Int
    BY <1>1 DEF Order
<1>3. \A l \in LinesIn(q), w \in fulfillment[q].shipped : fulfillment[q].alloc[w][l] \in Int
    BY <1>1 DEF Fulfillment
<1>. QED
    BY <1>2, <1>3 DEF ShippedStaysShipped

(* Where nothing has left, nothing that has left changes.                  *)
LEMMA ReplansKeepShipped ==
    ASSUME GoodsInv, NEW o \in Orders, Replans(o)
    PROVE  AllShippedStay
<1>. SUFFICES ASSUME NEW q \in Orders, Confirmed(q) PROVE ShippedStaysShipped(q)
    BY DEF AllShippedStay
<1>1. CASE q # o
    BY <1>1, UntouchedStays DEF Replans
<1>2. CASE q = o
  <2>1. /\ fulfillment[o].status # "SHIPPED" /\ fulfillment[o].shipped = {} /\ order'[o] = order[o]
      BY DEF Replans
  <2>2. \A l \in LinesIn(o) : order[o].qtyShipped[l] \in Int
      BY <1>2 DEF GoodsInv, Goods, Order
  <2>. QED
      BY <1>2, <2>1, <2>2 DEF ShippedStaysShipped
<1>. QED
    BY <1>1, <1>2

(* Goods that are sent only add to what has left.                          *)
LEMMA SendsKeepShipped ==
    ASSUME GoodsInv, NEW o \in Orders, NEW sent, Sends(o, sent)
    PROVE  AllShippedStay
<1>. SUFFICES ASSUME NEW q \in Orders, Confirmed(q) PROVE ShippedStaysShipped(q)
    BY DEF AllShippedStay
<1>1. CASE q # o
    BY <1>1, UntouchedStays DEF Sends
<1>2. CASE q = o
  <2>1. fulfillment[o] \in Fulfillment(o)
      BY <1>2 DEF GoodsInv, Goods
  <2>2. fulfillment[o].shipped \subseteq Sites
      BY <2>1 DEF Fulfillment
  <2>. QED
      BY <1>2, <2>2 DEF ShippedStaysShipped, Sends
<1>. QED
    BY <1>1, <1>2

(* fulfillment.routes.ts:408, "physical stock leaves, the order line's     *)
(* qtyShipped moves": outside stock counts every unit that leaves a        *)
(* warehouse is shipped to an order line, and what is shipped stays so,    *)
(* while no override gave a line more than was ordered and no order names  *)
(* a product twice.                                                        *)
THEOREM ShippedIsForGood ==
    ASSUME ProductsOnce PROVE Spec => ShippingIsFinal
<1>. DEFINE A == UnitsAreKept /\ \A o \in Orders : Confirmed(o) => ShippedStaysShipped(o)
<1>1. ASSUME GoodsInv, Next PROVE A
  <2>1. AllShippedStay /\ UnitsAreKept => A
      BY DEF AllShippedStay
  <2>2. ASSUME NEW o \in Orders, Confirm(o) PROVE A
    <3>1. UnitsAreKept
        BY <1>1, <2>2, ConfirmKeepsUnits DEF UnitsAreKept
    <3>2. \A q \in Orders : Confirmed(q) => ShippedStaysShipped(q)
        BY <1>1, <2>2, ConfirmKeepsUnits, UntouchedStays
    <3>. QED
        BY <3>1, <3>2
  <2>3. ASSUME NEW o \in Orders, Replans(o) PROVE A
    <3>1. UnitsAreKept /\ AllShippedStay
        BY <1>1, <2>3, ReplansKeepUnits, ReplansKeepShipped DEF UnitsAreKept
    <3>. QED
        BY <2>1, <3>1
  <2>4. ASSUME NEW o \in Orders, Ship(o) PROVE A
    <3>1. Sends(o, Unshipped(fulfillment[o]))
        BY <1>1, <2>4, ShipKeepsGoods
    <3>2. AllShippedStay
        BY <1>1, <3>1, SendsKeepShipped
    <3>3. ~OverGiven(o) => \A p \in Products : UnitsOf(p)' = UnitsOf(p)
        BY <1>1, <2>4, <3>1, ShipFits, SendsKeepUnits
    <3>. QED
        BY <2>1, <3>2, <3>3 DEF UnitsAreKept
  <2>5. ASSUME NEW o \in Orders, NEW source \in [Waiting(fulfillment[o].back) -> Sites], Consolidate(o, source)
        PROVE  A
    <3>1. Sends(o, Consolidation(o, fulfillment[o], source))
        BY <1>1, <2>5, ConsolidateKeepsGoods
    <3>2. AllShippedStay
        BY <1>1, <3>1, SendsKeepShipped
    <3>3. ~OverGiven(o) => \A p \in Products : UnitsOf(p)' = UnitsOf(p)
        BY <1>1, <2>5, <3>1, ConsolidationFits, SendsKeepUnits
    <3>. QED
        BY <2>1, <3>2, <3>3 DEF UnitsAreKept
  <2>6. ASSUME NEW w \in Sites, NEW p \in Products, NEW delta \in Deltas, Adjust(w, p, delta) PROVE A
    <3>1. UnitsAreKept
        BY <2>6 DEF UnitsAreKept
    <3>2. \A q \in Orders : Confirmed(q) => ShippedStaysShipped(q)
        BY <1>1, <2>6, AdjustKeepsGoods, UntouchedStays
    <3>. QED
        BY <3>1, <3>2
  <2>7. ASSUME NEW o \in Orders, Plan(o) \/ Accept(o) PROVE Replans(o)
      BY <1>1, <2>7, PlanReplans, AcceptReplans
  <2>8. ASSUME NEW o \in Orders, NEW alloc \in OverrideRequests(o), Override(o, alloc) PROVE Replans(o)
      BY <1>1, <2>8, OverrideReplans, RequestsAreAllocations
  <2>. HIDE DEF A
  <2>. QED
      BY <1>1, <2>2, <2>3, <2>4, <2>5, <2>6, <2>7, <2>8 DEF Next
<1>2. GoodsInv /\ [Next]_vars => [A]_vars
    BY <1>1
<1>. QED
    BY <1>2, GoodsAreAccountedFor, PTL DEF Spec, ShippingIsFinal
=============================================================================
