---------------------------- MODULE DispatcherProofs ----------------------------
(***************************************************************************)
(* Dispatcher is proved for every number of tokens and inputs: the types,  *)
(* that no token is lost, and that each has the fate TeX gives it.         *)
(*                                                                         *)
(* Reached places the pieces: which input each belongs to, and which piece *)
(* entered an open input.  Structure says that the reader's two stacks,    *)
(* and the scan, stand for the text the pieces spell.  The first part of   *)
(* the module says how that text's structure changes with one more token.  *)
(***************************************************************************)
EXTENDS Dispatcher, FiniteSetTheorems, SequenceTheorems, TLAPS

LEMMA SubTop ==
  ASSUME NEW S, NEW st \in Seq(S), NEW m \in 0..Len(st)
  PROVE  /\ SubSeq(st, 1, m) \in Seq(S) /\ Len(SubSeq(st, 1, m)) = m
         /\ \A k \in 1..m : SubSeq(st, 1, m)[k] = st[k]
OBVIOUS

LEMMA InInterval ==
  ASSUME NEW l \in Nat, NEW k \in 1..l
  PROVE  (k = l \/ k < l) /\ (k < l => k \in 1..(l - 1)) /\ k \in Nat \ {0}
OBVIOUS

LEMMA AppendParts ==
  ASSUME NEW S, NEW st \in Seq(S), NEW e \in S
  PROVE  /\ Append(st, e) \in Seq(S) /\ Len(Append(st, e)) = Len(st) + 1
         /\ \A k \in 1..Len(st) : Append(st, e)[k] = st[k]
         /\ Append(st, e)[Len(st) + 1] = e
OBVIOUS

LEMMA CountedFinite ==
  ASSUME NEW S, NEW a \in Int, NEW b \in Int
  PROVE  IsFiniteSet(S \cap (a..b)) /\ Cardinality(S \cap (a..b)) \in Nat
BY FS_Interval, FS_Intersection, FS_CardinalityType

LEMMA BalanceInt ==
  ASSUME NEW U, NEW D, NEW a \in Int, NEW b \in Int
  PROVE  Balance(U, D, a, b) \in Int
PROOF
  <1>1. Cardinality(U \cap (a..b)) \in Nat
    BY CountedFinite
  <1>2. Cardinality(D \cap (a..b)) \in Nat
    BY CountedFinite
  <1>3. QED BY <1>1, <1>2 DEF Balance

(* Two pairs of sets that agree up to a position have the same balance. *)
LEMMA BalanceSame ==
  ASSUME NEW U, NEW D, NEW U2, NEW D2, NEW a \in Int, NEW b \in Int,
         U \cap (a..b) = U2 \cap (a..b), D \cap (a..b) = D2 \cap (a..b)
  PROVE  Balance(U2, D2, a, b) = Balance(U, D, a, b)
BY DEF Balance

LEMMA CountStep ==
  ASSUME NEW S, NEW a \in Int, NEW n \in Int, a <= n + 1
  PROVE  Cardinality(S \cap (a..(n + 1))) =
           Cardinality(S \cap (a..n)) + (IF n + 1 \in S THEN 1 ELSE 0)
PROOF
  <1>1. IsFiniteSet(S \cap (a..n)) /\ Cardinality(S \cap (a..n)) \in Nat
    BY CountedFinite
  <1>2. CASE n + 1 \in S
    <2>1. S \cap (a..(n + 1)) = (S \cap (a..n)) \cup {n + 1}
      BY <1>2
    <2>2. n + 1 \notin S \cap (a..n)
      OBVIOUS
    <2>3. QED BY <1>1, <1>2, <2>1, <2>2, FS_AddElement
  <1>3. CASE n + 1 \notin S
    <2>1. S \cap (a..(n + 1)) = S \cap (a..n)
      BY <1>3
    <2>2. QED BY <1>1, <1>3, <2>1
  <1>4. QED BY <1>2, <1>3

LEMMA BalanceStep ==
  ASSUME NEW U, NEW D, NEW a \in Int, NEW n \in Int, a <= n + 1
  PROVE  Balance(U, D, a, n + 1) =
           Balance(U, D, a, n) + (IF n + 1 \in U THEN 1 ELSE 0) - (IF n + 1 \in D THEN 1 ELSE 0)
PROOF
  <1>1. Cardinality(U \cap (a..n)) \in Nat
    BY CountedFinite
  <1>2. Cardinality(D \cap (a..n)) \in Nat
    BY CountedFinite
  <1>3. Cardinality(U \cap (a..(n + 1))) = Cardinality(U \cap (a..n)) + (IF n + 1 \in U THEN 1 ELSE 0)
    BY CountStep
  <1>4. Cardinality(D \cap (a..(n + 1))) = Cardinality(D \cap (a..n)) + (IF n + 1 \in D THEN 1 ELSE 0)
    BY CountStep
  <1>5. QED BY <1>1, <1>2, <1>3, <1>4 DEF Balance

LEMMA BalanceEmpty ==
  ASSUME NEW U, NEW D, NEW a \in Int, NEW b \in Int, b < a
  PROVE  Balance(U, D, a, b) = 0
PROOF
  <1>1. a..b = {}
    OBVIOUS
  <1>2. Cardinality({}) = 0
    BY FS_EmptySet
  <1>3. U \cap (a..b) = {} /\ D \cap (a..b) = {}
    BY <1>1
  <1>4. QED BY <1>2, <1>3 DEF Balance

(* The balance of a single position. *)
LEMMA BalanceOne ==
  ASSUME NEW U, NEW D, NEW n \in Int
  PROVE  Balance(U, D, n, n) = (IF n \in U THEN 1 ELSE 0) - (IF n \in D THEN 1 ELSE 0)
PROOF
  <1>1. Balance(U, D, n, n - 1) = 0
    BY BalanceEmpty
  <1>2. Balance(U, D, n, (n - 1) + 1) =
          Balance(U, D, n, n - 1) + (IF (n - 1) + 1 \in U THEN 1 ELSE 0) - (IF (n - 1) + 1 \in D THEN 1 ELSE 0)
    BY BalanceStep
  <1>3. (n - 1) + 1 = n
    OBVIOUS
  <1>4. QED BY <1>1, <1>2, <1>3

-----------------------------------------------------------------------------
(* Sets of positions that agree up to n. *)
AgreeUpTo(U, U2, n) == U \cap (1..n) = U2 \cap (1..n)

Positions(U) == U \in SUBSET (Nat \ {0})

LEMMA StillOpenSame ==
  ASSUME NEW U, NEW D, NEW U2, NEW D2, Positions(U), Positions(U2), NEW n \in Nat,
         AgreeUpTo(U, U2, n), AgreeUpTo(D, D2, n), NEW i \in 1..(n + 1)
  PROVE  StillOpen(U2, D2, i) = StillOpen(U, D, i)
PROOF
  <1>1. \A c \in 1..n, j \in 1..n : Balance(U2, D2, c, j) = Balance(U, D, c, j)
    <2>1. TAKE c \in 1..n, j \in 1..n
    <2>2. U \cap (c..j) = U2 \cap (c..j) /\ D \cap (c..j) = D2 \cap (c..j)
      BY DEF AgreeUpTo
    <2>3. QED BY <2>2, BalanceSame
  <1>2. \A c \in 1..n : c \in U <=> c \in U2
    BY DEF AgreeUpTo
  <1>3. \A c \in U \cup U2 : c < i => c \in 1..n
    BY DEF Positions
  <1>4. \A c \in 1..n : \A j \in c..(i - 1) : j \in 1..n
    OBVIOUS
  <1>5. QED BY <1>1, <1>2, <1>3, <1>4 DEF StillOpen

(* One more position: what stays open, and whether the new one does. *)
LEMMA StillOpenStep ==
  ASSUME NEW U, NEW D, Positions(U), Positions(D), NEW n \in Nat, n + 1 \in U => n + 1 \notin D
  PROVE  StillOpen(U, D, n + 2) =
           { c \in StillOpen(U, D, n + 1) : Balance(U, D, c, n + 1) >= 1 }
             \cup (IF n + 1 \in U THEN {n + 1} ELSE {})
PROOF
  <1>1. Balance(U, D, n + 1, n + 1) = (IF n + 1 \in U THEN 1 ELSE 0) - (IF n + 1 \in D THEN 1 ELSE 0)
    BY BalanceOne
  <1>2. ASSUME NEW c \in U, c < n + 1
        PROVE  c \in StillOpen(U, D, n + 2) <=>
                 c \in StillOpen(U, D, n + 1) /\ Balance(U, D, c, n + 1) >= 1
    <2>1. c \in Int /\ (n + 2) - 1 = n + 1 /\ (n + 1) - 1 = n
      BY DEF Positions
    <2>2. c..(n + 1) = (c..n) \cup {n + 1}
      BY <1>2, <2>1
    <2>3. QED BY <1>2, <2>1, <2>2 DEF StillOpen
  <1>3. n + 1 \in StillOpen(U, D, n + 2) <=> n + 1 \in U
    <2>1. (n + 1)..((n + 2) - 1) = {n + 1}
      OBVIOUS
    <2>2. QED BY <1>1, <2>1 DEF StillOpen
  <1>4. \A c \in StillOpen(U, D, n + 2) : c \in U /\ c \in Int /\ (c < n + 1 \/ c = n + 1)
    BY DEF StillOpen, Positions
  <1>5. \A c \in StillOpen(U, D, n + 1) : c \in U /\ c < n + 1
    BY DEF StillOpen
  <1>6. QED BY <1>2, <1>3, <1>4, <1>5

LEMMA StillOpenPosition ==
  ASSUME NEW U, NEW D, Positions(U), NEW n \in Nat, NEW c \in StillOpen(U, D, n + 1)
  PROVE  c \in 1..n /\ c \in U
BY DEF StillOpen, Positions

-----------------------------------------------------------------------------
(* The positions that are open after n, in their order: each is answered   *)
(* by as many downs as there are positions from it to the top.             *)
IsStack(st, U, D, n) ==
  /\ st \in Seq(Nat)
  /\ { st[k] : k \in 1..Len(st) } = StillOpen(U, D, n + 1)
  /\ \A j, k \in 1..Len(st) : j < k => st[j] < st[k]
  /\ \A k \in 1..Len(st) : Balance(U, D, st[k], n) = Len(st) - k + 1

LEMMA StackSame ==
  ASSUME NEW U, NEW D, NEW U2, NEW D2, Positions(U), Positions(U2), NEW n \in Nat,
         AgreeUpTo(U, U2, n), AgreeUpTo(D, D2, n), NEW st, IsStack(st, U, D, n)
  PROVE  IsStack(st, U2, D2, n)
PROOF
  <1>1. StillOpen(U2, D2, n + 1) = StillOpen(U, D, n + 1)
    BY StillOpenSame
  <1>2. \A k \in 1..Len(st) : Balance(U2, D2, st[k], n) = Balance(U, D, st[k], n)
    <2>1. TAKE k \in 1..Len(st)
    <2>2. st[k] \in 1..n
      <3>1. st[k] \in StillOpen(U, D, n + 1)
        BY DEF IsStack
      <3>2. QED BY <3>1, StillOpenPosition
    <2>3. U \cap (st[k]..n) = U2 \cap (st[k]..n) /\ D \cap (st[k]..n) = D2 \cap (st[k]..n)
      BY <2>2 DEF AgreeUpTo
    <2>4. QED BY <2>2, <2>3, BalanceSame
  <1>3. QED BY <1>1, <1>2 DEF IsStack

(* Neither up nor down: nothing changes. *)
LEMMA StackNeutral ==
  ASSUME NEW U, NEW D, Positions(U), Positions(D), NEW n \in Nat, n + 1 \notin U, n + 1 \notin D,
         NEW st, IsStack(st, U, D, n)
  PROVE  IsStack(st, U, D, n + 1)
PROOF
  <1>1. \A c \in StillOpen(U, D, n + 1) : c \in 1..n /\ Balance(U, D, c, n + 1) = Balance(U, D, c, n)
    <2>1. TAKE c \in StillOpen(U, D, n + 1)
    <2>2. c \in 1..n
      BY DEF StillOpen, Positions
    <2>3. Balance(U, D, c, n) \in Int
      BY <2>2, BalanceInt
    <2>4. QED BY <2>2, <2>3, BalanceStep
  <1>2. \A k \in 1..Len(st) : st[k] \in StillOpen(U, D, n + 1)
    BY DEF IsStack
  <1>3. \A c \in StillOpen(U, D, n + 1) : \E k \in 1..Len(st) : st[k] = c
    BY DEF IsStack
  <1>4. \A k \in 1..Len(st) : Len(st) - k + 1 >= 1
    BY DEF IsStack
  <1>5. \A c \in StillOpen(U, D, n + 1) : Balance(U, D, c, n + 1) >= 1
    BY <1>1, <1>2, <1>3, <1>4 DEF IsStack
  <1>6. StillOpen(U, D, (n + 1) + 1) = StillOpen(U, D, n + 1)
    <2>1. StillOpen(U, D, n + 2) = { c \in StillOpen(U, D, n + 1) : Balance(U, D, c, n + 1) >= 1 } \cup {}
      BY StillOpenStep
    <2>2. (n + 1) + 1 = n + 2
      OBVIOUS
    <2>3. QED BY <1>5, <2>1, <2>2
  <1>7. QED BY <1>1, <1>2, <1>6 DEF IsStack

(* An up is pushed. *)
LEMMA StackPush ==
  ASSUME NEW U, NEW D, Positions(U), Positions(D), NEW n \in Nat, n + 1 \in U, n + 1 \notin D,
         NEW st, IsStack(st, U, D, n)
  PROVE  IsStack(Append(st, n + 1), U, D, n + 1)
PROOF
  <1> DEFINE st2 == Append(st, n + 1)
  <1>1. \A c \in StillOpen(U, D, n + 1) : c \in 1..n /\ Balance(U, D, c, n + 1) = Balance(U, D, c, n) + 1
    <2>1. TAKE c \in StillOpen(U, D, n + 1)
    <2>2. c \in 1..n
      BY DEF StillOpen, Positions
    <2>3. Balance(U, D, c, n) \in Int
      BY <2>2, BalanceInt
    <2>4. QED BY <2>2, <2>3, BalanceStep
  <1>2. /\ st2 \in Seq(Nat) /\ Len(st2) = Len(st) + 1 /\ st2[Len(st) + 1] = n + 1
        /\ \A k \in 1..Len(st) : st2[k] = st[k]
    BY DEF IsStack
  <1>3. \A k \in 1..Len(st) : st[k] \in StillOpen(U, D, n + 1)
    BY DEF IsStack
  <1>4. \A c \in StillOpen(U, D, n + 1) : Balance(U, D, c, n + 1) >= 1
    <2>1. \A k \in 1..Len(st) : Balance(U, D, st[k], n + 1) >= 1
      BY <1>1, <1>3 DEF IsStack
    <2>2. QED BY <2>1 DEF IsStack
  <1>5. StillOpen(U, D, (n + 1) + 1) = StillOpen(U, D, n + 1) \cup {n + 1}
    <2>1. StillOpen(U, D, n + 2) =
            { c \in StillOpen(U, D, n + 1) : Balance(U, D, c, n + 1) >= 1 } \cup {n + 1}
      BY StillOpenStep
    <2>2. (n + 1) + 1 = n + 2
      OBVIOUS
    <2>3. QED BY <1>4, <2>1, <2>2
  <1>6. { st2[k] : k \in 1..Len(st2) } = { st[k] : k \in 1..Len(st) } \cup {n + 1}
    <2>1. Len(st) \in Nat
      BY DEF IsStack
    <2>2. 1..Len(st2) = (1..Len(st)) \cup {Len(st) + 1}
      BY <1>2, <2>1
    <2>3. \A k \in 1..Len(st) : st2[k] = st[k]
      BY <1>2
    <2>4. st2[Len(st) + 1] = n + 1
      BY <1>2
    <2> HIDE DEF st2
    <2>5. QED BY <2>2, <2>3, <2>4
  <1>7. Balance(U, D, n + 1, n + 1) = 1
    BY BalanceOne
  <1>8. \A k \in 1..Len(st2) : Balance(U, D, st2[k], n + 1) = Len(st2) - k + 1
    <2>1. TAKE k \in 1..Len(st2)
    <2>2. CASE k = Len(st2)
      BY <1>2, <1>7, <2>2
    <2>3. CASE k \in 1..Len(st)
      BY <1>1, <1>2, <1>3, <2>3 DEF IsStack
    <2>4. QED BY <1>2, <2>2, <2>3
  <1>9. \A j, k \in 1..Len(st2) : j < k => st2[j] < st2[k]
    <2>1. TAKE j, k \in 1..Len(st2)
    <2>2. HAVE j < k
    <2>3. j \in 1..Len(st) /\ st2[j] = st[j] /\ st[j] \in 1..n
      BY <1>1, <1>2, <1>3, <2>2
    <2>4. CASE k = Len(st) + 1
      BY <1>2, <2>3, <2>4
    <2>5. CASE k \in 1..Len(st)
      BY <1>2, <2>2, <2>3, <2>5 DEF IsStack
    <2>6. QED BY <1>2, <2>4, <2>5
  <1>10. QED BY <1>2, <1>5, <1>6, <1>8, <1>9 DEF IsStack

(* A down answers the top of the stack, if there is one. *)
LEMMA StackPop ==
  ASSUME NEW U, NEW D, Positions(U), Positions(D), NEW n \in Nat, n + 1 \notin U, n + 1 \in D,
         NEW st, IsStack(st, U, D, n), st # <<>>
  PROVE  IsStack(SubSeq(st, 1, Len(st) - 1), U, D, n + 1)
PROOF
  <1> DEFINE st2 == SubSeq(st, 1, Len(st) - 1)
  <1>0. Len(st) \in Nat \ {0}
    BY DEF IsStack
  <1>1. \A k \in 1..Len(st) : st[k] \in 1..n /\ st[k] \in StillOpen(U, D, n + 1)
    <2>1. \A k \in 1..Len(st) : st[k] \in StillOpen(U, D, n + 1)
      BY DEF IsStack
    <2>2. \A c \in StillOpen(U, D, n + 1) : c \in Nat \ {0} /\ c < n + 1
      BY DEF StillOpen, Positions
    <2>3. \A c \in Nat \ {0} : c < n + 1 => c \in 1..n
      OBVIOUS
    <2>4. QED BY <2>1, <2>2, <2>3
  <1>2. \A k \in 1..Len(st) : Balance(U, D, st[k], n + 1) = Len(st) - k
    <2>1. TAKE k \in 1..Len(st)
    <2>2. Balance(U, D, st[k], n) = Len(st) - k + 1
      BY DEF IsStack
    <2>3. QED BY <1>0, <1>1, <2>2, BalanceStep
  <1>3. /\ st2 \in Seq(Nat) /\ Len(st2) = Len(st) - 1
        /\ \A k \in 1..Len(st2) : st2[k] = st[k]
    <2>1. st \in Seq(Nat)
      BY DEF IsStack
    <2>2. Len(st) - 1 \in 0..Len(st)
      BY <1>0
    <2>3. QED BY <2>1, <2>2, SubTop
  <1>4. { st2[k] : k \in 1..Len(st2) } = StillOpen(U, D, (n + 1) + 1)
    <2>1. StillOpen(U, D, (n + 1) + 1) = { c \in StillOpen(U, D, n + 1) : Balance(U, D, c, n + 1) >= 1 }
      <3>1. StillOpen(U, D, n + 2) = { c \in StillOpen(U, D, n + 1) : Balance(U, D, c, n + 1) >= 1 } \cup {}
        BY StillOpenStep
      <3>2. (n + 1) + 1 = n + 2
        OBVIOUS
      <3>3. QED BY <3>1, <3>2
    <2>2. ASSUME NEW c \in StillOpen(U, D, n + 1), Balance(U, D, c, n + 1) >= 1
          PROVE  \E k \in 1..Len(st2) : st2[k] = c
      <3>1. PICK k \in 1..Len(st) : st[k] = c
        BY DEF IsStack
      <3>2. k \in 1..Len(st2)
        BY <1>0, <1>2, <1>3, <2>2, <3>1
      <3>3. QED BY <1>3, <3>1, <3>2
    <2>3. \A k \in 1..Len(st2) : /\ st2[k] \in StillOpen(U, D, n + 1)
                                 /\ Balance(U, D, st2[k], n + 1) >= 1
      <3>1. PICK l \in Nat \ {0} : l = Len(st)
        BY <1>0
      <3>2. \A k \in 1..(l - 1) : k \in 1..l /\ l - k >= 1
        OBVIOUS
      <3>3. \A k \in 1..(l - 1) : st2[k] = st[k]
        BY <1>3, <3>1
      <3>4. \A k \in 1..(l - 1) : /\ st2[k] \in StillOpen(U, D, n + 1)
                                 /\ Balance(U, D, st2[k], n + 1) = l - k
        BY <1>1, <1>2, <3>1, <3>2, <3>3
      <3>5. Len(st2) = l - 1
        BY <1>3, <3>1
      <3>6. QED BY <3>2, <3>4, <3>5
    <2>4. QED BY <2>1, <2>2, <2>3
  <1>5. \A k \in 1..Len(st2) : Balance(U, D, st2[k], n + 1) = Len(st2) - k + 1
    BY <1>0, <1>2, <1>3
  <1>6. \A j, k \in 1..Len(st2) : j < k => st2[j] < st2[k]
    <2>1. \A k \in 1..Len(st2) : k \in 1..Len(st) /\ st2[k] = st[k]
      BY <1>0, <1>3
    <2>2. QED BY <2>1 DEF IsStack
  <1>7. QED BY <1>3, <1>4, <1>5, <1>6 DEF IsStack

(* The depth of the stack is the number of the open positions, and a       *)
(* position's place in it is its rank among them.                          *)
LEMMA StackCounts ==
  ASSUME NEW U, NEW D, NEW n \in Nat, NEW st, IsStack(st, U, D, n)
  PROVE  /\ IsFiniteSet(StillOpen(U, D, n + 1))
         /\ Cardinality(StillOpen(U, D, n + 1)) = Len(st)
         /\ \A k \in 1..Len(st) : Cardinality({ h \in StillOpen(U, D, n + 1) : h <= st[k] }) = k
PROOF
  <1>0. Len(st) \in Nat /\ \A k \in 1..Len(st) : st[k] \in Nat
    BY DEF IsStack
  <1>5. \A j, k \in 1..Len(st) : j < k => st[j] < st[k]
    BY DEF IsStack
  <1>1. ASSUME NEW m \in 0..Len(st)
        PROVE  /\ IsFiniteSet({ st[k] : k \in 1..m })
               /\ Cardinality({ st[k] : k \in 1..m }) = m
    <2> DEFINE f == [k \in 1..m |-> st[k]]
               S == { st[k] : k \in 1..m }
    <2>1. f \in Bijection(1..m, S)
      <3>1. f \in [1..m -> S]
        OBVIOUS
      <3>2. \A x \in S : \E k \in 1..m : f[k] = x
        OBVIOUS
      <3>3. \A j, k \in 1..m : f[j] = f[k] => j = k
        <4>1. TAKE j, k \in 1..m
        <4>2. HAVE f[j] = f[k]
        <4>3. j \in 1..Len(st) /\ k \in 1..Len(st) /\ st[j] = st[k]
          BY <1>0, <4>2
        <4>4. st[j] \in Nat /\ st[k] \in Nat
          BY <1>0, <4>3
        <4>5. ~(j < k) /\ ~(k < j)
          BY <1>5, <4>3, <4>4
        <4>6. QED BY <1>0, <4>5
      <3>4. QED BY <3>1, <3>2, <3>3 DEF Bijection, Injection, Surjection, IsInjective
    <2>2. ExistsBijection(1..m, S)
      BY <2>1 DEF ExistsBijection
    <2>3. m \in Nat
      BY <1>0
    <2>4. QED BY <2>2, <2>3, FS_NatBijection, FS_CountingElements
  <1>2. StillOpen(U, D, n + 1) = { st[k] : k \in 1..Len(st) }
    BY DEF IsStack
  <1>3. ASSUME NEW k \in 1..Len(st)
        PROVE  { h \in StillOpen(U, D, n + 1) : h <= st[k] } = { st[j] : j \in 1..k }
    <2>1. ASSUME NEW j \in 1..Len(st)
          PROVE  st[j] <= st[k] <=> j \in 1..k
      <3>1. st[j] \in Nat /\ st[k] \in Nat
        BY <1>0
      <3>2. j < k => st[j] < st[k]
        BY <1>5
      <3>3. k < j => st[k] < st[j]
        BY <1>5
      <3>4. QED BY <1>0, <3>1, <3>2, <3>3
    <2>2. 1..k \subseteq 1..Len(st)
      BY <1>0
    <2>3. QED BY <1>2, <2>1, <2>2
  <1>4. IsFiniteSet(StillOpen(U, D, n + 1)) /\ Cardinality(StillOpen(U, D, n + 1)) = Len(st)
    <2>1. Len(st) \in 0..Len(st)
      BY <1>0
    <2>2. QED BY <1>1, <1>2, <2>1
  <1>6. \A k \in 1..Len(st) : Cardinality({ h \in StillOpen(U, D, n + 1) : h <= st[k] }) = k
    <2>1. TAKE k \in 1..Len(st)
    <2>2. { h \in StillOpen(U, D, n + 1) : h <= st[k] } = { st[j] : j \in 1..k }
      BY <1>3
    <2>3. k \in 0..Len(st)
      BY <1>0
    <2>4. QED BY <1>1, <2>2, <2>3
  <1>7. QED BY <1>4, <1>6

(***************************************************************************)
(* A text and its continuations: what SelectedText says of a position is   *)
(* told by the tokens up to it.                                            *)
(***************************************************************************)
IsText(s) ==
  /\ Len(s) \in Nat /\ DOMAIN s = 1..Len(s)
  /\ \A i \in 1..Len(s) : s[i].index \in Int

Continues(u, s) == Len(s) <= Len(u) /\ \A i \in 1..Len(s) : u[i] = s[i]

LEMMA TextPositions ==
  ASSUME NEW s, IsText(s)
  PROVE  /\ Positions(Ifs(s)) /\ Positions(Fis(s)) /\ \A r : Positions(Executed(s, r))
         /\ Ifs(s) \subseteq 1..Len(s) /\ Ifs(s) \cap Fis(s) = {}
BY DEF IsText, Positions, Ifs, Fis, Executed, Openers

LEMMA EnclosingPosition ==
  ASSUME NEW s, IsText(s), NEW i \in Int, NEW c \in Enclosing(s, i)
  PROVE  c \in 1..Len(s) /\ c < i /\ s[c].role \in Openers
BY DEF IsText, Enclosing, StillOpen, Ifs

LEMMA IfsAgree ==
  ASSUME NEW s, NEW u, IsText(s), IsText(u), Continues(u, s)
  PROVE  AgreeUpTo(Ifs(s), Ifs(u), Len(s)) /\ AgreeUpTo(Fis(s), Fis(u), Len(s))
PROOF
  <1>1. \A i \in 1..Len(s) : i \in DOMAIN s /\ i \in DOMAIN u /\ u[i] = s[i]
    BY DEF IsText, Continues
  <1>2. QED BY <1>1 DEF AgreeUpTo, Ifs, Fis

LEMMA EnclosingSame ==
  ASSUME NEW s, NEW u, IsText(s), IsText(u), Continues(u, s), NEW i \in 1..(Len(s) + 1)
  PROVE  Enclosing(u, i) = Enclosing(s, i)
PROOF
  <1>1. Len(s) \in Nat
    BY DEF IsText
  <1>2. AgreeUpTo(Ifs(s), Ifs(u), Len(s)) /\ AgreeUpTo(Fis(s), Fis(u), Len(s))
    BY IfsAgree
  <1>3. Positions(Ifs(s)) /\ Positions(Ifs(u))
    BY TextPositions
  <1>4. StillOpen(Ifs(u), Fis(u), i) = StillOpen(Ifs(s), Fis(s), i)
    BY <1>1, <1>2, <1>3, StillOpenSame
  <1>5. QED BY <1>4 DEF Enclosing

LEMMA TextBalanceSame ==
  ASSUME NEW s, NEW u, IsText(s), IsText(u), Continues(u, s), NEW c \in 1..Len(s), NEW i \in 1..Len(s)
  PROVE  Balance(Ifs(u), Fis(u), c, i) = Balance(Ifs(s), Fis(s), c, i)
PROOF
  <1>1. Len(s) \in Nat
    BY DEF IsText
  <1>2. AgreeUpTo(Ifs(s), Ifs(u), Len(s)) /\ AgreeUpTo(Fis(s), Fis(u), Len(s))
    BY IfsAgree
  <1>3. Ifs(s) \cap (c..i) = Ifs(u) \cap (c..i) /\ Fis(s) \cap (c..i) = Fis(u) \cap (c..i)
    BY <1>1, <1>2 DEF AgreeUpTo
  <1>4. QED BY <1>1, <1>3, BalanceSame

LEMMA OwnSame ==
  ASSUME NEW s, NEW u, IsText(s), IsText(u), Continues(u, s), NEW c \in 1..Len(s),
         NEW i \in 1..(Len(s) + 1)
  PROVE  Own(u, c, i) = Own(s, c, i)
PROOF
  <1>1. Len(s) \in Nat
    BY DEF IsText
  <1>2. ASSUME NEW d \in (c + 1)..(i - 1)
        PROVE  /\ u[d] = s[d] /\ Enclosing(u, d) = Enclosing(s, d)
               /\ Balance(Ifs(u), Fis(u), c, d) = Balance(Ifs(s), Fis(s), c, d)
    <2>1. d \in 1..Len(s)
      BY <1>1
    <2>2. u[d] = s[d]
      BY <2>1 DEF Continues
    <2>3. Enclosing(u, d) = Enclosing(s, d)
      BY <1>1, <2>1, EnclosingSame
    <2>4. QED BY <2>1, <2>2, <2>3, TextBalanceSame
  <1>3. QED BY <1>2 DEF Own

LEMMA OwnPosition ==
  ASSUME NEW s, NEW c \in Int, NEW i \in Int, NEW d \in Own(s, c, i)
  PROVE  d \in (c + 1)..(i - 1) /\ s[d].role \in Delimiters
BY DEF Own

LEMMA TakenSame ==
  ASSUME NEW s, NEW u, IsText(s), IsText(u), Continues(u, s), NEW c \in 1..Len(s),
         NEW i \in 1..(Len(s) + 1)
  PROVE  /\ Part(u, c, i) = Part(s, c, i)
         /\ \A p : Named(u, c, i, p) <=> Named(s, c, i, p)
         /\ \A p : Taken(u, c, i, p) <=> Taken(s, c, i, p)
PROOF
  <1>1. Len(s) \in Nat
    BY DEF IsText
  <1>2. Own(u, c, i) = Own(s, c, i) /\ Part(u, c, i) = Part(s, c, i)
    BY OwnSame DEF Part
  <1>3. ASSUME NEW d \in Own(s, c, i)
        PROVE  u[d] = s[d] /\ Part(u, c, d) = Part(s, c, d)
    <2>1. d \in 1..Len(s)
      BY <1>1, OwnPosition
    <2>2. Own(u, c, d) = Own(s, c, d)
      BY <1>1, <2>1, OwnSame
    <2>3. QED BY <2>1, <2>2 DEF Continues, Part
  <1>4. u[c] = s[c]
    BY DEF Continues
  <1>5. \A p : Named(u, c, i, p) <=> Named(s, c, i, p)
    BY <1>2, <1>3, <1>4 DEF Named
  <1>6. ASSUME NEW p
        PROVE  Taken(u, c, i, p) <=> Taken(s, c, i, p)
    <2>1. (\E d \in Own(u, c, i) : Part(u, c, d) = p - 1 /\ u[d].role = "else")
            <=> (\E d \in Own(s, c, i) : Part(s, c, d) = p - 1 /\ s[d].role = "else")
      BY <1>2, <1>3
    <2>2. QED BY <1>4, <1>5, <2>1 DEF Taken
  <1>7. QED BY <1>2, <1>5, <1>6

LEMMA SelectedSame ==
  ASSUME NEW s, NEW u, IsText(s), IsText(u), Continues(u, s), NEW i \in 1..(Len(s) + 1)
  PROVE  Selected(u, i) <=> Selected(s, i)
PROOF
  <1>1. Enclosing(u, i) = Enclosing(s, i)
    BY EnclosingSame
  <1>2. ASSUME NEW c \in Enclosing(s, i)
        PROVE  Taken(u, c, i, Part(u, c, i)) <=> Taken(s, c, i, Part(s, c, i))
    <2>1. c \in 1..Len(s)
      BY EnclosingPosition DEF IsText
    <2>2. QED BY <2>1, TakenSame
  <1>3. QED BY <1>1, <1>2 DEF Selected

LEMMA FateSame ==
  ASSUME NEW s, NEW u, IsText(s), IsText(u), Continues(u, s), NEW i \in 1..Len(s)
  PROVE  /\ Met(u, i) <=> Met(s, i)
         /\ Captured(u, i) <=> Captured(s, i)
         /\ Fate(u, i) = Fate(s, i)
PROOF
  <1>1. Len(s) \in Nat
    BY DEF IsText
  <1>2. Enclosing(u, i) = Enclosing(s, i) /\ Innermost(u, i) = Innermost(s, i) /\ u[i] = s[i]
    <2>1. Enclosing(u, i) = Enclosing(s, i)
      BY <1>1, EnclosingSame
    <2>2. QED BY <2>1 DEF Innermost, Continues
  <1>3. ASSUME NEW c \in Enclosing(s, i)
        PROVE  /\ c \in 1..Len(s) /\ u[c] = s[c]
               /\ Selected(u, c) <=> Selected(s, c)
               /\ Part(u, c, i) = Part(s, c, i)
               /\ \A p : Taken(u, c, i, p) <=> Taken(s, c, i, p)
    <2>1. c \in 1..Len(s)
      BY EnclosingPosition DEF IsText
    <2>2. Selected(u, c) <=> Selected(s, c)
      BY <1>1, <2>1, SelectedSame
    <2>3. /\ Part(u, c, i) = Part(s, c, i)
          /\ \A p : Taken(u, c, i, p) <=> Taken(s, c, i, p)
      BY <1>1, <2>1, TakenSame
    <2>4. QED BY <2>1, <2>2, <2>3 DEF Continues
  <1>4. Selected(u, i) <=> Selected(s, i)
    BY <1>1, SelectedSame
  <1>5. \A c \in Innermost(s, i) : c \in Enclosing(s, i)
    BY DEF Innermost, Latest
  <1>6. Met(u, i) <=> Met(s, i)
    BY <1>2, <1>3, <1>5 DEF Met
  <1>7. Captured(u, i) <=> Captured(s, i)
    BY <1>2, <1>3, <1>4 DEF Captured
  <1>8. QED BY <1>2, <1>4, <1>6, <1>7 DEF Fate

LEMMA ExecutedAgree ==
  ASSUME NEW s, NEW u, IsText(s), IsText(u), Continues(u, s), NEW r
  PROVE  AgreeUpTo(Executed(s, r), Executed(u, r), Len(s))
PROOF
  <1>1. \A i \in 1..Len(s) : i \in DOMAIN s /\ i \in DOMAIN u /\ u[i] = s[i] /\ Fate(u, i) = Fate(s, i)
    <2>1. TAKE i \in 1..Len(s)
    <2>2. i \in DOMAIN s /\ i \in DOMAIN u /\ u[i] = s[i]
      BY DEF IsText, Continues
    <2>3. QED BY <2>2, FateSame
  <1>2. QED BY <1>1 DEF AgreeUpTo, Executed

LEMMA OpenGroupsSame ==
  ASSUME NEW s, NEW u, IsText(s), IsText(u), Continues(u, s), NEW i \in 1..(Len(s) + 1)
  PROVE  OpenGroups(u, i) = OpenGroups(s, i)
PROOF
  <1>1. Len(s) \in Nat
    BY DEF IsText
  <1>2. AgreeUpTo(Executed(s, "open"), Executed(u, "open"), Len(s))
    BY ExecutedAgree
  <1>3. AgreeUpTo(Executed(s, "close"), Executed(u, "close"), Len(s))
    BY ExecutedAgree
  <1>4. Positions(Executed(s, "open")) /\ Positions(Executed(u, "open"))
    BY TextPositions
  <1>5. QED BY <1>1, <1>2, <1>3, <1>4, StillOpenSame DEF OpenGroups

LEMMA RefusedSame ==
  ASSUME NEW s, NEW u, IsText(s), IsText(u), Continues(u, s), NEW i \in 1..Len(s)
  PROVE  Refused(u, i) <=> Refused(s, i)
PROOF
  <1>1. Len(s) \in Nat /\ i \in 1..(Len(s) + 1)
    BY DEF IsText
  <1>2. u[i] = s[i]
    BY DEF Continues
  <1>3. Enclosing(u, i) = Enclosing(s, i) /\ Innermost(u, i) = Innermost(s, i)
    BY <1>1, EnclosingSame DEF Innermost
  <1>4. Fate(u, i) = Fate(s, i)
    BY FateSame
  <1>5. Unanswered(u, i) <=> Unanswered(s, i)
    <2>1. OpenGroups(u, i) = OpenGroups(s, i)
      BY <1>1, OpenGroupsSame
    <2>2. \A g \in OpenGroups(s, i) : u[g] = s[g]
      BY <1>1, TextPositions DEF OpenGroups, StillOpen, Positions, Continues
    <2>3. \A g \in Latest(OpenGroups(s, i)) : g \in OpenGroups(s, i)
      BY DEF Latest
    <2>4. QED BY <1>2, <2>1, <2>2, <2>3 DEF Unanswered
  <1>6. ASSUME NEW c \in Innermost(s, i)
        PROVE  /\ c \in 1..Len(s) /\ u[c] = s[c] /\ Own(u, c, i) = Own(s, c, i)
               /\ \A d \in Own(s, c, i) : u[d] = s[d]
               /\ \A r : InBranch(u, c, i, r) = InBranch(s, c, i, r)
    <2>1. c \in 1..Len(s)
      BY EnclosingPosition DEF IsText, Innermost, Latest
    <2>2. Own(u, c, i) = Own(s, c, i)
      BY <1>1, <2>1, OwnSame
    <2>3. ASSUME NEW d \in Own(s, c, i)
          PROVE  u[d] = s[d]
      <3>1. d \in (c + 1)..(i - 1)
        BY DEF Own
      <3>2. d \in 1..Len(s)
        BY <1>1, <2>1, <3>1
      <3>3. QED BY <3>2 DEF Continues
    <2>4. \A j \in c..i : u[j] = s[j]
      BY <1>1, <2>1 DEF Continues
    <2>5. \A r : InBranch(u, c, i, r) = InBranch(s, c, i, r)
      BY <2>2, <2>4 DEF InBranch
    <2>6. QED BY <2>1, <2>2, <2>3, <2>5 DEF Continues
  <1>7. AfterElse(u, i) <=> AfterElse(s, i)
    BY <1>3, <1>6 DEF AfterElse
  <1>8. OfNoCase(u, i) <=> OfNoCase(s, i)
    BY <1>2, <1>3, <1>6 DEF OfNoCase
  <1>9. Crosses(u, i) <=> Crosses(s, i)
    BY <1>2, <1>3, <1>6 DEF Crosses
  <1>10. QED BY <1>2, <1>3, <1>4, <1>5, <1>7, <1>8, <1>9 DEF Refused

(***************************************************************************)
(* One more token.                                                         *)
(***************************************************************************)
Grows(u, s, t) ==
  /\ IsText(s) /\ IsText(u)
  /\ Len(u) = Len(s) + 1 /\ Continues(u, s) /\ u[Len(s) + 1] = t

IfStack(s, st) == IsStack(st, Ifs(s), Fis(s), Len(s))

LEMMA LatestOfStack ==
  ASSUME NEW U, NEW D, NEW n \in Nat, NEW st, IsStack(st, U, D, n)
  PROVE  /\ Len(st) \in Nat
         /\ st = <<>> => StillOpen(U, D, n + 1) = {} /\ Latest(StillOpen(U, D, n + 1)) = {}
         /\ st # <<>> => Len(st) \in 1..Len(st) /\ Latest(StillOpen(U, D, n + 1)) = {st[Len(st)]}
PROOF
  <1>0. Len(st) \in Nat /\ \A k \in 1..Len(st) : st[k] \in Nat
    BY DEF IsStack
  <1>1. StillOpen(U, D, n + 1) = { st[k] : k \in 1..Len(st) }
    BY DEF IsStack
  <1>2. ASSUME st = <<>>
        PROVE  StillOpen(U, D, n + 1) = {} /\ Latest(StillOpen(U, D, n + 1)) = {}
    <2>1. 1..Len(st) = {}
      BY <1>2
    <2>2. QED BY <1>1, <2>1 DEF Latest
  <1>3. ASSUME st # <<>>
        PROVE  Len(st) \in 1..Len(st) /\ Latest(StillOpen(U, D, n + 1)) = {st[Len(st)]}
    <2>1. Len(st) \in 1..Len(st)
      BY <1>0, <1>3 DEF IsStack
    <2>2. \A k \in 1..Len(st) : st[k] <= st[Len(st)] /\ (st[Len(st)] <= st[k] => st[k] = st[Len(st)])
      <3>1. TAKE k \in 1..Len(st)
      <3>2. k < Len(st) => st[k] < st[Len(st)]
        BY <2>1 DEF IsStack
      <3>3. k = Len(st) \/ k < Len(st)
        BY <1>0
      <3>4. st[k] \in Nat /\ st[Len(st)] \in Nat
        BY <1>0, <2>1
      <3>5. QED BY <3>2, <3>3, <3>4
    <2>3. st[Len(st)] \in StillOpen(U, D, n + 1)
      BY <1>1, <2>1
    <2>4. \A c \in StillOpen(U, D, n + 1) : c <= st[Len(st)] /\ (st[Len(st)] <= c => c = st[Len(st)])
      BY <1>1, <2>2
    <2>5. QED BY <2>1, <2>3, <2>4 DEF Latest
  <1>4. QED BY <1>0, <1>2, <1>3

LEMMA IfStackElement ==
  ASSUME NEW s, IsText(s), NEW st, IfStack(s, st), NEW k \in 1..Len(st)
  PROVE  /\ Len(st) \in Nat /\ st[k] \in 1..Len(s) /\ st[k] \in Enclosing(s, Len(s) + 1)
         /\ Balance(Ifs(s), Fis(s), st[k], Len(s)) = Len(st) - k + 1
PROOF
  <1>1. Len(s) \in Nat
    BY DEF IsText
  <1>2. st[k] \in Enclosing(s, Len(s) + 1)
    BY DEF IfStack, IsStack, Enclosing
  <1>3. st[k] \in 1..Len(s)
    BY <1>1, <1>2, EnclosingPosition
  <1>4. QED BY <1>2, <1>3 DEF IfStack, IsStack

LEMMA IfStackEnds ==
  ASSUME NEW s, NEW u, NEW t, Grows(u, s, t), NEW st, IfStack(s, st)
  PROVE  /\ Len(st) \in Nat
         /\ Enclosing(u, Len(s) + 1) = { st[k] : k \in 1..Len(st) }
         /\ st = <<>> => Enclosing(u, Len(s) + 1) = {} /\ Innermost(u, Len(s) + 1) = {}
         /\ st # <<>> => Len(st) \in 1..Len(st) /\ Innermost(u, Len(s) + 1) = {st[Len(st)]}
PROOF
  <1>1. Len(s) \in Nat
    BY DEF IsText, Grows
  <1>2. Enclosing(u, Len(s) + 1) = Enclosing(s, Len(s) + 1)
    BY <1>1, EnclosingSame DEF Grows
  <1>3. Enclosing(s, Len(s) + 1) = StillOpen(Ifs(s), Fis(s), Len(s) + 1)
    BY DEF Enclosing
  <1>4. Enclosing(s, Len(s) + 1) = { st[k] : k \in 1..Len(st) }
    BY <1>3 DEF IfStack, IsStack
  <1>5. /\ Len(st) \in Nat
        /\ st = <<>> => Enclosing(s, Len(s) + 1) = {} /\ Latest(Enclosing(s, Len(s) + 1)) = {}
        /\ st # <<>> => Len(st) \in 1..Len(st) /\ Latest(Enclosing(s, Len(s) + 1)) = {st[Len(st)]}
    BY <1>1, <1>3, LatestOfStack DEF IfStack
  <1>6. QED BY <1>2, <1>4, <1>5 DEF Innermost

LEMMA OwnFinite ==
  ASSUME NEW s, NEW c \in Int, NEW i \in Int
  PROVE  IsFiniteSet(Own(s, c, i)) /\ Part(s, c, i) \in Nat
PROOF
  <1>1. Own(s, c, i) \subseteq (c + 1)..(i - 1) /\ IsFiniteSet((c + 1)..(i - 1))
    BY FS_Interval DEF Own
  <1>2. QED BY <1>1, FS_Subset, FS_CardinalityType DEF Part

(* A delimiter belongs to the innermost conditional, and to no other. *)
LEMMA OwnStep ==
  ASSUME NEW s, NEW u, NEW t, Grows(u, s, t), NEW st, IfStack(s, st), NEW k \in 1..Len(st)
  PROVE  Own(u, st[k], Len(u) + 1) =
           Own(s, st[k], Len(s) + 1)
             \cup (IF t.role \in Delimiters /\ k = Len(st) THEN {Len(s) + 1} ELSE {})
PROOF
  <1> DEFINE n == Len(s)
             c == st[k]
  <1>1. /\ n \in Nat /\ Len(u) = n + 1 /\ c \in 1..n /\ c \in Enclosing(s, n + 1) /\ Len(st) \in Nat
        /\ Balance(Ifs(s), Fis(s), c, n) = Len(st) - k + 1
        /\ IsText(s) /\ IsText(u) /\ Continues(u, s) /\ u[n + 1] = t
    BY IfStackElement DEF IsText, Grows
  <1>2. Own(u, c, n + 1) = Own(s, c, n + 1)
    BY <1>1, OwnSame
  <1>3. \A d \in (c + 1)..n : d \in Own(u, c, n + 2) <=> d \in Own(u, c, n + 1)
    BY <1>1 DEF Own
  <1>4. ASSUME t.role \in Delimiters
        PROVE  Balance(Ifs(u), Fis(u), c, n + 1) = Len(st) - k + 1
    <2>1. n + 1 \notin Ifs(u) /\ n + 1 \notin Fis(u)
      BY <1>1, <1>4 DEF Ifs, Fis, Openers, Delimiters
    <2>2. Balance(Ifs(u), Fis(u), c, n) = Len(st) - k + 1
      <3>1. n \in 1..n
        BY <1>1
      <3>2. Balance(Ifs(u), Fis(u), c, n) = Balance(Ifs(s), Fis(s), c, n)
        BY <1>1, <3>1, TextBalanceSame
      <3>3. QED BY <1>1, <3>2
    <2>3. Balance(Ifs(u), Fis(u), c, n + 1) = Balance(Ifs(u), Fis(u), c, n) + 0 - 0
      BY <1>1, <2>1, BalanceStep
    <2>4. QED BY <1>1, <2>2, <2>3
  <1>5. n + 1 \in Own(u, c, n + 2) <=> t.role \in Delimiters /\ k = Len(st)
    <2>1. n + 1 \in (c + 1)..((n + 2) - 1)
      BY <1>1
    <2>2. c \in Enclosing(u, n + 1)
      BY <1>1, EnclosingSame
    <2>3. t.role \in Delimiters => (Balance(Ifs(u), Fis(u), c, n + 1) = 1 <=> k = Len(st))
      BY <1>1, <1>4
    <2>4. QED BY <1>1, <2>1, <2>2, <2>3 DEF Own
  <1>6. Own(u, c, n + 2) \subseteq (c + 1)..(n + 1) /\ Own(u, c, n + 1) \subseteq (c + 1)..n
    BY <1>1 DEF Own
  <1>7. Own(u, c, n + 2) = Own(u, c, n + 1)
          \cup (IF t.role \in Delimiters /\ k = Len(st) THEN {n + 1} ELSE {})
    <2>1. (c + 1)..(n + 1) = ((c + 1)..n) \cup {n + 1} /\ n + 1 \notin (c + 1)..n
      BY <1>1
    <2>2. QED BY <1>3, <1>5, <1>6, <2>1
  <1>8. Len(u) + 1 = n + 2
    BY <1>1
  <1>9. QED BY <1>2, <1>7, <1>8

LEMMA OwnCases ==
  ASSUME NEW s, NEW u, NEW t, Grows(u, s, t), NEW st, IfStack(s, st), NEW k \in 1..Len(st)
  PROVE  /\ t.role \in Delimiters /\ k = Len(st)
              => Own(u, st[k], Len(u) + 1) = Own(s, st[k], Len(s) + 1) \cup {Len(s) + 1}
         /\ t.role \notin Delimiters \/ k # Len(st)
              => Own(u, st[k], Len(u) + 1) = Own(s, st[k], Len(s) + 1)
PROOF
  <1>1. Own(u, st[k], Len(u) + 1) =
          Own(s, st[k], Len(s) + 1)
            \cup (IF t.role \in Delimiters /\ k = Len(st) THEN {Len(s) + 1} ELSE {})
    BY OwnStep
  <1>2. QED BY <1>1

LEMMA OwnTop ==
  ASSUME NEW s, NEW u, NEW t, Grows(u, s, t), NEW st, IfStack(s, st), Len(st) # 0,
         t.role \in Delimiters
  PROVE  Own(u, st[Len(st)], Len(u) + 1) = Own(s, st[Len(st)], Len(s) + 1) \cup {Len(s) + 1}
PROOF
  <1>1. Len(st) \in Nat
    BY DEF IfStack, IsStack
  <1>2. PICK k \in 1..Len(st) : k = Len(st)
    BY <1>1
  <1>3. Own(u, st[k], Len(u) + 1) = Own(s, st[k], Len(s) + 1) \cup {Len(s) + 1}
    BY <1>2, OwnCases
  <1>4. QED BY <1>2, <1>3

LEMMA OwnOfNew ==
  ASSUME NEW s, NEW u, NEW t, Grows(u, s, t)
  PROVE  Own(u, Len(u), Len(u) + 1) = {} /\ Part(u, Len(u), Len(u) + 1) = 0
PROOF
  <1>1. Len(u) \in Nat
    BY DEF Grows, IsText
  <1>2. (Len(u) + 1)..((Len(u) + 1) - 1) = {}
    BY <1>1
  <1>3. Own(u, Len(u), Len(u) + 1) = {}
    BY <1>2 DEF Own
  <1>4. QED BY <1>3, FS_EmptySet DEF Part

(* What a conditional's own delimiters are in the longer text. *)
LEMMA PartStep ==
  ASSUME NEW s, NEW u, NEW t, Grows(u, s, t), NEW c \in 1..Len(s)
  PROVE  /\ Len(s) \in Nat /\ u[c] = s[c] /\ Index(u[c]) = Index(s[c])
         /\ \A d \in Own(s, c, Len(s) + 1) : /\ d \in 1..Len(s) /\ u[d] = s[d]
                                             /\ Part(u, c, d) = Part(s, c, d)
         /\ Part(u, c, Len(s) + 1) = Part(s, c, Len(s) + 1)
         /\ Own(u, c, Len(u) + 1) = Own(s, c, Len(s) + 1)
              => Part(u, c, Len(u) + 1) = Part(s, c, Len(s) + 1)
         /\ Own(u, c, Len(u) + 1) = Own(s, c, Len(s) + 1) \cup {Len(s) + 1}
              => Part(u, c, Len(u) + 1) = Part(s, c, Len(s) + 1) + 1
PROOF
  <1>1. /\ Len(s) \in Nat /\ Len(u) = Len(s) + 1
        /\ IsText(s) /\ IsText(u) /\ Continues(u, s)
    BY DEF IsText, Grows
  <1>2. u[c] = s[c] /\ Index(u[c]) = Index(s[c])
    BY <1>1 DEF Continues
  <1>3. ASSUME NEW d \in Own(s, c, Len(s) + 1)
        PROVE  d \in 1..Len(s) /\ u[d] = s[d] /\ Part(u, c, d) = Part(s, c, d)
    <2>1. d \in (c + 1)..((Len(s) + 1) - 1)
      BY DEF Own
    <2>2. d \in 1..Len(s) /\ d \in 1..(Len(s) + 1)
      BY <1>1, <2>1
    <2>3. u[d] = s[d]
      BY <1>1, <2>2 DEF Continues
    <2>4. QED BY <1>1, <2>2, <2>3, TakenSame
  <1>4. Part(u, c, Len(s) + 1) = Part(s, c, Len(s) + 1)
    BY <1>1, TakenSame
  <1>5. ASSUME Own(u, c, Len(u) + 1) = Own(s, c, Len(s) + 1) \cup {Len(s) + 1}
        PROVE  Part(u, c, Len(u) + 1) = Part(s, c, Len(s) + 1) + 1
    <2>1. Len(s) + 1 \notin Own(s, c, Len(s) + 1)
      <3>1. Len(s) + 1 \notin (c + 1)..((Len(s) + 1) - 1)
        BY <1>1
      <3>2. QED BY <3>1 DEF Own
    <2>2. IsFiniteSet(Own(s, c, Len(s) + 1))
      BY <1>1, OwnFinite
    <2>3. QED BY <1>5, <2>1, <2>2, FS_AddElement DEF Part
  <1>6. Own(u, c, Len(u) + 1) = Own(s, c, Len(s) + 1)
          => Part(u, c, Len(u) + 1) = Part(s, c, Len(s) + 1)
    BY DEF Part
  <1>7. QED BY <1>1, <1>2, <1>3, <1>4, <1>5, <1>6

(***************************************************************************)
(* A frame of the reader's conditional stack says how TeX reads the        *)
(* conditional at c: which of its parts was named, and whether that part   *)
(* is past.                                                                *)
(***************************************************************************)
Known == {"iftrue", "iffalse", "ifcase"}

Executes(f) == f.truth # f.inAlternative

FrameIsTrue(s, c, f) ==
  LET own == Own(s, c, Len(s) + 1)
      part == Part(s, c, Len(s) + 1)
      index == Index(s[c])
  IN  /\ s[c].role \in Known /\ f.truth \in BOOLEAN /\ f.inAlternative \in BOOLEAN
      /\ f.isCase = (s[c].role = "ifcase")
      /\ ~f.inAlternative => \A d \in own : s[d].role = "or"
      /\ f.truth /\ ~f.inAlternative => index = part
      /\ f.truth /\ f.inAlternative =>
           /\ index \in 0..(part - 1)
           /\ \A d \in own : Part(s, c, d) < index => s[d].role = "or"
      /\ ~f.truth /\ ~f.inAlternative =>
           /\ index \notin 0..part
           /\ f.isCase => f.remaining = index - part
      /\ ~f.truth /\ f.inAlternative =>
           /\ index \notin 0..(part - 1)
           /\ \E d \in own : Part(s, c, d) = part - 1 /\ s[d].role = "else"
           /\ \A d \in own : Part(s, c, d) < part - 1 => s[d].role = "or"

LEMMA IndexInt ==
  ASSUME NEW s, IsText(s), NEW c \in 1..Len(s)
  PROVE  Index(s[c]) \in Int
BY DEF IsText, Index

(* The reader executes the part it is in exactly when TeX takes it. *)
LEMMA FrameTaken ==
  ASSUME NEW s, IsText(s), NEW c \in 1..Len(s), NEW f, FrameIsTrue(s, c, f)
  PROVE  Taken(s, c, Len(s) + 1, Part(s, c, Len(s) + 1)) <=> Executes(f)
PROOF
  <1> DEFINE i == Len(s) + 1
             part == Part(s, c, i)
             index == Index(s[c])
  <1>1. i \in Int /\ part \in Nat /\ index \in Int
    <2>1. Len(s) \in Nat /\ i \in Int
      BY DEF IsText
    <2>2. part \in Nat
      BY <2>1, OwnFinite
    <2>3. QED BY <2>1, <2>2, IndexInt
  <1>2. s[c].role # "ifunknown" /\ f.truth \in BOOLEAN /\ f.inAlternative \in BOOLEAN
    BY DEF FrameIsTrue, Known
  <1>3. CASE f.truth /\ ~f.inAlternative
    <2>1. index = part /\ \A d \in Own(s, c, i) : s[d].role = "or"
      BY <1>3 DEF FrameIsTrue
    <2>2. Named(s, c, i, part)
      BY <2>1 DEF Named
    <2>3. QED BY <1>2, <1>3, <2>2 DEF Taken, Executes
  <1>4. CASE f.truth /\ f.inAlternative
    <2>1. index \in 0..(part - 1) /\ \A d \in Own(s, c, i) : Part(s, c, d) < index => s[d].role = "or"
      BY <1>4 DEF FrameIsTrue
    <2>2. Named(s, c, i, index)
      BY <2>1 DEF Named
    <2>3. ~Named(s, c, i, part)
      BY <1>1, <2>1 DEF Named
    <2>4. QED BY <1>2, <1>4, <2>1, <2>2, <2>3 DEF Taken, Executes
  <1>5. CASE ~f.truth /\ ~f.inAlternative
    <2>1. index \notin 0..part /\ \A d \in Own(s, c, i) : s[d].role = "or"
      BY <1>5 DEF FrameIsTrue
    <2>2. ~Named(s, c, i, part)
      BY <1>1, <2>1 DEF Named
    <2>3. ~\E d \in Own(s, c, i) : Part(s, c, d) = part - 1 /\ s[d].role = "else"
      BY <2>1
    <2>4. QED BY <1>2, <1>5, <2>2, <2>3 DEF Taken, Executes
  <1>6. CASE ~f.truth /\ f.inAlternative
    <2>1. /\ index \notin 0..(part - 1)
          /\ \E d \in Own(s, c, i) : Part(s, c, d) = part - 1 /\ s[d].role = "else"
      BY <1>6 DEF FrameIsTrue
    <2>2. \A q \in 0..(part - 1) : ~Named(s, c, i, q)
      BY <2>1 DEF Named
    <2>3. QED BY <1>2, <1>6, <2>1, <2>2 DEF Taken, Executes
  <1>7. QED BY <1>2, <1>3, <1>4, <1>5, <1>6

(* ... and an earlier part was taken exactly when the reader has executed  *)
(* one and is past it.                                                     *)
LEMMA FramePast ==
  ASSUME NEW s, IsText(s), NEW c \in 1..Len(s), NEW f, FrameIsTrue(s, c, f)
  PROVE  (\E q \in 0..(Part(s, c, Len(s) + 1) - 1) : Taken(s, c, Len(s) + 1, q))
           <=> f.truth /\ f.inAlternative
PROOF
  <1> DEFINE i == Len(s) + 1
             part == Part(s, c, i)
             index == Index(s[c])
  <1>1. i \in Int /\ part \in Nat /\ index \in Int
    <2>1. Len(s) \in Nat /\ i \in Int
      BY DEF IsText
    <2>2. part \in Nat
      BY <2>1, OwnFinite
    <2>3. QED BY <2>1, <2>2, IndexInt
  <1>2. s[c].role # "ifunknown" /\ f.truth \in BOOLEAN /\ f.inAlternative \in BOOLEAN
    BY DEF FrameIsTrue, Known
  <1>3. CASE ~f.inAlternative
    <2>1. \A d \in Own(s, c, i) : s[d].role = "or"
      BY <1>3 DEF FrameIsTrue
    <2>2. index \notin 0..(part - 1)
      <3>1. CASE f.truth
        BY <1>1, <1>3, <3>1 DEF FrameIsTrue
      <3>2. CASE ~f.truth
        BY <1>1, <1>3, <3>2 DEF FrameIsTrue
      <3>3. QED BY <3>1, <3>2
    <2>3. \A q \in 0..(part - 1) : ~Named(s, c, i, q)
      BY <2>2 DEF Named
    <2>4. \A q \in 0..(part - 1) : ~Taken(s, c, i, q)
      BY <2>1, <2>3 DEF Taken
    <2>5. QED BY <1>3, <2>4
  <1>4. CASE f.truth /\ f.inAlternative
    <2>1. index \in 0..(part - 1) /\ \A d \in Own(s, c, i) : Part(s, c, d) < index => s[d].role = "or"
      BY <1>4 DEF FrameIsTrue
    <2>2. Named(s, c, i, index)
      BY <2>1 DEF Named
    <2>3. QED BY <1>2, <1>4, <2>1, <2>2 DEF Taken
  <1>5. CASE ~f.truth /\ f.inAlternative
    <2>1. /\ index \notin 0..(part - 1)
          /\ \A d \in Own(s, c, i) : Part(s, c, d) < part - 1 => s[d].role = "or"
      BY <1>5 DEF FrameIsTrue
    <2>2. \A q \in 0..(part - 1) : ~Named(s, c, i, q)
      BY <2>1 DEF Named
    <2>3. \A q \in 0..(part - 1) : ~Taken(s, c, i, q)
      <3>1. TAKE q \in 0..(part - 1)
      <3>2. q - 1 < part - 1
        BY <1>1
      <3>3. ~\E d \in Own(s, c, i) : Part(s, c, d) = q - 1 /\ s[d].role = "else"
        BY <2>1, <3>2
      <3>4. QED BY <2>2, <3>3 DEF Taken
    <2>4. QED BY <1>5, <2>3
  <1>6. QED BY <1>2, <1>3, <1>4, <1>5

(* A token that is no delimiter of the conditional leaves its frame true. *)
LEMMA FrameKept ==
  ASSUME NEW s, NEW u, NEW t, Grows(u, s, t), NEW c \in 1..Len(s), NEW f, FrameIsTrue(s, c, f),
         Own(u, c, Len(u) + 1) = Own(s, c, Len(s) + 1)
  PROVE  FrameIsTrue(u, c, f)
PROOF
  <1>1. Part(u, c, Len(u) + 1) = Part(s, c, Len(s) + 1) /\ u[c] = s[c]
    BY PartStep
  <1>2. \A d \in Own(s, c, Len(s) + 1) : u[d] = s[d] /\ Part(u, c, d) = Part(s, c, d)
    BY PartStep
  <1>3. QED BY <1>1, <1>2 DEF FrameIsTrue

(* The frame of a conditional that is opened: \iftrue, \iffalse or a case. *)
LEMMA FrameOpened ==
  ASSUME NEW s, NEW u, NEW t, Grows(u, s, t), t.role \in Known, NEW f,
         f.truth = (t.role # "iffalse" /\ t.index = 0), t.role # "ifcase" => t.index = 0,
         f.inAlternative = FALSE, f.isCase = (t.role = "ifcase"), f.remaining = t.index
  PROVE  FrameIsTrue(u, Len(u), f)
PROOF
  <1>1. Own(u, Len(u), Len(u) + 1) = {} /\ Part(u, Len(u), Len(u) + 1) = 0
    BY OwnOfNew
  <1>2. u[Len(u)] = t /\ t.index \in Int
    BY DEF Grows, IsText
  <1>3. \A i \in 0..0 : i = 0
    OBVIOUS
  <1>4. CASE t.role = "iftrue"
    <2>1. f.truth = TRUE /\ f.isCase = FALSE /\ Index(u[Len(u)]) = 0
      BY <1>2, <1>4 DEF Index
    <2>2. QED BY <1>1, <1>2, <1>4, <2>1 DEF FrameIsTrue, Known
  <1>5. CASE t.role = "iffalse"
    <2>1. f.truth = FALSE /\ f.isCase = FALSE /\ Index(u[Len(u)]) = 1
      BY <1>2, <1>5 DEF Index
    <2>2. 1 \notin 0..0
      BY <1>3
    <2>3. QED BY <1>1, <1>2, <1>5, <2>1, <2>2 DEF FrameIsTrue, Known
  <1>6. CASE t.role = "ifcase"
    <2>1. f.truth = (t.index = 0) /\ f.isCase = TRUE /\ Index(u[Len(u)]) = t.index
      BY <1>2, <1>6 DEF Index
    <2>2. t.index - 0 = t.index /\ (t.index # 0 => t.index \notin 0..0)
      BY <1>2, <1>3
    <2>3. CASE t.index = 0
      BY <1>1, <1>2, <1>6, <2>1, <2>3 DEF FrameIsTrue, Known
    <2>4. CASE t.index # 0
      BY <1>1, <1>2, <1>6, <2>1, <2>2, <2>4 DEF FrameIsTrue, Known
    <2>5. QED BY <2>3, <2>4
  <1>7. QED BY <1>4, <1>5, <1>6 DEF Known

(* A delimiter of the conditional: the first part that is taken ends, the  *)
(* \else begins the alternative, or an \or counts.                         *)
LEMMA FrameDelimited ==
  ASSUME NEW s, NEW u, NEW t, Grows(u, s, t), NEW c \in 1..Len(s), NEW f, FrameIsTrue(s, c, f),
         t.role \in Delimiters, Own(u, c, Len(u) + 1) = Own(s, c, Len(s) + 1) \cup {Len(s) + 1},
         NEW g, g.isCase = f.isCase,
         \/ f.truth /\ f.inAlternative /\ g.truth = f.truth /\ g.inAlternative = TRUE
         \/ f.truth /\ ~f.inAlternative /\ g.truth = TRUE /\ g.inAlternative = TRUE
         \/ ~f.truth /\ ~f.inAlternative /\ t.role = "else" /\ g.truth = FALSE /\ g.inAlternative = TRUE
         \/ /\ ~f.truth /\ ~f.inAlternative /\ t.role = "or" /\ f.isCase
            /\ g.truth = (f.remaining = 1) /\ g.inAlternative = FALSE /\ g.remaining = f.remaining - 1
  PROVE  FrameIsTrue(u, c, g)
PROOF
  <1> DEFINE own == Own(s, c, Len(s) + 1)
             own2 == Own(u, c, Len(u) + 1)
             part == Part(s, c, Len(s) + 1)
             part2 == Part(u, c, Len(u) + 1)
             index == Index(s[c])
  <1>1. part \in Nat /\ index \in Int /\ Len(s) \in Nat /\ u[c] = s[c] /\ Index(u[c]) = index
    BY OwnFinite, IndexInt, PartStep DEF Grows
  <1>2. part2 = part + 1
    BY PartStep
  <1>3. \A d \in own : u[d] = s[d] /\ Part(u, c, d) = Part(s, c, d) /\ Part(s, c, d) \in Nat
    BY PartStep, OwnFinite
  <1>4. own2 = own \cup {Len(s) + 1} /\ u[Len(s) + 1] = t /\ Part(u, c, Len(s) + 1) = part
    BY PartStep DEF Grows
  <1>5. s[c].role \in Known /\ f.isCase = (s[c].role = "ifcase")
    BY DEF FrameIsTrue
  <1>6. CASE f.truth /\ f.inAlternative /\ g.truth = f.truth /\ g.inAlternative = TRUE
    <2>1. index \in 0..(part - 1) /\ \A d \in own : Part(s, c, d) < index => s[d].role = "or"
      BY <1>6 DEF FrameIsTrue
    <2>2. index \in 0..(part2 - 1) /\ ~(part < index)
      BY <1>1, <1>2, <2>1
    <2>3. \A d \in own2 : Part(u, c, d) < index => u[d].role = "or"
      BY <1>3, <1>4, <2>1, <2>2
    <2>4. g.truth = TRUE /\ g.inAlternative = TRUE
      BY <1>6 DEF FrameIsTrue
    <2>5. QED BY <1>1, <1>5, <2>2, <2>3, <2>4 DEF FrameIsTrue
  <1>7. CASE f.truth /\ ~f.inAlternative /\ g.truth = TRUE /\ g.inAlternative = TRUE
    <2>1. index = part /\ \A d \in own : s[d].role = "or"
      BY <1>7 DEF FrameIsTrue
    <2>2. index \in 0..(part2 - 1) /\ ~(part < index)
      BY <1>1, <1>2, <2>1
    <2>3. \A d \in own2 : Part(u, c, d) < index => u[d].role = "or"
      BY <1>3, <1>4, <2>1, <2>2
    <2>4. QED BY <1>1, <1>5, <1>7, <2>2, <2>3 DEF FrameIsTrue
  <1>8. CASE ~f.truth /\ ~f.inAlternative /\ t.role = "else" /\ g.truth = FALSE /\ g.inAlternative = TRUE
    <2>1. index \notin 0..part /\ \A d \in own : s[d].role = "or"
      BY <1>8 DEF FrameIsTrue
    <2>2. index \notin 0..(part2 - 1) /\ part = part2 - 1
      BY <1>1, <1>2, <2>1
    <2>3. \E d \in own2 : Part(u, c, d) = part2 - 1 /\ u[d].role = "else"
      BY <1>4, <1>8, <2>2
    <2>4. \A d \in own2 : Part(u, c, d) < part2 - 1 => u[d].role = "or"
      BY <1>1, <1>3, <1>4, <2>1, <2>2
    <2>5. QED BY <1>1, <1>5, <1>8, <2>2, <2>3, <2>4 DEF FrameIsTrue
  <1>9. CASE /\ ~f.truth /\ ~f.inAlternative /\ t.role = "or" /\ f.isCase
             /\ g.truth = (f.remaining = 1) /\ g.inAlternative = FALSE /\ g.remaining = f.remaining - 1
    <2>1. index \notin 0..part /\ f.remaining = index - part /\ \A d \in own : s[d].role = "or"
      BY <1>9 DEF FrameIsTrue
    <2>2. \A d \in own2 : u[d].role = "or"
      BY <1>3, <1>4, <1>9, <2>1
    <2>3. g.truth \in BOOLEAN /\ (g.truth <=> index = part2) /\ g.remaining = index - part2
      <3>1. f.remaining - 1 = index - part2
        BY <1>1, <1>2, <2>1
      <3>2. f.remaining = 1 <=> index = part2
        BY <1>1, <1>2, <2>1
      <3>3. g.truth = (index = part2)
        BY <1>9, <3>2
      <3>4. QED BY <1>9, <3>1, <3>3
    <2>4. ~g.truth => index \notin 0..part2
      BY <1>1, <1>2, <2>1, <2>3
    <2>5. QED BY <1>1, <1>5, <1>9, <2>2, <2>3, <2>4 DEF FrameIsTrue
  <1>10. QED BY <1>6, <1>7, <1>8, <1>9

(***************************************************************************)
(* The reader's conditional stack conds stands for a text: its frames are  *)
(* true of the outermost conditionals that are open, and those are all     *)
(* reached by execution.                                                   *)
(***************************************************************************)
Structured(s, st, conds) ==
  /\ IfStack(s, st)
  /\ Len(conds) \in 0..Len(st)
  /\ \A k \in 1..Len(conds) : FrameIsTrue(s, st[k], conds[k]) /\ Selected(s, st[k])

LEMMA IfStackStep ==
  ASSUME NEW s, NEW u, NEW t, Grows(u, s, t), NEW st, IfStack(s, st)
  PROVE  /\ t.role \notin Openers \cup {"fi"} => IfStack(u, st)
         /\ t.role \in Openers => IfStack(u, Append(st, Len(s) + 1))
         /\ t.role = "fi" /\ st # <<>> => IfStack(u, SubSeq(st, 1, Len(st) - 1))
PROOF
  <1> DEFINE n == Len(s)
  <1>1. n \in Nat /\ Len(u) = n + 1 /\ IsText(s) /\ IsText(u) /\ Continues(u, s) /\ u[n + 1] = t
    BY DEF Grows, IsText
  <1>2. Positions(Ifs(s)) /\ Positions(Ifs(u)) /\ Positions(Fis(u))
    BY <1>1, TextPositions
  <1>3. AgreeUpTo(Ifs(s), Ifs(u), n) /\ AgreeUpTo(Fis(s), Fis(u), n)
    BY <1>1, IfsAgree
  <1>4. IsStack(st, Ifs(s), Fis(s), n)
    BY DEF IfStack
  <1>5. IsStack(st, Ifs(u), Fis(u), n)
    BY <1>1, <1>2, <1>3, <1>4, StackSame
  <1>6. n + 1 \in DOMAIN u
    BY <1>1 DEF IsText
  <1>7. ASSUME t.role \notin Openers \cup {"fi"}
        PROVE  IfStack(u, st)
    <2>1. n + 1 \notin Ifs(u) /\ n + 1 \notin Fis(u)
      BY <1>1, <1>7 DEF Ifs, Fis
    <2>2. IsStack(st, Ifs(u), Fis(u), n + 1)
      BY <1>1, <1>2, <1>5, <2>1, StackNeutral
    <2>3. QED BY <1>1, <2>2 DEF IfStack
  <1>8. ASSUME t.role \in Openers
        PROVE  IfStack(u, Append(st, n + 1))
    <2>1. n + 1 \in Ifs(u) /\ n + 1 \notin Fis(u)
      BY <1>1, <1>6, <1>8 DEF Ifs, Fis, Openers
    <2>2. IsStack(Append(st, n + 1), Ifs(u), Fis(u), n + 1)
      BY <1>1, <1>2, <1>5, <2>1, StackPush
    <2>3. QED BY <1>1, <2>2 DEF IfStack
  <1>9. ASSUME t.role = "fi", st # <<>>
        PROVE  IfStack(u, SubSeq(st, 1, Len(st) - 1))
    <2>1. n + 1 \notin Ifs(u) /\ n + 1 \in Fis(u)
      BY <1>1, <1>6, <1>9 DEF Ifs, Fis, Openers
    <2>2. IsStack(SubSeq(st, 1, Len(st) - 1), Ifs(u), Fis(u), n + 1)
      BY <1>1, <1>2, <1>5, <1>9, <2>1, StackPop
    <2>3. QED BY <1>1, <2>2 DEF IfStack
  <1>10. QED BY <1>7, <1>8, <1>9

LEMMA SelectedKept ==
  ASSUME NEW s, NEW u, NEW t, Grows(u, s, t), NEW c \in 1..(Len(s) + 1)
  PROVE  Selected(u, c) <=> Selected(s, c)
BY SelectedSame DEF Grows

(* A frame that is not the innermost, or a token that is no delimiter. *)
LEMMA LowerKept ==
  ASSUME NEW s, NEW u, NEW t, Grows(u, s, t), NEW st, IfStack(s, st), NEW k \in 1..Len(st),
         t.role \notin Delimiters \/ k # Len(st), NEW f, FrameIsTrue(s, st[k], f), Selected(s, st[k])
  PROVE  FrameIsTrue(u, st[k], f) /\ Selected(u, st[k])
PROOF
  <1>1. st[k] \in 1..Len(s) /\ Len(s) \in Nat
    BY IfStackElement DEF Grows, IsText
  <1>2. Own(u, st[k], Len(u) + 1) = Own(s, st[k], Len(s) + 1)
    BY OwnCases
  <1>3. FrameIsTrue(u, st[k], f)
    BY <1>1, <1>2, FrameKept
  <1>4. st[k] \in 1..(Len(s) + 1)
    BY <1>1
  <1>5. QED BY <1>3, <1>4, SelectedKept

LEMMA StructuredPlain ==
  ASSUME NEW s, NEW u, NEW t, Grows(u, s, t), NEW st, NEW conds, Structured(s, st, conds),
         t.role \notin Openers \cup {"fi"}, t.role \notin Delimiters \/ Len(conds) < Len(st)
  PROVE  Structured(u, st, conds)
PROOF
  <1>1. IfStack(s, st) /\ Len(conds) \in 0..Len(st)
    BY DEF Structured
  <1>2. Len(st) \in Nat
    BY <1>1 DEF IfStack, IsStack
  <1>3. ASSUME NEW k \in 1..Len(conds)
        PROVE  FrameIsTrue(u, st[k], conds[k]) /\ Selected(u, st[k])
    <2>1. k \in 1..Len(st) /\ (t.role \notin Delimiters \/ k # Len(st))
      BY <1>1, <1>2
    <2>2. FrameIsTrue(s, st[k], conds[k]) /\ Selected(s, st[k])
      BY DEF Structured
    <2>3. QED BY <1>1, <2>1, <2>2, LowerKept
  <1>4. IfStack(u, st)
    BY <1>1, IfStackStep
  <1>5. QED BY <1>1, <1>3, <1>4 DEF Structured

LEMMA StructuredOpened ==
  ASSUME NEW s, NEW u, NEW t, Grows(u, s, t), NEW st, NEW conds, Structured(s, st, conds),
         t.role \in Openers
  PROVE  Structured(u, Append(st, Len(s) + 1), conds)
PROOF
  <1> DEFINE st2 == Append(st, Len(s) + 1)
  <1>1. IfStack(s, st) /\ Len(conds) \in 0..Len(st)
    BY DEF Structured
  <1>2. /\ Len(st) \in Nat /\ Len(st2) = Len(st) + 1
        /\ \A k \in 1..Len(st) : st2[k] = st[k]
    BY <1>1 DEF IfStack, IsStack
  <1>3. ASSUME NEW k \in 1..Len(conds)
        PROVE  FrameIsTrue(u, st2[k], conds[k]) /\ Selected(u, st2[k])
    <2>1. k \in 1..Len(st) /\ t.role \notin Delimiters /\ st2[k] = st[k]
      BY <1>1, <1>2 DEF Openers, Delimiters
    <2>2. FrameIsTrue(s, st[k], conds[k]) /\ Selected(s, st[k])
      BY DEF Structured
    <2>3. FrameIsTrue(u, st[k], conds[k]) /\ Selected(u, st[k])
      BY <1>1, <2>1, <2>2, LowerKept
    <2>4. QED BY <2>1, <2>3
  <1>4. IfStack(u, st2)
    BY <1>1, IfStackStep
  <1>5. Len(conds) \in 0..Len(st2)
    BY <1>1, <1>2
  <1>6. QED BY <1>3, <1>4, <1>5 DEF Structured

(* A conditional the reader opens. *)
LEMMA StructuredKnown ==
  ASSUME NEW s, NEW u, NEW t, Grows(u, s, t), NEW st, NEW C, NEW conds \in Seq(C),
         Structured(s, st, conds), Len(st) = Len(conds), t.role \in Known, NEW f \in C,
         FrameIsTrue(u, Len(u), f), Selected(s, Len(s) + 1)
  PROVE  Structured(u, Append(st, Len(s) + 1), Append(conds, f))
PROOF
  <1> DEFINE st2 == Append(st, Len(s) + 1)
             conds2 == Append(conds, f)
  <1>1. t.role \in Openers
    BY DEF Known, Openers
  <1>2. Structured(u, st2, conds)
    BY <1>1, StructuredOpened
  <1>3. IfStack(s, st) /\ Len(s) \in Nat
    BY DEF Structured, Grows, IsText
  <1>4. Len(st2) = Len(st) + 1 /\ st2[Len(st) + 1] = Len(s) + 1
    BY <1>3 DEF IfStack, IsStack
  <1>5. /\ Len(conds2) = Len(conds) + 1 /\ conds2[Len(conds) + 1] = f /\ Len(conds) \in Nat
        /\ \A k \in 1..Len(conds) : conds2[k] = conds[k]
    OBVIOUS
  <1>6. Selected(u, Len(s) + 1)
    BY <1>3, SelectedKept
  <1>7. Len(u) = Len(s) + 1
    BY DEF Grows
  <1>8. ASSUME NEW k \in 1..Len(conds2)
        PROVE  FrameIsTrue(u, st2[k], conds2[k]) /\ Selected(u, st2[k])
    <2>1. CASE k = Len(conds) + 1
      BY <1>4, <1>5, <1>6, <1>7, <2>1
    <2>2. CASE k \in 1..Len(conds)
      BY <1>2, <1>5, <2>2 DEF Structured
    <2>3. QED BY <1>5, <2>1, <2>2
  <1>9. Len(conds2) \in 0..Len(st2)
    BY <1>4, <1>5
  <1>10. QED BY <1>2, <1>8, <1>9 DEF Structured

LEMMA BelowBoth ==
  ASSUME NEW a \in Nat, NEW b \in Nat, NEW n \in 0..(a - 1), n <= b, NEW k \in 1..n
  PROVE  k \in 1..a /\ k # a /\ k \in 1..(a - 1) /\ k \in 1..b
OBVIOUS

LEMMA StructuredClosed ==
  ASSUME NEW s, NEW u, NEW t, Grows(u, s, t), NEW st, NEW conds, Structured(s, st, conds),
         t.role = "fi", NEW conds2, Len(conds2) \in 0..(Len(st) - 1), Len(conds2) <= Len(conds),
         \A k \in 1..Len(conds2) : conds2[k] = conds[k]
  PROVE  Structured(u, SubSeq(st, 1, Len(st) - 1), conds2)
PROOF
  <1> DEFINE st2 == SubSeq(st, 1, Len(st) - 1)
  <1>1. IfStack(s, st) /\ Len(conds) \in 0..Len(st) /\ Len(st) \in Nat /\ st \in Seq(Nat)
    BY DEF Structured, IfStack, IsStack
  <1>2. st # <<>> /\ Len(st) - 1 \in 0..Len(st)
    BY <1>1
  <1>3. Len(st2) = Len(st) - 1 /\ \A k \in 1..(Len(st) - 1) : st2[k] = st[k]
    BY <1>1, <1>2, SubTop
  <1>4. ASSUME NEW k \in 1..Len(conds2)
        PROVE  FrameIsTrue(u, st2[k], conds2[k]) /\ Selected(u, st2[k])
    <2>0. k \in 1..Len(st) /\ k # Len(st) /\ k \in 1..(Len(st) - 1) /\ k \in 1..Len(conds)
      BY <1>1, BelowBoth
    <2>1. st2[k] = st[k] /\ conds2[k] = conds[k]
      BY <1>3, <2>0
    <2>2. FrameIsTrue(s, st[k], conds[k]) /\ Selected(s, st[k])
      BY <2>0, <2>1 DEF Structured
    <2>3. FrameIsTrue(u, st[k], conds[k]) /\ Selected(u, st[k])
      BY <1>1, <2>0, <2>1, <2>2, LowerKept
    <2>4. QED BY <2>0, <2>1, <2>3
  <1>5. IfStack(u, st2)
    BY <1>1, <1>2, IfStackStep
  <1>6. QED BY <1>3, <1>4, <1>5 DEF Structured

LEMMA StructuredLeft ==
  ASSUME NEW s, NEW u, NEW t, Grows(u, s, t), NEW st, NEW conds, Structured(s, st, conds),
         t.role = "fi", Len(conds) # Len(st)
  PROVE  Structured(u, SubSeq(st, 1, Len(st) - 1), conds)
PROOF
  <1>1. PICK conds2 : conds2 = conds
    OBVIOUS
  <1>2. Len(conds2) \in 0..(Len(st) - 1) /\ Len(conds2) <= Len(conds)
    BY <1>1 DEF Structured, IfStack, IsStack
  <1>3. \A k \in 1..Len(conds2) : conds2[k] = conds[k]
    BY <1>1
  <1>4. Structured(u, SubSeq(st, 1, Len(st) - 1), conds2)
    BY <1>2, <1>3, StructuredClosed
  <1>5. QED BY <1>1, <1>4

LEMMA StructuredDelimited ==
  ASSUME NEW s, NEW u, NEW t, Grows(u, s, t), NEW st, NEW conds, Structured(s, st, conds),
         Len(st) = Len(conds), t.role \in Delimiters, NEW conds2, Len(conds2) = Len(conds),
         \A k \in 1..(Len(conds) - 1) : conds2[k] = conds[k],
         conds # <<>> => FrameIsTrue(u, st[Len(st)], conds2[Len(conds)])
  PROVE  Structured(u, st, conds2)
PROOF
  <1>1. IfStack(s, st) /\ Len(conds) \in 0..Len(st) /\ Len(st) \in Nat /\ st \in Seq(Nat)
    BY DEF Structured, IfStack, IsStack
  <1>2. ASSUME NEW k \in 1..Len(conds2)
        PROVE  FrameIsTrue(u, st[k], conds2[k]) /\ Selected(u, st[k])
    <2>1. k \in 1..Len(st) /\ conds # <<>>
      BY <1>1
    <2>2. FrameIsTrue(s, st[k], conds[k]) /\ Selected(s, st[k])
      BY <2>1 DEF Structured
    <2>3. CASE k = Len(st)
      <3>1. FrameIsTrue(u, st[k], conds2[k])
        BY <2>1, <2>3
      <3>2. st[k] \in 1..(Len(s) + 1)
        <4>1. IsText(s) /\ Len(s) \in Nat
          BY DEF Grows, IsText
        <4>2. st[k] \in 1..Len(s)
          BY <1>1, <2>1, <4>1, IfStackElement
        <4>3. QED BY <4>1, <4>2
      <3>3. QED BY <2>2, <3>1, <3>2, SelectedKept
    <2>4. CASE k # Len(st)
      <3>1. conds2[k] = conds[k]
        BY <1>1, <2>1, <2>4
      <3>2. QED BY <1>1, <2>1, <2>2, <2>4, <3>1, LowerKept
    <2>5. QED BY <2>3, <2>4
  <1>3. IfStack(u, st)
    BY <1>1, IfStackStep DEF Delimiters, Openers
  <1>4. QED BY <1>1, <1>2, <1>3 DEF Structured

(***************************************************************************)
(* What becomes of the next token.                                         *)
(***************************************************************************)
Routes == Delimiters \cup {"fi"}

LEMMA StructuredLengths ==
  ASSUME NEW s, NEW st, NEW conds, Structured(s, st, conds)
  PROVE  /\ Len(st) \in Nat /\ Len(conds) \in 0..Len(st) /\ IfStack(s, st)
         /\ st \in Seq(Nat)
PROOF
  <1>1. IfStack(s, st) /\ Len(conds) \in 0..Len(st)
    BY DEF Structured
  <1>2. st \in Seq(Nat)
    BY <1>1 DEF IfStack, IsStack
  <1>3. Len(st) \in Nat
    BY <1>2
  <1>4. QED BY <1>1, <1>2, <1>3

LEMMA SelectedAtEnd ==
  ASSUME NEW s, IsText(s), NEW st, NEW conds, Structured(s, st, conds)
  PROVE  /\ Len(st) = Len(conds) /\ (\A k \in 1..Len(conds) : Executes(conds[k]))
              => Selected(s, Len(s) + 1)
         /\ (\E k \in 1..Len(conds) : ~Executes(conds[k])) => ~Selected(s, Len(s) + 1)
PROOF
  <1>1. /\ IfStack(s, st) /\ Len(conds) \in 0..Len(st) /\ Len(st) \in Nat
        /\ Enclosing(s, Len(s) + 1) = { st[k] : k \in 1..Len(st) }
    <2>1. IfStack(s, st) /\ Len(conds) \in 0..Len(st) /\ Len(st) \in Nat
      BY StructuredLengths
    <2>2. Enclosing(s, Len(s) + 1) = { st[k] : k \in 1..Len(st) }
      BY <2>1 DEF IfStack, IsStack, Enclosing
    <2>3. QED BY <2>1, <2>2
  <1>2. ASSUME NEW k \in 1..Len(conds)
        PROVE  Taken(s, st[k], Len(s) + 1, Part(s, st[k], Len(s) + 1)) <=> Executes(conds[k])
    <2>1. k \in 1..Len(st) /\ FrameIsTrue(s, st[k], conds[k])
      BY <1>1 DEF Structured
    <2>2. st[k] \in 1..Len(s)
      BY <1>1, <2>1, IfStackElement
    <2>3. QED BY <2>1, <2>2, FrameTaken
  <1>3. \A k \in 1..Len(conds) : k \in 1..Len(st)
    BY <1>1
  <1>4. (\E k \in 1..Len(conds) : ~Executes(conds[k])) => ~Selected(s, Len(s) + 1)
    BY <1>1, <1>2, <1>3 DEF Selected
  <1>5. Len(st) = Len(conds) /\ (\A k \in 1..Len(conds) : Executes(conds[k]))
            => Selected(s, Len(s) + 1)
    BY <1>1, <1>2 DEF Selected
  <1>6. QED BY <1>4, <1>5

(* No unresolved conditional is open where the reader's own stack is all   *)
(* there is, and a captured one encloses what follows it.                  *)
LEMMA NotCaptured ==
  ASSUME NEW s, NEW u, NEW t, Grows(u, s, t), NEW st, NEW conds, Structured(s, st, conds),
         \A k \in (Len(conds) + 1)..Len(st) : ~Selected(s, st[k]),
         t.role # "ifunknown" \/ ~Selected(s, Len(s) + 1)
  PROVE  ~Captured(u, Len(s) + 1)
PROOF
  <1> DEFINE n == Len(s)
  <1>1. n \in Nat /\ IsText(s) /\ IsText(u) /\ Continues(u, s) /\ u[n + 1] = t
    BY DEF Grows, IsText
  <1>2. IfStack(s, st) /\ Len(conds) \in 0..Len(st) /\ Len(st) \in Nat
    BY DEF Structured, IfStack, IsStack
  <1>3. ASSUME NEW k \in 1..Len(st)
        PROVE  ~(u[st[k]].role = "ifunknown" /\ Selected(u, st[k]))
    <2>1. st[k] \in 1..n
      BY <1>1, <1>2, IfStackElement
    <2>2. u[st[k]] = s[st[k]] /\ st[k] \in 1..(n + 1)
      BY <1>1, <2>1 DEF Continues
    <2>3. Selected(u, st[k]) <=> Selected(s, st[k])
      BY <2>2, SelectedKept
    <2>4. CASE k \in 1..Len(conds)
      BY <2>2, <2>4 DEF Structured, FrameIsTrue, Known
    <2>5. CASE k \in (Len(conds) + 1)..Len(st)
      BY <2>3, <2>5
    <2>6. QED BY <1>2, <2>4, <2>5
  <1>4. ~(u[n + 1].role = "ifunknown" /\ Selected(u, n + 1))
    <2>1. n + 1 \in 1..(n + 1)
      BY <1>1
    <2>2. QED BY <1>1, <2>1, SelectedKept
  <1>5. Enclosing(u, n + 1) = { st[k] : k \in 1..Len(st) }
    BY <1>2, IfStackEnds
  <1>6. QED BY <1>3, <1>4, <1>5 DEF Captured

LEMMA FateCaptured ==
  ASSUME NEW s, NEW u, NEW t, Grows(u, s, t), NEW st, IfStack(s, st),
         \/ \E k \in 1..Len(st) : s[st[k]].role = "ifunknown" /\ Selected(s, st[k])
         \/ t.role = "ifunknown" /\ Selected(s, Len(s) + 1)
  PROVE  Fate(u, Len(s) + 1) = "captured"
PROOF
  <1> DEFINE n == Len(s)
  <1>1. n \in Nat /\ IsText(s) /\ IsText(u) /\ Continues(u, s) /\ u[n + 1] = t
    BY DEF Grows, IsText
  <1>2. Enclosing(u, n + 1) = { st[k] : k \in 1..Len(st) }
    BY IfStackEnds
  <1>3. CASE \E k \in 1..Len(st) : s[st[k]].role = "ifunknown" /\ Selected(s, st[k])
    <2>1. PICK k \in 1..Len(st) : s[st[k]].role = "ifunknown" /\ Selected(s, st[k])
      BY <1>3
    <2>2. st[k] \in 1..n
      BY <1>1, IfStackElement
    <2>3. u[st[k]] = s[st[k]] /\ st[k] \in 1..(n + 1)
      BY <1>1, <2>2 DEF Continues
    <2>4. Selected(u, st[k])
      BY <2>1, <2>3, SelectedKept
    <2>5. QED BY <1>2, <2>1, <2>3, <2>4 DEF Fate, Captured
  <1>4. CASE t.role = "ifunknown" /\ Selected(s, n + 1)
    <2>1. n + 1 \in 1..(n + 1)
      BY <1>1
    <2>2. Selected(u, n + 1)
      BY <1>4, <2>1, SelectedKept
    <2>3. QED BY <1>1, <1>4, <2>2 DEF Fate, Captured
  <1>5. QED BY <1>3, <1>4

LEMMA FatePlain ==
  ASSUME NEW s, NEW u, NEW t, Grows(u, s, t), ~Captured(u, Len(s) + 1), t.role \notin Routes
  PROVE  Fate(u, Len(s) + 1) = IF Selected(s, Len(s) + 1) THEN "executed" ELSE "skipped"
PROOF
  <1>1. Len(s) \in Nat /\ u[Len(s) + 1] = t
    BY DEF Grows, IsText
  <1>2. Len(s) + 1 \in 1..(Len(s) + 1)
    BY <1>1
  <1>3. Selected(u, Len(s) + 1) <=> Selected(s, Len(s) + 1)
    BY <1>2, SelectedKept
  <1>4. QED BY <1>1, <1>3 DEF Fate, Routes

(* A delimiter is executed when the innermost conditional is reached by    *)
(* execution and no part of it was taken before the one that ends.         *)
LEMMA FateRoute ==
  ASSUME NEW s, NEW u, NEW t, Grows(u, s, t), ~Captured(u, Len(s) + 1), t.role \in Routes,
         NEW st, IfStack(s, st), st # <<>>
  PROVE  Fate(u, Len(s) + 1) =
           IF /\ Selected(s, st[Len(st)])
              /\ \/ t.role = "fi"
                 \/ ~\E q \in 0..(Part(s, st[Len(st)], Len(s) + 1) - 1) :
                        Taken(s, st[Len(st)], Len(s) + 1, q)
           THEN "executed" ELSE "skipped"
PROOF
  <1> DEFINE n == Len(s)
             c == st[Len(st)]
  <1>1. n \in Nat /\ IsText(s) /\ IsText(u) /\ Continues(u, s) /\ u[n + 1] = t
    BY DEF Grows, IsText
  <1>2. Len(st) \in 1..Len(st) /\ Innermost(u, n + 1) = {c}
    BY IfStackEnds
  <1>3. c \in 1..n
    BY <1>1, <1>2, IfStackElement
  <1>4. c \in 1..(n + 1) /\ n + 1 \in 1..(n + 1)
    BY <1>1, <1>3
  <1>5. Selected(u, c) <=> Selected(s, c)
    BY <1>4, SelectedKept
  <1>6. /\ Part(u, c, n + 1) = Part(s, c, n + 1)
        /\ \A q : Taken(u, c, n + 1, q) <=> Taken(s, c, n + 1, q)
    BY <1>1, <1>3, <1>4, TakenSame
  <1>7. Met(u, n + 1) <=> /\ Selected(s, c)
                          /\ \/ t.role = "fi"
                             \/ ~\E q \in 0..(Part(s, c, n + 1) - 1) : Taken(s, c, n + 1, q)
    BY <1>1, <1>2, <1>5, <1>6 DEF Met
  <1>8. QED BY <1>1, <1>7 DEF Fate, Routes

LEMMA FateRouted ==
  ASSUME NEW s, NEW u, NEW t, Grows(u, s, t), NEW st, NEW conds, Structured(s, st, conds),
         Len(st) = Len(conds), Len(conds) # 0, t.role \in Routes,
         t.role = "fi" \/ ~(conds[Len(conds)].truth /\ conds[Len(conds)].inAlternative)
  PROVE  Fate(u, Len(s) + 1) = "executed"
PROOF
  <1> DEFINE n == Len(s)
             c == st[Len(st)]
             f == conds[Len(conds)]
  <1>1. /\ IfStack(s, st) /\ Len(conds) \in 0..Len(st) /\ Len(st) \in Nat /\ st \in Seq(Nat)
        /\ n \in Nat /\ IsText(s)
    BY DEF Structured, IfStack, IsStack, Grows, IsText
  <1>2. t.role # "ifunknown"
    BY DEF Routes, Delimiters
  <1>3. ~Captured(u, n + 1)
    <2>1. (Len(conds) + 1)..Len(st) = {}
      BY <1>1
    <2>2. QED BY <1>2, <2>1, NotCaptured
  <1>4. st # <<>> /\ Len(st) \in 1..Len(st)
    BY <1>1
  <1>5. FrameIsTrue(s, c, f) /\ Selected(s, c)
    BY <1>4 DEF Structured
  <1>6. c \in 1..n
    BY <1>1, <1>4, IfStackElement
  <1>7. (\E q \in 0..(Part(s, c, n + 1) - 1) : Taken(s, c, n + 1, q)) <=> f.truth /\ f.inAlternative
    BY <1>1, <1>5, <1>6, FramePast
  <1>8. QED BY <1>1, <1>3, <1>4, <1>5, <1>7, FateRoute

LEMMA FateSkipped ==
  ASSUME NEW s, NEW u, NEW t, Grows(u, s, t), NEW st, NEW conds, Structured(s, st, conds),
         Len(conds) # 0, ~Executes(conds[Len(conds)]),
         \A k \in (Len(conds) + 1)..Len(st) : ~Selected(s, st[k]),
         t.role \in Routes =>
           \/ Len(conds) < Len(st)
           \/ t.role # "fi" /\ conds[Len(conds)].truth /\ conds[Len(conds)].inAlternative
  PROVE  Fate(u, Len(s) + 1) = "skipped"
PROOF
  <1> DEFINE n == Len(s)
             c == st[Len(st)]
             f == conds[Len(conds)]
  <1>1. /\ IfStack(s, st) /\ Len(conds) \in 0..Len(st) /\ Len(st) \in Nat /\ st \in Seq(Nat)
        /\ n \in Nat /\ IsText(s)
    <2>1. IsText(s)
      BY DEF Grows
    <2>2. n \in Nat
      BY <2>1 DEF IsText
    <2>3. IfStack(s, st) /\ Len(conds) \in 0..Len(st)
      BY DEF Structured
    <2>4. st \in Seq(Nat)
      BY <2>3 DEF IfStack, IsStack
    <2>5. Len(st) \in Nat
      BY <2>4
    <2> QED
      BY <2>1, <2>2, <2>3, <2>4, <2>5
  <1>2. ~Selected(s, n + 1)
    BY <1>1, SelectedAtEnd
  <1>3. ~Captured(u, n + 1)
    BY <1>2, NotCaptured
  <1>4. CASE t.role \notin Routes
    BY <1>2, <1>3, <1>4, FatePlain
  <1>5. CASE t.role \in Routes
    <2>1. st # <<>> /\ Len(st) \in 1..Len(st)
      BY <1>1
    <2>2. CASE Len(conds) < Len(st)
      <3>1. ~Selected(s, c)
        BY <1>1, <2>2
      <3>2. QED BY <1>1, <1>3, <1>5, <2>1, <3>1, FateRoute
    <2>3. CASE Len(conds) = Len(st)
      <3>1. FrameIsTrue(s, c, f)
        BY <2>1, <2>3 DEF Structured
      <3>2. c \in 1..n
        BY <1>1, <2>1, IfStackElement
      <3>3. \E q \in 0..(Part(s, c, n + 1) - 1) : Taken(s, c, n + 1, q)
        BY <1>1, <1>5, <2>3, <3>1, <3>2, FramePast
      <3>4. t.role # "fi"
        BY <1>1, <1>5, <2>3
      <3>5. QED BY <1>1, <1>3, <1>5, <2>1, <3>3, <3>4, FateRoute
    <2>4. QED BY <1>1, <2>2, <2>3
  <1>6. QED BY <1>4, <1>5

(***************************************************************************)
(* The groups, and what the reader has to refuse.                          *)
(***************************************************************************)
GroupStack(s, gs) == IsStack(gs, Executed(s, "open"), Executed(s, "close"), Len(s))

Grouped(s, kinds) ==
  \E gs : /\ GroupStack(s, gs) /\ Len(kinds) = Len(gs)
          /\ \A k \in 1..Len(gs) : kinds[k] = s[gs[k]].kind

LEMMA GroupStackStep ==
  ASSUME NEW s, NEW u, NEW t, Grows(u, s, t), NEW gs, GroupStack(s, gs)
  PROVE  /\ t.role \notin {"open", "close"} \/ Fate(u, Len(s) + 1) # "executed" => GroupStack(u, gs)
         /\ t.role = "open" /\ Fate(u, Len(s) + 1) = "executed"
              => GroupStack(u, Append(gs, Len(s) + 1))
         /\ t.role = "close" /\ Fate(u, Len(s) + 1) = "executed" /\ gs # <<>>
              => GroupStack(u, SubSeq(gs, 1, Len(gs) - 1))
PROOF
  <1> DEFINE n == Len(s)
             U == Executed(u, "open")
             D == Executed(u, "close")
  <1>1. n \in Nat /\ Len(u) = n + 1 /\ IsText(s) /\ IsText(u) /\ Continues(u, s) /\ u[n + 1] = t
    BY DEF Grows, IsText
  <1>2. Positions(Executed(s, "open")) /\ Positions(U) /\ Positions(D)
    BY <1>1, TextPositions
  <1>3. AgreeUpTo(Executed(s, "open"), U, n)
    BY <1>1, ExecutedAgree
  <1>4. AgreeUpTo(Executed(s, "close"), D, n)
    BY <1>1, ExecutedAgree
  <1>5. IsStack(gs, U, D, n)
    BY <1>1, <1>2, <1>3, <1>4, StackSame DEF GroupStack
  <1>6. n + 1 \in DOMAIN u
    BY <1>1 DEF IsText
  <1>7. /\ n + 1 \in U <=> t.role = "open" /\ Fate(u, n + 1) = "executed"
        /\ n + 1 \in D <=> t.role = "close" /\ Fate(u, n + 1) = "executed"
    BY <1>1, <1>6 DEF Executed
  <1>8. ASSUME t.role \notin {"open", "close"} \/ Fate(u, n + 1) # "executed"
        PROVE  GroupStack(u, gs)
    <2>1. n + 1 \notin U /\ n + 1 \notin D
      BY <1>7, <1>8
    <2>2. IsStack(gs, U, D, n + 1)
      BY <1>1, <1>2, <1>5, <2>1, StackNeutral
    <2>3. QED BY <1>1, <2>2 DEF GroupStack
  <1>9. ASSUME t.role = "open" /\ Fate(u, n + 1) = "executed"
        PROVE  GroupStack(u, Append(gs, n + 1))
    <2>1. n + 1 \in U /\ n + 1 \notin D
      BY <1>7, <1>9
    <2>2. IsStack(Append(gs, n + 1), U, D, n + 1)
      BY <1>1, <1>2, <1>5, <2>1, StackPush
    <2>3. QED BY <1>1, <2>2 DEF GroupStack
  <1>10. ASSUME t.role = "close" /\ Fate(u, n + 1) = "executed", gs # <<>>
         PROVE  GroupStack(u, SubSeq(gs, 1, Len(gs) - 1))
    <2>1. n + 1 \notin U /\ n + 1 \in D
      BY <1>7, <1>10
    <2>2. IsStack(SubSeq(gs, 1, Len(gs) - 1), U, D, n + 1)
      BY <1>1, <1>2, <1>5, <1>10, <2>1, StackPop
    <2>3. QED BY <1>1, <2>2 DEF GroupStack
  <1>11. QED BY <1>8, <1>9, <1>10

LEMMA GroupElement ==
  ASSUME NEW s, NEW u, NEW t, Grows(u, s, t), NEW gs, GroupStack(s, gs), NEW k \in 1..Len(gs)
  PROVE  gs[k] \in 1..Len(s) /\ u[gs[k]] = s[gs[k]]
PROOF
  <1>1. Len(s) \in Nat /\ IsText(s) /\ Continues(u, s)
    BY DEF Grows, IsText
  <1>2. gs[k] \in StillOpen(Executed(s, "open"), Executed(s, "close"), Len(s) + 1)
    BY DEF GroupStack, IsStack
  <1>3. Positions(Executed(s, "open"))
    BY <1>1, TextPositions
  <1>4. gs[k] \in 1..Len(s)
    BY <1>1, <1>2, <1>3, StillOpenPosition
  <1>5. QED BY <1>1, <1>4 DEF Continues

LEMMA GroupedKept ==
  ASSUME NEW s, NEW u, NEW t, Grows(u, s, t), NEW kinds, Grouped(s, kinds),
         t.role \notin {"open", "close"} \/ Fate(u, Len(s) + 1) # "executed"
  PROVE  Grouped(u, kinds)
PROOF
  <1>1. PICK gs : /\ GroupStack(s, gs) /\ Len(kinds) = Len(gs)
                  /\ \A k \in 1..Len(gs) : kinds[k] = s[gs[k]].kind
    BY DEF Grouped
  <1>2. GroupStack(u, gs)
    BY <1>1, GroupStackStep
  <1>3. \A k \in 1..Len(gs) : kinds[k] = u[gs[k]].kind
    BY <1>1, GroupElement
  <1>4. QED BY <1>1, <1>2, <1>3 DEF Grouped

LEMMA GroupedBegun ==
  ASSUME NEW s, NEW u, NEW t, Grows(u, s, t), NEW K, NEW kinds \in Seq(K), Grouped(s, kinds),
         t.role = "open", t.kind \in K, Fate(u, Len(s) + 1) = "executed"
  PROVE  Grouped(u, Append(kinds, t.kind))
PROOF
  <1> DEFINE groups2 == Append(kinds, t.kind)
  <1>1. PICK gs : /\ GroupStack(s, gs) /\ Len(kinds) = Len(gs)
                  /\ \A k \in 1..Len(gs) : kinds[k] = s[gs[k]].kind
    BY DEF Grouped
  <1> DEFINE gs2 == Append(gs, Len(s) + 1)
  <1>2. GroupStack(u, gs2)
    BY <1>1, GroupStackStep
  <1>3. /\ Len(kinds) \in Nat /\ Len(groups2) = Len(kinds) + 1 /\ groups2[Len(kinds) + 1] = t.kind
        /\ \A k \in 1..Len(kinds) : groups2[k] = kinds[k]
    OBVIOUS
  <1>4. /\ Len(gs2) = Len(gs) + 1 /\ gs2[Len(gs) + 1] = Len(s) + 1
        /\ \A k \in 1..Len(gs) : gs2[k] = gs[k]
    BY <1>1 DEF GroupStack, IsStack, Grows, IsText
  <1>5. u[Len(s) + 1] = t
    BY DEF Grows
  <1>6. \A k \in 1..Len(gs) : kinds[k] = u[gs[k]].kind
    BY <1>1, GroupElement
  <1>7. \A k \in 1..Len(gs2) : groups2[k] = u[gs2[k]].kind
    <2>1. TAKE k \in 1..Len(gs2)
    <2>2. CASE k = Len(gs) + 1
      BY <1>1, <1>3, <1>4, <1>5, <2>2
    <2>3. CASE k \in 1..Len(gs)
      BY <1>1, <1>3, <1>4, <1>6, <2>3
    <2>4. QED BY <1>1, <1>3, <1>4, <2>2, <2>3
  <1>8. Len(groups2) = Len(gs2)
    BY <1>1, <1>3, <1>4
  <1>9. QED BY <1>2, <1>7, <1>8 DEF Grouped

LEMMA GroupedEnded ==
  ASSUME NEW s, NEW u, NEW t, Grows(u, s, t), NEW K, NEW kinds \in Seq(K), Grouped(s, kinds),
         t.role = "close", Len(kinds) # 0, Fate(u, Len(s) + 1) = "executed"
  PROVE  Grouped(u, SubSeq(kinds, 1, Len(kinds) - 1))
PROOF
  <1> DEFINE groups2 == SubSeq(kinds, 1, Len(kinds) - 1)
  <1>1. PICK gs : /\ GroupStack(s, gs) /\ Len(kinds) = Len(gs)
                  /\ \A k \in 1..Len(gs) : kinds[k] = s[gs[k]].kind
    BY DEF Grouped
  <1> DEFINE gs2 == SubSeq(gs, 1, Len(gs) - 1)
  <1>2. gs \in Seq(Nat) /\ gs # <<>> /\ Len(gs) \in Nat /\ Len(gs) - 1 \in 0..Len(gs)
    BY <1>1 DEF GroupStack, IsStack
  <1>3. GroupStack(u, gs2)
    BY <1>1, <1>2, GroupStackStep
  <1>4. Len(gs2) = Len(gs) - 1 /\ \A k \in 1..(Len(gs) - 1) : gs2[k] = gs[k]
    BY <1>2, SubTop
  <1>5. Len(groups2) = Len(gs) - 1 /\ \A k \in 1..(Len(gs) - 1) : groups2[k] = kinds[k]
    BY <1>1, <1>2, SubTop
  <1>6. \A k \in 1..Len(gs) : kinds[k] = u[gs[k]].kind
    BY <1>1, GroupElement
  <1>7. \A k \in 1..Len(gs2) : groups2[k] = u[gs2[k]].kind
    <2>1. PICK l \in Nat \ {0} : l = Len(gs)
      BY <1>1, <1>2 DEF GroupStack, IsStack
    <2>2. \A k \in 1..(l - 1) : k \in 1..l
      BY <2>1
    <2>3. \A k \in 1..(l - 1) : gs2[k] = gs[k] /\ groups2[k] = kinds[k]
      BY <1>4, <1>5, <2>1
    <2>4. \A k \in 1..(l - 1) : groups2[k] = u[gs2[k]].kind
      BY <1>6, <2>1, <2>2, <2>3
    <2>5. QED BY <1>4, <2>1, <2>4
  <1>8. Len(groups2) = Len(gs2)
    BY <1>4, <1>5
  <1> HIDE DEF groups2, gs2
  <1>9. Grouped(u, groups2)
    BY <1>3, <1>7, <1>8 DEF Grouped
  <1>10. QED BY <1>9 DEF groups2

(* The innermost group is the top of the reader's stack. *)
LEMMA AnswerTrue ==
  ASSUME NEW s, NEW u, NEW t, Grows(u, s, t), NEW kinds, Grouped(s, kinds)
  PROVE  Unanswered(u, Len(s) + 1) <=> ~(Len(kinds) # 0 /\ kinds[Len(kinds)] = t.kind)
PROOF
  <1>1. PICK gs : /\ GroupStack(s, gs) /\ Len(kinds) = Len(gs)
                  /\ \A k \in 1..Len(gs) : kinds[k] = s[gs[k]].kind
    BY DEF Grouped
  <1>2. Len(s) \in Nat /\ IsText(s) /\ IsText(u) /\ Continues(u, s) /\ u[Len(s) + 1] = t
    BY DEF Grows, IsText
  <1>3. OpenGroups(u, Len(s) + 1) = OpenGroups(s, Len(s) + 1)
    BY <1>2, OpenGroupsSame
  <1>4. /\ Len(gs) \in Nat /\ gs \in Seq(Nat)
        /\ gs = <<>> => Latest(OpenGroups(u, Len(s) + 1)) = {}
        /\ gs # <<>> => Len(gs) \in 1..Len(gs) /\ Latest(OpenGroups(u, Len(s) + 1)) = {gs[Len(gs)]}
    <2>1. IsStack(gs, Executed(s, "open"), Executed(s, "close"), Len(s))
      BY <1>1 DEF GroupStack
    <2>2. gs \in Seq(Nat)
      BY <2>1 DEF IsStack
    <2>3. QED BY <1>2, <1>3, <2>1, <2>2, LatestOfStack DEF OpenGroups
  <1>5. CASE gs = <<>>
    BY <1>1, <1>4, <1>5 DEF Unanswered
  <1>6. CASE gs # <<>>
    <2>1. kinds[Len(kinds)] = u[gs[Len(gs)]].kind
      BY <1>1, <1>4, <1>6, GroupElement
    <2>2. Len(kinds) # 0
      BY <1>1, <1>4, <1>6
    <2>3. QED BY <1>2, <1>4, <1>6, <2>1, <2>2 DEF Unanswered
  <1>7. QED BY <1>5, <1>6

-----------------------------------------------------------------------------
LEMMA RefusedPlain ==
  ASSUME NEW u, NEW i, u[i].role \notin Routes \cup {"invalid"},
         u[i].role = "close" => ~Unanswered(u, i), Fate(u, i) = "executed"
  PROVE  ~Refused(u, i)
BY DEF Refused, Routes, Delimiters

LEMMA RefusedSkipped ==
  ASSUME NEW u, NEW i, u[i].role # "invalid", u[i].role \in Routes => Enclosing(u, i) # {},
         Fate(u, i) = "skipped"
  PROVE  ~Refused(u, i)
BY DEF Refused, Routes

(* A delimiter the reader routes is one TeX accepts, and conversely. *)
LEMMA RefusedRouted ==
  ASSUME NEW s, NEW u, NEW t, Grows(u, s, t), NEW st, NEW conds, Structured(s, st, conds),
         Len(st) = Len(conds), t.role \in Routes,
         \/ t.role = "fi"
         \/ Len(conds) # 0 => ~(conds[Len(conds)].truth /\ conds[Len(conds)].inAlternative)
  PROVE  Refused(u, Len(s) + 1) <=>
           \/ Len(conds) = 0
           \/ t.role \in Delimiters /\ conds[Len(conds)].inAlternative
           \/ t.role = "or" /\ ~conds[Len(conds)].isCase
PROOF
  <1> DEFINE n == Len(s)
             c == st[Len(st)]
             f == conds[Len(conds)]
  <1>1. /\ IfStack(s, st) /\ Len(conds) \in 0..Len(st) /\ Len(st) \in Nat /\ st \in Seq(Nat)
        /\ n \in Nat /\ IsText(s) /\ IsText(u) /\ Continues(u, s) /\ u[n + 1] = t
    BY DEF Structured, IfStack, IsStack, Grows, IsText
  <1>2. t.role # "invalid" /\ t.role # "close"
    BY DEF Routes, Delimiters
  <1>3. CASE Len(conds) = 0
    <2>1. st = <<>>
      BY <1>1, <1>3
    <2>2. Enclosing(u, n + 1) = {}
      BY <1>1, <2>1, IfStackEnds
    <2>3. QED BY <1>1, <1>3, <2>2 DEF Refused, Routes
  <1>4. CASE Len(conds) # 0
    <2>1. Fate(u, n + 1) = "executed"
      BY <1>4, FateRouted
    <2>2. st # <<>> /\ Len(st) \in 1..Len(st)
      BY <1>1, <1>4
    <2>3. Innermost(u, n + 1) = {c} /\ c \in Enclosing(u, n + 1)
      BY <1>1, <2>2, IfStackEnds
    <2>4. c \in 1..n
      BY <1>1, <2>2, IfStackElement
    <2>5. FrameIsTrue(s, c, f)
      BY <2>2 DEF Structured
    <2>6. u[c] = s[c] /\ Own(u, c, n + 1) = Own(s, c, n + 1)
      <3>1. n + 1 \in 1..(n + 1)
        BY <1>1
      <3>2. Own(u, c, n + 1) = Own(s, c, n + 1)
        BY <1>1, <2>4, <3>1, OwnSame
      <3>3. QED BY <1>1, <2>4, <3>2 DEF Continues
    <2>7. \A d \in Own(s, c, n + 1) : u[d] = s[d]
      BY <2>4, PartStep
    <2>8. t.role \in Delimiters => (AfterElse(u, n + 1) <=> f.inAlternative)
      <3>1. AfterElse(u, n + 1) <=> \E d \in Own(s, c, n + 1) : s[d].role = "else"
        BY <2>3, <2>6, <2>7 DEF AfterElse
      <3>2. ~f.inAlternative => \A d \in Own(s, c, n + 1) : s[d].role = "or"
        BY <2>5 DEF FrameIsTrue
      <3>3. ~f.truth /\ f.inAlternative => \E d \in Own(s, c, n + 1) : s[d].role = "else"
        BY <2>5 DEF FrameIsTrue
      <3>4. t.role \in Delimiters => ~(f.truth /\ f.inAlternative)
        BY <1>4 DEF Delimiters
      <3>5. f.inAlternative \in BOOLEAN
        BY <2>5 DEF FrameIsTrue
      <3>6. QED BY <3>1, <3>2, <3>3, <3>4, <3>5
    <2>9. OfNoCase(u, n + 1) <=> t.role = "or" /\ ~f.isCase
      BY <1>1, <2>3, <2>5, <2>6 DEF OfNoCase, FrameIsTrue
    <2>10. t.role \in Delimiters \cup {"fi"} => Enclosing(u, n + 1) # {}
      BY <2>3
    <2>11. Refused(u, n + 1) <=> t.role \in Delimiters /\ (AfterElse(u, n + 1) \/ OfNoCase(u, n + 1))
      BY <1>1, <1>2, <2>1, <2>10 DEF Refused
    <2>12. QED BY <1>4, <2>8, <2>9, <2>11 DEF Delimiters
  <1>5. QED BY <1>3, <1>4

(***************************************************************************)
(* The branches of a captured conditional: how many groups each has open,  *)
(* and whether its \else was met.                                          *)
(***************************************************************************)
Counted(s, c, r) ==
  Cardinality({ j \in c..Len(s) : s[j].role = r /\ \A d \in Own(s, c, Len(s) + 1) : d < j })

After(s, c, e, r, O) == { j \in c..e : s[j].role = r /\ \A d \in O : d < j }

BranchIsTrue(s, c, b, open) ==
  /\ b.alternative = (\E d \in Own(s, c, Len(s) + 1) : s[d].role = "else")
  /\ open \in Int /\ b.base \in Int /\ b.base <= open
  /\ Counted(s, c, "open") - Counted(s, c, "close") = open - b.base

LEMMA CountedNat ==
  ASSUME NEW s, IsText(s), NEW c \in Int, NEW r
  PROVE  Counted(s, c, r) \in Nat
PROOF
  <1> DEFINE S == { j \in c..Len(s) : s[j].role = r /\ \A d \in Own(s, c, Len(s) + 1) : d < j }
  <1>1. IsFiniteSet(c..Len(s)) /\ S \subseteq c..Len(s)
    <2>1. Len(s) \in Int
      BY DEF IsText
    <2>2. IsFiniteSet(c..Len(s))
      BY <2>1, FS_Interval
    <2>3. QED BY <2>2
  <1>2. IsFiniteSet(S)
    BY <1>1, FS_Subset
  <1>3. Cardinality(S) \in Nat
    BY <1>2, FS_CardinalityType
  <1>4. QED BY <1>3 DEF Counted

(* One more token after the delimiters of O. *)
LEMMA CountedAfter ==
  ASSUME NEW s, NEW u, NEW t, Grows(u, s, t), NEW c \in 1..Len(s), NEW r,
         NEW O, O \subseteq Int, \A d \in O : d <= Len(s)
  PROVE  Cardinality(After(u, c, Len(s) + 1, r, O)) =
           Cardinality(After(s, c, Len(s), r, O)) + (IF t.role = r THEN 1 ELSE 0)
PROOF
  <1> DEFINE n == Len(s)
             S == { j \in c..n : s[j].role = r /\ \A d \in O : d < j }
             S2 == { j \in c..(n + 1) : u[j].role = r /\ \A d \in O : d < j }
  <1>0. After(s, c, n, r, O) = S /\ After(u, c, n + 1, r, O) = S2
    BY DEF After
  <1>1. n \in Nat /\ u[n + 1] = t /\ \A j \in c..n : u[j] = s[j]
    BY DEF Grows, IsText, Continues
  <1>2. IsFiniteSet(S) /\ Cardinality(S) \in Nat
    <2>1. IsFiniteSet(c..n) /\ S \subseteq c..n
      BY <1>1, FS_Interval
    <2>2. QED BY <2>1, FS_Subset, FS_CardinalityType
  <1>3. c..(n + 1) = (c..n) \cup {n + 1} /\ n + 1 \notin c..n
    BY <1>1
  <1>4. ASSUME t.role = r
        PROVE  Cardinality(S2) = Cardinality(S) + 1
    <2>1. S2 = S \cup {n + 1}
      <3>1. u[n + 1].role = r /\ \A d \in O : d < n + 1
        BY <1>1, <1>4
      <3>2. QED BY <1>1, <1>3, <3>1
    <2>2. n + 1 \notin S
      BY <1>3
    <2> HIDE DEF S, S2
    <2>3. QED BY <1>2, <2>1, <2>2, FS_AddElement
  <1>5. ASSUME t.role # r
        PROVE  S2 = S
    BY <1>1, <1>3, <1>5
  <1> HIDE DEF S, S2
  <1>6. CASE t.role = r
    BY <1>0, <1>4, <1>6
  <1>7. CASE t.role # r
    BY <1>0, <1>2, <1>5, <1>7
  <1>8. QED BY <1>6, <1>7

LEMMA CountedStep ==
  ASSUME NEW s, NEW u, NEW t, Grows(u, s, t), NEW c \in 1..Len(s), NEW r
  PROVE  /\ InBranch(u, c, Len(s) + 1, r) = Counted(s, c, r) + (IF t.role = r THEN 1 ELSE 0)
         /\ Own(u, c, Len(u) + 1) = Own(s, c, Len(s) + 1)
              => Counted(u, c, r) = Counted(s, c, r) + (IF t.role = r THEN 1 ELSE 0)
         /\ Len(s) + 1 \in Own(u, c, Len(u) + 1) => Counted(u, c, r) = 0
PROOF
  <1> DEFINE n == Len(s)
             O == Own(s, c, n + 1)
  <1>1. n \in Nat /\ Len(u) = n + 1 /\ IsText(s) /\ IsText(u) /\ Continues(u, s)
    BY DEF Grows, IsText
  <1>2. O \subseteq Int /\ \A d \in O : d <= n
    BY <1>1 DEF Own
  <1>3. Cardinality(After(u, c, n + 1, r, O)) =
          Cardinality(After(s, c, n, r, O)) + (IF t.role = r THEN 1 ELSE 0)
    BY <1>2, CountedAfter
  <1>4. Own(u, c, n + 1) = O
    BY <1>1, OwnSame
  <1>5. InBranch(u, c, n + 1, r) = Counted(s, c, r) + (IF t.role = r THEN 1 ELSE 0)
    BY <1>3, <1>4 DEF InBranch, Counted, After
  <1>6. ASSUME Own(u, c, Len(u) + 1) = O
        PROVE  Counted(u, c, r) = Counted(s, c, r) + (IF t.role = r THEN 1 ELSE 0)
    BY <1>1, <1>3, <1>6 DEF Counted, After
  <1>7. ASSUME n + 1 \in Own(u, c, Len(u) + 1)
        PROVE  Counted(u, c, r) = 0
    <2>1. \A j \in c..Len(u) : ~(n + 1 < j)
      BY <1>1
    <2>2. { j \in c..Len(u) : u[j].role = r /\ \A d \in Own(u, c, Len(u) + 1) : d < j } = {}
      BY <1>7, <2>1
    <2>3. QED BY <2>2, FS_EmptySet DEF Counted
  <1>8. QED BY <1>5, <1>6, <1>7

LEMMA BranchKept ==
  ASSUME NEW s, NEW u, NEW t, Grows(u, s, t), NEW c \in 1..Len(s), NEW b, NEW open,
         BranchIsTrue(s, c, b, open), Own(u, c, Len(u) + 1) = Own(s, c, Len(s) + 1)
  PROVE  /\ t.role \notin {"open", "close"} => BranchIsTrue(u, c, b, open)
         /\ t.role = "open" => BranchIsTrue(u, c, b, open + 1)
         /\ t.role = "close" /\ b.base # open => BranchIsTrue(u, c, b, open - 1)
PROOF
  <1>1. Counted(s, c, "open") \in Nat /\ Counted(s, c, "close") \in Nat
    BY CountedNat DEF Grows
  <1>2. Counted(u, c, "open") = Counted(s, c, "open") + (IF t.role = "open" THEN 1 ELSE 0)
    BY CountedStep
  <1>3. Counted(u, c, "close") = Counted(s, c, "close") + (IF t.role = "close" THEN 1 ELSE 0)
    BY CountedStep
  <1>4. \A d \in Own(s, c, Len(s) + 1) : u[d] = s[d]
    BY PartStep
  <1>5. b.alternative = (\E d \in Own(u, c, Len(u) + 1) : u[d].role = "else")
    <2>1. b.alternative = (\E d \in Own(s, c, Len(s) + 1) : s[d].role = "else")
      BY DEF BranchIsTrue
    <2>2. QED BY <1>4, <2>1
  <1>6. /\ open \in Int /\ b.base \in Int /\ b.base <= open
        /\ Counted(s, c, "open") - Counted(s, c, "close") = open - b.base
    BY DEF BranchIsTrue
  <1>7. ASSUME t.role \notin {"open", "close"}
        PROVE  BranchIsTrue(u, c, b, open)
    <2>1. Counted(u, c, "open") = Counted(s, c, "open") /\ Counted(u, c, "close") = Counted(s, c, "close")
      BY <1>1, <1>2, <1>3, <1>7
    <2>2. QED BY <1>5, <1>6, <2>1 DEF BranchIsTrue
  <1>8. ASSUME t.role = "open"
        PROVE  BranchIsTrue(u, c, b, open + 1)
    <2>1. Counted(u, c, "open") - Counted(u, c, "close") = (open + 1) - b.base
      <3>1. Counted(u, c, "open") = Counted(s, c, "open") + 1 /\ Counted(u, c, "close") = Counted(s, c, "close")
        BY <1>1, <1>2, <1>3, <1>8
      <3>2. PICK x, y, z, w \in Int : /\ x = Counted(s, c, "open") /\ y = Counted(s, c, "close")
                                     /\ z = open /\ w = b.base
        BY <1>1, <1>6
      <3>3. x - y = z - w
        BY <1>6, <3>2
      <3>4. (x + 1) - y = (z + 1) - w
        BY <3>3
      <3>5. QED BY <3>1, <3>2, <3>4
    <2>2. open + 1 \in Int /\ b.base <= open + 1
      BY <1>6
    <2>3. QED BY <1>5, <1>6, <2>1, <2>2 DEF BranchIsTrue
  <1>9. ASSUME t.role = "close" /\ b.base # open
        PROVE  BranchIsTrue(u, c, b, open - 1)
    <2>1. Counted(u, c, "open") - Counted(u, c, "close") = (open - 1) - b.base
      <3>1. Counted(u, c, "open") = Counted(s, c, "open") /\ Counted(u, c, "close") = Counted(s, c, "close") + 1
        BY <1>1, <1>2, <1>3, <1>9
      <3>2. PICK x, y, z, w \in Int : /\ x = Counted(s, c, "open") /\ y = Counted(s, c, "close")
                                     /\ z = open /\ w = b.base
        BY <1>1, <1>6
      <3>3. x - y = z - w
        BY <1>6, <3>2
      <3>4. x - (y + 1) = (z - 1) - w
        BY <3>3
      <3>5. QED BY <3>1, <3>2, <3>4
    <2>2. open - 1 \in Int /\ b.base <= open - 1
      <3>1. PICK x, y \in Int : x = b.base /\ y = open
        BY <1>6
      <3>2. x <= y /\ x # y
        BY <1>6, <1>9, <3>1
      <3>3. QED BY <3>1, <3>2
    <2>3. QED BY <1>5, <1>6, <2>1, <2>2 DEF BranchIsTrue
  <1>10. QED BY <1>7, <1>8, <1>9

LEMMA BranchDelimited ==
  ASSUME NEW s, NEW u, NEW t, Grows(u, s, t), NEW c \in 1..Len(s), NEW b, NEW open,
         BranchIsTrue(s, c, b, open), t.role \in Delimiters, b.base = open, b.alternative = FALSE,
         Own(u, c, Len(u) + 1) = Own(s, c, Len(s) + 1) \cup {Len(s) + 1},
         NEW b2, b2.base = b.base,
         \/ t.role = "else" /\ b2.alternative = TRUE
         \/ t.role = "or" /\ b2.alternative = FALSE
  PROVE  BranchIsTrue(u, c, b2, open)
PROOF
  <1>1. Counted(u, c, "open") = 0 /\ Counted(u, c, "close") = 0
    BY CountedStep
  <1>2. \A d \in Own(s, c, Len(s) + 1) : u[d] = s[d] /\ s[d].role # "else"
    BY PartStep DEF BranchIsTrue
  <1>3. u[Len(s) + 1] = t
    BY DEF Grows
  <1>4. b2.alternative = (\E d \in Own(u, c, Len(u) + 1) : u[d].role = "else")
    <2>1. (\E d \in Own(u, c, Len(u) + 1) : u[d].role = "else") <=> t.role = "else"
      BY <1>2, <1>3
    <2>2. QED BY <2>1
  <1>5. open \in Int /\ b2.base = open
    BY DEF BranchIsTrue
  <1>6. open <= open /\ 0 - 0 = open - open
    BY <1>5
  <1>7. QED BY <1>1, <1>4, <1>5, <1>6 DEF BranchIsTrue

LEMMA BranchOpened ==
  ASSUME NEW s, NEW u, NEW t, Grows(u, s, t), t.role \in Openers, NEW b, NEW open \in Int,
         b.base = open, b.alternative = FALSE
  PROVE  BranchIsTrue(u, Len(u), b, open)
PROOF
  <1>1. Own(u, Len(u), Len(u) + 1) = {} /\ Len(u) \in Nat /\ u[Len(u)] = t
    BY OwnOfNew DEF Grows, IsText
  <1>2. \A j \in Len(u)..Len(u) : j = Len(u)
    BY <1>1
  <1>3. t.role # "open" /\ t.role # "close"
    BY DEF Openers
  <1>4. { j \in Len(u)..Len(u) : u[j].role = "open" /\ \A d \in Own(u, Len(u), Len(u) + 1) : d < j } = {}
    BY <1>1, <1>2, <1>3
  <1>5. { j \in Len(u)..Len(u) : u[j].role = "close" /\ \A d \in Own(u, Len(u), Len(u) + 1) : d < j } = {}
    BY <1>1, <1>2, <1>3
  <1>6. Counted(u, Len(u), "open") = 0 /\ Counted(u, Len(u), "close") = 0
    BY <1>4, <1>5, FS_EmptySet DEF Counted
  <1>7. open <= open /\ 0 - 0 = open - open
    OBVIOUS
  <1>8. b.alternative = (\E d \in Own(u, Len(u), Len(u) + 1) : u[d].role = "else")
    BY <1>1
  <1>9. QED BY <1>6, <1>7, <1>8 DEF BranchIsTrue

(* What raw capture refuses is what no capture can keep. *)
LEMMA RefusedCaptured ==
  ASSUME NEW s, NEW u, NEW t, Grows(u, s, t), NEW st, IfStack(s, st), Len(st) # 0, NEW b, NEW open,
         BranchIsTrue(s, st[Len(st)], b, open), Fate(u, Len(s) + 1) = "captured"
  PROVE  Refused(u, Len(s) + 1) <=>
           \/ t.role \in {"invalid", "ifcase"}
           \/ t.role \in {"open", "close"} /\ t.kind # "simple"
           \/ t.role = "close" /\ open = b.base
           \/ t.role \in Routes /\ open # b.base
           \/ t.role \in Delimiters /\ b.alternative
PROOF
  <1> DEFINE n == Len(s)
             c == st[Len(st)]
             i == n + 1
  <1>1. /\ Len(st) \in Nat /\ st \in Seq(Nat)
        /\ n \in Nat /\ IsText(s) /\ IsText(u) /\ Continues(u, s) /\ u[i] = t
    BY DEF IfStack, IsStack, Grows, IsText
  <1>2. st # <<>> /\ Len(st) \in 1..Len(st)
    BY <1>1
  <1>3. Innermost(u, i) = {c} /\ c \in Enclosing(u, i)
    BY <1>2, IfStackEnds
  <1>4. c \in 1..n
    BY <1>1, <1>2, IfStackElement
  <1>5. Counted(s, c, "open") \in Nat /\ Counted(s, c, "close") \in Nat
    BY <1>1, <1>4, CountedNat
  <1>6. InBranch(u, c, i, "open") = Counted(s, c, "open") + (IF t.role = "open" THEN 1 ELSE 0)
    BY <1>4, CountedStep
  <1>7. InBranch(u, c, i, "close") = Counted(s, c, "close") + (IF t.role = "close" THEN 1 ELSE 0)
    BY <1>4, CountedStep
  <1>8. /\ open \in Int /\ b.base \in Int /\ b.base <= open
        /\ Counted(s, c, "open") - Counted(s, c, "close") = open - b.base
    BY DEF BranchIsTrue
  <1>9. ASSUME t.role = "close"
        PROVE  InBranch(u, c, i, "close") > InBranch(u, c, i, "open") <=> open = b.base
    BY <1>5, <1>6, <1>7, <1>8, <1>9
  <1>10. ASSUME t.role \in Routes
         PROVE  InBranch(u, c, i, "close") # InBranch(u, c, i, "open") <=> open # b.base
    <2>1. t.role # "open" /\ t.role # "close"
      BY <1>10 DEF Routes, Delimiters
    <2>2. QED BY <1>5, <1>6, <1>7, <1>8, <2>1
  <1>11. Crosses(u, i) <=> \/ t.role = "close" /\ open = b.base
                           \/ t.role \in Routes /\ open # b.base
    BY <1>1, <1>3, <1>9, <1>10 DEF Crosses, Routes
  <1>12. AfterElse(u, i) <=> b.alternative
    <2>1. Own(u, c, i) = Own(s, c, i)
      BY <1>1, <1>4, OwnSame
    <2>2. \A d \in Own(s, c, i) : u[d] = s[d]
      BY <1>4, PartStep
    <2>3. b.alternative = (\E d \in Own(s, c, i) : s[d].role = "else")
      BY DEF BranchIsTrue
    <2>4. QED BY <1>3, <2>1, <2>2, <2>3 DEF AfterElse
  <1>13. Enclosing(u, i) # {}
    BY <1>3
  <1>14. QED BY <1>1, <1>11, <1>12, <1>13 DEF Refused, Routes

LEMMA RefusedUnknown ==
  ASSUME NEW u, NEW i, u[i].role = "ifunknown", Fate(u, i) = "captured"
  PROVE  ~Refused(u, i)
BY DEF Refused, Crosses, Delimiters

(***************************************************************************)
(* The reader's stacks stand for a text that was read to its end: one      *)
(* frame per open conditional, one kind per open group, and every frame    *)
(* but the innermost executes.                                             *)
(***************************************************************************)
Sound(s, conds, kinds) ==
  /\ \E st : Structured(s, st, conds) /\ Len(st) = Len(conds)
  /\ Grouped(s, kinds)
  /\ \A k \in 1..(Len(conds) - 1) : Executes(conds[k])

AllExecute(conds) == \A k \in 1..Len(conds) : Executes(conds[k])

LEMMA ExecutedHere ==
  ASSUME NEW s, NEW u, NEW t, Grows(u, s, t), NEW conds, NEW kinds, Sound(s, conds, kinds),
         AllExecute(conds), t.role \notin Routes \cup {"ifunknown"}
  PROVE  /\ Selected(s, Len(s) + 1)
         /\ Fate(u, Len(s) + 1) = "executed"
PROOF
  <1>1. PICK st : Structured(s, st, conds) /\ Len(st) = Len(conds)
    BY DEF Sound
  <1>2. IsText(s)
    BY DEF Grows
  <1>3. Selected(s, Len(s) + 1)
    BY <1>1, <1>2, SelectedAtEnd DEF AllExecute
  <1>4. (Len(conds) + 1)..Len(st) = {}
    BY <1>1, StructuredLengths
  <1>5. ~Captured(u, Len(s) + 1)
    BY <1>1, <1>4, NotCaptured
  <1>6. QED BY <1>3, <1>5, FatePlain

(* A command, an input or a character that is dropped. *)
LEMMA SoundPlain ==
  ASSUME NEW s, NEW u, NEW t, Grows(u, s, t), NEW conds, NEW kinds, Sound(s, conds, kinds),
         AllExecute(conds), t.role \notin Routes \cup Openers \cup {"open", "close"}
  PROVE  /\ Sound(u, conds, kinds) /\ Fate(u, Len(s) + 1) = "executed"
         /\ t.role # "invalid" => ~Refused(u, Len(s) + 1)
PROOF
  <1>1. PICK st : Structured(s, st, conds) /\ Len(st) = Len(conds)
    BY DEF Sound
  <1>2. Fate(u, Len(s) + 1) = "executed"
    BY ExecutedHere DEF Openers
  <1>3. Structured(u, st, conds)
    BY <1>1, StructuredPlain DEF Routes
  <1>4. Grouped(u, kinds)
    BY GroupedKept DEF Sound
  <1>5. u[Len(s) + 1] = t
    BY DEF Grows
  <1>6. t.role # "invalid" => ~Refused(u, Len(s) + 1)
    BY <1>2, <1>5, RefusedPlain
  <1>7. QED BY <1>1, <1>2, <1>3, <1>4, <1>6 DEF Sound

LEMMA SoundBegun ==
  ASSUME NEW s, NEW u, NEW t, Grows(u, s, t), NEW conds, NEW K, NEW kinds \in Seq(K),
         Sound(s, conds, kinds), AllExecute(conds), t.role = "open", t.kind \in K
  PROVE  /\ Sound(u, conds, Append(kinds, t.kind)) /\ Fate(u, Len(s) + 1) = "executed"
         /\ ~Refused(u, Len(s) + 1)
PROOF
  <1>1. PICK st : Structured(s, st, conds) /\ Len(st) = Len(conds)
    BY DEF Sound
  <1>2. Fate(u, Len(s) + 1) = "executed"
    BY ExecutedHere DEF Routes, Delimiters
  <1>3. Structured(u, st, conds)
    BY <1>1, StructuredPlain DEF Delimiters, Openers
  <1>4. Grouped(u, Append(kinds, t.kind))
    BY <1>2, GroupedBegun DEF Sound
  <1>5. u[Len(s) + 1] = t
    BY DEF Grows
  <1>6. ~Refused(u, Len(s) + 1)
    BY <1>2, <1>5, RefusedPlain DEF Routes, Delimiters
  <1>7. QED BY <1>1, <1>2, <1>3, <1>4, <1>6 DEF Sound

LEMMA SoundEnded ==
  ASSUME NEW s, NEW u, NEW t, Grows(u, s, t), NEW conds, NEW K, NEW kinds \in Seq(K),
         Sound(s, conds, kinds), AllExecute(conds), t.role = "close"
  PROVE  /\ Len(kinds) # 0 /\ kinds[Len(kinds)] = t.kind =>
              /\ Sound(u, conds, SubSeq(kinds, 1, Len(kinds) - 1))
              /\ Fate(u, Len(s) + 1) = "executed" /\ ~Refused(u, Len(s) + 1)
         /\ ~(Len(kinds) # 0 /\ kinds[Len(kinds)] = t.kind) => Refused(u, Len(s) + 1)
PROOF
  <1>1. PICK st : Structured(s, st, conds) /\ Len(st) = Len(conds)
    BY DEF Sound
  <1>2. Fate(u, Len(s) + 1) = "executed"
    BY ExecutedHere DEF Routes, Delimiters
  <1>3. Structured(u, st, conds)
    BY <1>1, StructuredPlain DEF Delimiters, Openers
  <1>4. u[Len(s) + 1] = t
    BY DEF Grows
  <1>5. Grouped(s, kinds)
    BY DEF Sound
  <1>6. Unanswered(u, Len(s) + 1) <=> ~(Len(kinds) # 0 /\ kinds[Len(kinds)] = t.kind)
    BY <1>5, AnswerTrue
  <1>7. ASSUME Len(kinds) # 0 /\ kinds[Len(kinds)] = t.kind
        PROVE  /\ Sound(u, conds, SubSeq(kinds, 1, Len(kinds) - 1))
               /\ ~Refused(u, Len(s) + 1)
    <2>1. Grouped(u, SubSeq(kinds, 1, Len(kinds) - 1))
      BY <1>2, <1>5, <1>7, GroupedEnded
    <2>2. ~Refused(u, Len(s) + 1)
      BY <1>2, <1>4, <1>6, <1>7, RefusedPlain DEF Routes, Delimiters
    <2>3. QED BY <1>1, <1>3, <2>1, <2>2 DEF Sound
  <1>8. ASSUME ~(Len(kinds) # 0 /\ kinds[Len(kinds)] = t.kind)
        PROVE  Refused(u, Len(s) + 1)
    BY <1>2, <1>4, <1>6, <1>8 DEF Refused
  <1>9. QED BY <1>2, <1>7, <1>8

LEMMA SoundOpened ==
  ASSUME NEW s, NEW u, NEW t, Grows(u, s, t), NEW C, NEW conds \in Seq(C), NEW kinds,
         Sound(s, conds, kinds), AllExecute(conds), t.role \in Known, NEW f \in C,
         f.truth = (t.role # "iffalse" /\ t.index = 0), t.role # "ifcase" => t.index = 0,
         f.inAlternative = FALSE, f.isCase = (t.role = "ifcase"), f.remaining = t.index
  PROVE  /\ Sound(u, Append(conds, f), kinds) /\ Fate(u, Len(s) + 1) = "executed"
         /\ ~Refused(u, Len(s) + 1)
PROOF
  <1>1. PICK st : Structured(s, st, conds) /\ Len(st) = Len(conds)
    BY DEF Sound
  <1>2. t.role \notin Routes \cup {"ifunknown", "invalid", "open", "close"}
    BY DEF Known, Routes, Delimiters
  <1>3. Fate(u, Len(s) + 1) = "executed" /\ Selected(s, Len(s) + 1)
    BY <1>2, ExecutedHere
  <1>4. FrameIsTrue(u, Len(u), f)
    BY FrameOpened
  <1>5. Structured(u, Append(st, Len(s) + 1), Append(conds, f))
    BY <1>1, <1>3, <1>4, StructuredKnown
  <1>6. Grouped(u, kinds)
    BY <1>2, GroupedKept DEF Sound
  <1>7. u[Len(s) + 1] = t
    BY DEF Grows
  <1>8. ~Refused(u, Len(s) + 1)
    BY <1>2, <1>3, <1>7, RefusedPlain
  <1>9. Len(Append(st, Len(s) + 1)) = Len(Append(conds, f))
    <2>1. st \in Seq(Nat) /\ Len(s) + 1 \in Nat
      BY <1>1, StructuredLengths DEF Grows, IsText
    <2>2. QED BY <1>1, <2>1
  <1>10. \A k \in 1..(Len(Append(conds, f)) - 1) : Executes(Append(conds, f)[k])
    <2>1. \A k \in 1..(Len(Append(conds, f)) - 1) : k \in 1..Len(conds) /\ Append(conds, f)[k] = conds[k]
      OBVIOUS
    <2>2. QED BY <2>1 DEF AllExecute
  <1>11. QED BY <1>3, <1>5, <1>6, <1>8, <1>9, <1>10 DEF Sound

LEMMA SoundClosed ==
  ASSUME NEW s, NEW u, NEW t, Grows(u, s, t), NEW C, NEW conds \in Seq(C), NEW kinds,
         Sound(s, conds, kinds), t.role = "fi", Len(conds) # 0
  PROVE  /\ Sound(u, SubSeq(conds, 1, Len(conds) - 1), kinds)
         /\ AllExecute(SubSeq(conds, 1, Len(conds) - 1))
         /\ Fate(u, Len(s) + 1) = "executed" /\ ~Refused(u, Len(s) + 1)
PROOF
  <1> DEFINE conds2 == SubSeq(conds, 1, Len(conds) - 1)
  <1>1. PICK st : Structured(s, st, conds) /\ Len(st) = Len(conds)
    BY DEF Sound
  <1>2. Len(conds) \in Nat /\ Len(conds) - 1 \in 0..Len(conds)
    OBVIOUS
  <1>3. Len(conds2) = Len(conds) - 1 /\ \A k \in 1..(Len(conds) - 1) : conds2[k] = conds[k]
    BY <1>2, SubTop
  <1>4. t.role \in Routes /\ t.role \notin {"open", "close"}
    BY DEF Routes
  <1>5. Fate(u, Len(s) + 1) = "executed"
    BY <1>1, <1>4, FateRouted
  <1>6. ~Refused(u, Len(s) + 1)
    BY <1>1, <1>4, RefusedRouted DEF Delimiters
  <1>7. /\ Structured(u, SubSeq(st, 1, Len(st) - 1), conds2)
        /\ Len(SubSeq(st, 1, Len(st) - 1)) = Len(st) - 1
    <2>1. Len(conds2) \in 0..(Len(st) - 1) /\ Len(conds2) <= Len(conds)
      BY <1>1, <1>2, <1>3
    <2>2. \A k \in 1..Len(conds2) : conds2[k] = conds[k]
      BY <1>3
    <2> HIDE DEF conds2
    <2>3. Structured(u, SubSeq(st, 1, Len(st) - 1), conds2)
      BY <1>1, <2>1, <2>2, StructuredClosed
    <2>4. st \in Seq(Nat) /\ Len(st) - 1 \in 0..Len(st)
      BY <1>1, <1>2, StructuredLengths
    <2>5. QED BY <2>3, <2>4, SubTop
  <1>8. Grouped(u, kinds)
    BY <1>4, GroupedKept DEF Sound
  <1>9. AllExecute(conds2)
    BY <1>3 DEF AllExecute, Sound
  <1>10. \A k \in 1..(Len(conds2) - 1) : Executes(conds2[k])
    <2>1. \A k \in 1..(Len(conds2) - 1) : k \in 1..Len(conds2)
      BY <1>2, <1>3
    <2>2. QED BY <1>9, <2>1 DEF AllExecute
  <1>11. QED BY <1>1, <1>3, <1>5, <1>6, <1>7, <1>8, <1>9, <1>10 DEF Sound

(* What \else or \or makes of the frame of its conditional. *)
Delimits(t, f, g) ==
  /\ ~f.inAlternative /\ g.isCase = f.isCase
  /\ t.role = "or" => f.isCase
  /\ \/ f.truth /\ g.truth = TRUE /\ g.inAlternative = TRUE
     \/ ~f.truth /\ t.role = "else" /\ g.truth = FALSE /\ g.inAlternative = TRUE
     \/ /\ ~f.truth /\ t.role = "or"
        /\ g.truth = (f.remaining = 1) /\ g.inAlternative = FALSE /\ g.remaining = f.remaining - 1

LEMMA SoundDelimited ==
  ASSUME NEW s, NEW u, NEW t, Grows(u, s, t), NEW C, NEW conds \in Seq(C), NEW kinds,
         Sound(s, conds, kinds), t.role \in Delimiters, Len(conds) # 0,
         NEW conds2, Len(conds2) = Len(conds), \A k \in 1..(Len(conds) - 1) : conds2[k] = conds[k],
         Delimits(t, conds[Len(conds)], conds2[Len(conds)])
  PROVE  /\ Sound(u, conds2, kinds) /\ Fate(u, Len(s) + 1) = "executed"
         /\ ~Refused(u, Len(s) + 1)
PROOF
  <1> DEFINE f == conds[Len(conds)]
             g == conds2[Len(conds)]
  <1>0. /\ ~f.inAlternative /\ g.isCase = f.isCase
        /\ t.role = "or" => f.isCase
        /\ \/ f.truth /\ ~f.inAlternative /\ g.truth = TRUE /\ g.inAlternative = TRUE
           \/ ~f.truth /\ ~f.inAlternative /\ t.role = "else" /\ g.truth = FALSE /\ g.inAlternative = TRUE
           \/ /\ ~f.truth /\ ~f.inAlternative /\ t.role = "or" /\ f.isCase
              /\ g.truth = (f.remaining = 1) /\ g.inAlternative = FALSE /\ g.remaining = f.remaining - 1
    BY DEF Delimits
  <1> HIDE DEF f, g
  <1>1. PICK st : Structured(s, st, conds) /\ Len(st) = Len(conds)
    BY DEF Sound
  <1>2. t.role \in Routes /\ t.role \notin {"open", "close"}
    BY DEF Routes, Delimiters
  <1>3. Fate(u, Len(s) + 1) = "executed"
    BY <1>0, <1>1, <1>2, FateRouted DEF f
  <1>4. ~Refused(u, Len(s) + 1)
    BY <1>0, <1>1, <1>2, RefusedRouted DEF f
  <1>5. Len(st) \in 1..Len(st) /\ IfStack(s, st) /\ Len(conds) \in Nat
    BY <1>1, StructuredLengths
  <1>6. st[Len(st)] \in 1..Len(s)
    BY <1>5, IfStackElement DEF Grows
  <1>7. FrameIsTrue(s, st[Len(st)], f)
    BY <1>1, <1>5 DEF Structured, f
  <1>8. Own(u, st[Len(st)], Len(u) + 1) = Own(s, st[Len(st)], Len(s) + 1) \cup {Len(s) + 1}
    <2>1. IfStack(s, st) /\ Len(st) # 0
      BY <1>1, <1>5
    <2>2. QED BY <2>1, OwnTop
  <1>9. FrameIsTrue(u, st[Len(st)], g)
    BY <1>0, <1>6, <1>7, <1>8, FrameDelimited
  <1>10. Structured(u, st, conds2)
    BY <1>1, <1>9, StructuredDelimited DEF g
  <1>11. Grouped(u, kinds)
    BY <1>2, GroupedKept DEF Sound
  <1>12. \A k \in 1..(Len(conds2) - 1) : Executes(conds2[k])
    BY DEF Sound
  <1>13. QED BY <1>1, <1>3, <1>4, <1>10, <1>11, <1>12 DEF Sound

(* What the reader does not route, TeX refuses. *)
LEMMA RefusedRoute ==
  ASSUME NEW s, NEW u, NEW t, Grows(u, s, t), NEW conds, NEW kinds, Sound(s, conds, kinds),
         t.role \in Routes,
         \/ t.role = "fi"
         \/ Len(conds) # 0 => ~(conds[Len(conds)].truth /\ conds[Len(conds)].inAlternative),
         \/ Len(conds) = 0
         \/ t.role \in Delimiters /\ conds[Len(conds)].inAlternative
         \/ t.role = "or" /\ ~conds[Len(conds)].isCase
  PROVE  Refused(u, Len(s) + 1)
PROOF
  <1>1. PICK st : Structured(s, st, conds) /\ Len(st) = Len(conds)
    BY DEF Sound
  <1>2. QED BY <1>1, RefusedRouted

(***************************************************************************)
(* A scan reads on from position m without touching the stacks.            *)
(***************************************************************************)
Fated(s, m, fate) == \A i \in (m + 1)..Len(s) : Fate(s, i) = fate /\ ~Refused(s, i)

SkipRegion(s, m, conds, kinds, depth) ==
  /\ m \in 0..Len(s) /\ depth \in Nat
  /\ \E st : /\ Structured(s, st, conds) /\ Len(st) = Len(conds) + depth
             /\ \A k \in (Len(conds) + 1)..Len(st) : ~Selected(s, st[k])
  /\ Grouped(s, kinds)
  /\ Fated(s, m, "skipped")

LEMMA RegionGrows ==
  ASSUME NEW s, NEW u, NEW t, Grows(u, s, t), NEW m \in 0..Len(s), NEW fate, Fated(s, m, fate),
         Fate(u, Len(s) + 1) = fate, ~Refused(u, Len(s) + 1)
  PROVE  m \in 0..Len(u) /\ Fated(u, m, fate)
PROOF
  <1>1. /\ Len(s) \in Nat /\ Len(u) = Len(s) + 1
        /\ IsText(s) /\ IsText(u) /\ Continues(u, s)
    BY DEF Grows, IsText
  <1>2. ASSUME NEW i \in (m + 1)..Len(u)
        PROVE  Fate(u, i) = fate /\ ~Refused(u, i)
    <2>1. CASE i = Len(s) + 1
      BY <2>1
    <2>2. CASE i \in (m + 1)..Len(s)
      <3>1. i \in 1..Len(s)
        BY <1>1, <2>2
      <3>2. Fate(u, i) = Fate(s, i)
        BY <1>1, <3>1, FateSame
      <3>3. Refused(u, i) <=> Refused(s, i)
        BY <1>1, <3>1, RefusedSame
      <3>4. QED BY <2>2, <3>2, <3>3 DEF Fated
    <2>3. QED BY <1>1, <2>1, <2>2
  <1>3. QED BY <1>1, <1>2 DEF Fated

LEMMA SkipBegins ==
  ASSUME NEW s, IsText(s), NEW conds, NEW kinds, Sound(s, conds, kinds)
  PROVE  SkipRegion(s, Len(s), conds, kinds, 0)
PROOF
  <1>1. PICK st : Structured(s, st, conds) /\ Len(st) = Len(conds)
    BY DEF Sound
  <1>2. Len(s) \in 0..Len(s) /\ (Len(s) + 1)..Len(s) = {}
    BY DEF IsText
  <1>3. (Len(conds) + 1)..Len(st) = {} /\ Len(st) = Len(conds) + 0
    BY <1>1, StructuredLengths
  <1>4. Grouped(s, kinds)
    BY DEF Sound
  <1>5. QED BY <1>1, <1>2, <1>3, <1>4 DEF SkipRegion, Fated

LEMMA SkipGrows ==
  ASSUME NEW s, NEW u, NEW t, Grows(u, s, t), NEW m, NEW conds, NEW kinds, NEW depth,
         SkipRegion(s, m, conds, kinds, depth), Len(conds) # 0, ~Executes(conds[Len(conds)]),
         t.role # "invalid",
         t.role \in Routes /\ depth = 0 => t.role # "fi" /\ conds[Len(conds)].inAlternative
  PROVE  /\ t.role \in Openers => SkipRegion(u, m, conds, kinds, depth + 1)
         /\ t.role = "fi" => SkipRegion(u, m, conds, kinds, depth - 1)
         /\ t.role \notin Openers \cup {"fi"} => SkipRegion(u, m, conds, kinds, depth)
PROOF
  <1> DEFINE n == Len(s)
             f == conds[Len(conds)]
  <1>1. PICK st : /\ Structured(s, st, conds) /\ Len(st) = Len(conds) + depth
                  /\ \A k \in (Len(conds) + 1)..Len(st) : ~Selected(s, st[k])
    BY DEF SkipRegion
  <1>2. /\ Len(st) \in Nat /\ Len(conds) \in 1..Len(st) /\ IfStack(s, st) /\ st \in Seq(Nat)
        /\ depth \in Nat /\ n \in Nat /\ IsText(s) /\ u[n + 1] = t
    <2>1. Len(st) \in Nat /\ Len(conds) \in 0..Len(st) /\ IfStack(s, st) /\ st \in Seq(Nat)
      BY <1>1, StructuredLengths
    <2>2. depth \in Nat
      BY DEF SkipRegion
    <2>3. n \in Nat /\ IsText(s) /\ u[n + 1] = t
      BY DEF Grows, IsText
    <2>4. Len(conds) \in 1..Len(st)
      BY <2>1
    <2>5. QED BY <2>1, <2>2, <2>3, <2>4
  <1>3. f.inAlternative => f.truth
    <2>1. FrameIsTrue(s, st[Len(conds)], f)
      <3>1. PICK l \in Nat : l = Len(conds) /\ l \in 1..l
        BY <1>2
      <3>2. FrameIsTrue(s, st[l], conds[l])
        BY <1>1, <3>1 DEF Structured
      <3>3. QED BY <3>1, <3>2
    <2>2. f.truth \in BOOLEAN /\ f.inAlternative \in BOOLEAN
      BY <2>1 DEF FrameIsTrue
    <2>3. QED BY <2>2 DEF Executes
  <1>4. Fate(u, n + 1) = "skipped"
    <2>1. t.role \in Routes =>
             \/ Len(conds) < Len(st)
             \/ t.role # "fi" /\ f.truth /\ f.inAlternative
      BY <1>1, <1>2, <1>3
    <2>2. QED BY <1>1, <2>1, FateSkipped
  <1>5. ~Refused(u, n + 1)
    <2>1. Enclosing(u, n + 1) # {}
      <3>1. Enclosing(u, n + 1) = { st[k] : k \in 1..Len(st) }
        BY <1>2, IfStackEnds
      <3>2. 1 \in 1..Len(st)
        BY <1>2
      <3>3. QED BY <3>1, <3>2
    <2>2. QED BY <1>2, <1>4, <2>1, RefusedSkipped
  <1>6. m \in 0..Len(u) /\ Fated(u, m, "skipped")
    BY <1>4, <1>5, RegionGrows DEF SkipRegion
  <1>7. Grouped(u, kinds)
    BY <1>4, GroupedKept DEF SkipRegion
  <1>8. ASSUME NEW k \in (Len(conds) + 1)..Len(st)
        PROVE  ~Selected(u, st[k])
    <2>1. k \in 1..Len(st)
      BY <1>2
    <2>2. st[k] \in 1..(n + 1)
      <3>1. st[k] \in 1..n
        BY <1>2, <2>1, IfStackElement
      <3>2. QED BY <1>2, <3>1
    <2>3. QED BY <1>1, <2>2, SelectedKept
  <1>9. ASSUME t.role \in Openers
        PROVE  SkipRegion(u, m, conds, kinds, depth + 1)
    <2> DEFINE st2 == Append(st, n + 1)
    <2>1. Structured(u, st2, conds)
      BY <1>1, <1>9, StructuredOpened
    <2>2. /\ Len(st2) = Len(st) + 1 /\ st2[Len(st) + 1] = n + 1
          /\ \A k \in 1..Len(st) : st2[k] = st[k]
      BY <1>2
    <2>3. ~Selected(u, n + 1)
      <3>1. ~Selected(s, n + 1)
        BY <1>1, <1>2, SelectedAtEnd
      <3>2. n + 1 \in 1..(n + 1)
        BY <1>2
      <3>3. QED BY <3>1, <3>2, SelectedKept
    <2>4. \A k \in (Len(conds) + 1)..Len(st2) : ~Selected(u, st2[k])
      <3>1. TAKE k \in (Len(conds) + 1)..Len(st2)
      <3>2. CASE k = Len(st) + 1
        BY <2>2, <2>3, <3>2
      <3>3. CASE k \in (Len(conds) + 1)..Len(st)
        BY <1>2, <1>8, <2>2, <3>3
      <3>4. k = Len(st) + 1 \/ k \in (Len(conds) + 1)..Len(st)
        <4>1. PICK a, l \in Nat : a = Len(conds) /\ l = Len(st)
          BY <1>2
        <4>2. k \in (a + 1)..(l + 1)
          BY <2>2, <4>1
        <4>3. k = l + 1 \/ k \in (a + 1)..l
          BY <4>2
        <4>4. QED BY <4>1, <4>3
      <3>5. QED BY <3>2, <3>3, <3>4
    <2> HIDE DEF st2
    <2>5. Len(st2) = Len(conds) + (depth + 1) /\ depth + 1 \in Nat
      <3>1. PICK a, d \in Nat : a = Len(conds) /\ d = depth
        BY <1>2
      <3>2. Len(st2) = (a + d) + 1
        BY <1>1, <2>2, <3>1
      <3>3. QED BY <3>1, <3>2
    <2>6. QED BY <1>6, <1>7, <2>1, <2>4, <2>5 DEF SkipRegion
  <1>10. ASSUME t.role = "fi"
         PROVE  SkipRegion(u, m, conds, kinds, depth - 1)
    <2> DEFINE st2 == SubSeq(st, 1, Len(st) - 1)
    <2>1. depth # 0 /\ Len(conds) \in 0..(Len(st) - 1)
      BY <1>1, <1>2, <1>10 DEF Routes
    <2>2. /\ Structured(u, st2, conds) /\ Len(st2) = Len(st) - 1
          /\ \A k \in 1..(Len(st) - 1) : st2[k] = st[k]
      <3>1. Len(conds) # Len(st)
        BY <1>2, <2>1
      <3>2. Structured(u, st2, conds)
        BY <1>1, <1>10, <3>1, StructuredLeft
      <3>3. Len(st) - 1 \in 0..Len(st)
        BY <1>2
      <3>4. Len(st2) = Len(st) - 1 /\ \A k \in 1..(Len(st) - 1) : st2[k] = st[k]
        BY <1>2, <3>3, SubTop
      <3>5. QED BY <3>2, <3>4
    <2>3. \A k \in (Len(conds) + 1)..Len(st2) : ~Selected(u, st2[k])
      BY <1>2, <1>8, <2>2
    <2>4. Len(st2) = Len(conds) + (depth - 1) /\ depth - 1 \in Nat
      BY <1>1, <1>2, <2>1, <2>2
    <2> HIDE DEF st2
    <2>5. QED BY <1>6, <1>7, <2>2, <2>3, <2>4 DEF SkipRegion
  <1>11. ASSUME t.role \notin Openers \cup {"fi"}
         PROVE  SkipRegion(u, m, conds, kinds, depth)
    <2>1. CASE t.role \notin Delimiters \/ Len(conds) < Len(st)
      <3>1. Structured(u, st, conds)
        BY <1>1, <1>11, <2>1, StructuredPlain
      <3>2. QED BY <1>1, <1>2, <1>6, <1>7, <1>8, <3>1 DEF SkipRegion
    <2>2. CASE t.role \in Delimiters /\ Len(conds) = Len(st)
      <3>1. f.truth /\ f.inAlternative
        BY <1>1, <1>2, <1>3, <2>2 DEF Routes
      <3>2. FrameIsTrue(s, st[Len(st)], f) /\ st[Len(st)] \in 1..n
        BY <1>1, <1>2, <2>2, IfStackElement DEF Structured
      <3>3. Own(u, st[Len(st)], Len(u) + 1) = Own(s, st[Len(st)], Len(s) + 1) \cup {Len(s) + 1}
        BY <1>2, <2>2, OwnTop
      <3>4. f.inAlternative = TRUE
        BY <3>1, <3>2 DEF FrameIsTrue
      <3>5. FrameIsTrue(u, st[Len(st)], f)
        BY <2>2, <3>1, <3>2, <3>3, <3>4, FrameDelimited
      <3>6. Structured(u, st, conds)
        BY <1>1, <2>2, <3>5, StructuredDelimited
      <3>7. QED BY <1>1, <1>2, <1>6, <1>7, <1>8, <3>6 DEF SkipRegion
    <2>3. QED BY <1>2, <2>1, <2>2
  <1>12. QED BY <1>9, <1>10, <1>11

LEMMA SkipEnds ==
  ASSUME NEW s, NEW m, NEW conds, NEW kinds, SkipRegion(s, m, conds, kinds, 0),
         \A k \in 1..(Len(conds) - 1) : Executes(conds[k])
  PROVE  Sound(s, conds, kinds)
PROOF
  <1>1. PICK st : Structured(s, st, conds) /\ Len(st) = Len(conds) + 0
    BY DEF SkipRegion
  <1>2. Len(conds) + 0 = Len(conds)
    BY <1>1, StructuredLengths
  <1>3. QED BY <1>1, <1>2 DEF Sound, SkipRegion

(***************************************************************************)
(* A capture: the unresolved conditional and those inside it are the       *)
(* innermost ones, a branch each, and the reader's stacks stay as they are.*)
(***************************************************************************)
CaptureStack(s, st, conds, open, branches) ==
  /\ Structured(s, st, conds)
  /\ Len(branches) \in Nat \ {0} /\ Len(st) = Len(conds) + Len(branches)
  /\ s[st[Len(conds) + 1]].role = "ifunknown" /\ Selected(s, st[Len(conds) + 1])
  /\ \A k \in 1..Len(branches) : BranchIsTrue(s, st[Len(conds) + k], branches[k], open)

Ascending(branches) ==
  \A j, k \in 1..Len(branches) : j < k => branches[j].base <= branches[k].base

CaptureRegion(s, m, conds, kinds, open, branches) ==
  /\ m \in 0..Len(s)
  /\ \E st : CaptureStack(s, st, conds, open, branches)
  /\ Ascending(branches)
  /\ Grouped(s, kinds)
  /\ Fated(s, m, "captured")

Uncapturable(t, b, open) ==
  \/ t.role \in {"invalid", "ifcase"}
  \/ t.role \in {"open", "close"} /\ t.kind # "simple"
  \/ t.role = "close" /\ open = b.base
  \/ t.role \in Routes /\ open # b.base
  \/ t.role \in Delimiters /\ b.alternative

LEMMA CaptureBegins ==
  ASSUME NEW s, NEW u, NEW t, Grows(u, s, t), NEW conds, NEW kinds, Sound(s, conds, kinds),
         AllExecute(conds), t.role = "ifunknown"
  PROVE  CaptureRegion(u, Len(s), conds, kinds, 0, <<[base |-> 0, alternative |-> FALSE]>>)
PROOF
  <1> DEFINE n == Len(s)
             b == [base |-> 0, alternative |-> FALSE]
  <1>1. PICK st : Structured(s, st, conds) /\ Len(st) = Len(conds)
    BY DEF Sound
  <1> DEFINE st2 == Append(st, n + 1)
  <1>2. /\ n \in Nat /\ IsText(s) /\ IsText(u) /\ Len(u) = n + 1 /\ u[n + 1] = t
        /\ IfStack(s, st) /\ st \in Seq(Nat) /\ Len(st) \in Nat
    BY <1>1, StructuredLengths DEF Grows, IsText
  <1>3. Selected(s, n + 1)
    BY <1>1, <1>2, SelectedAtEnd DEF AllExecute
  <1>4. t.role \in Openers
    BY DEF Openers
  <1>5. Structured(u, st2, conds)
    BY <1>1, <1>4, StructuredOpened
  <1>6. Len(st2) = Len(conds) + 1 /\ st2[Len(conds) + 1] = n + 1
    BY <1>1, <1>2
  <1>7. Selected(u, n + 1)
    <2>1. n + 1 \in 1..(n + 1)
      BY <1>2
    <2>2. QED BY <1>3, <2>1, SelectedKept
  <1>8. BranchIsTrue(u, n + 1, b, 0)
    <2>1. b.base = 0 /\ b.alternative = FALSE /\ 0 \in Int
      OBVIOUS
    <2> HIDE DEF b
    <2>3. BranchIsTrue(u, Len(u), b, 0)
      BY <1>4, <2>1, BranchOpened
    <2>2. QED BY <1>2, <2>3
  <1>9. Fate(u, n + 1) = "captured"
    BY <1>2, <1>3, FateCaptured
  <1>10. ~Refused(u, n + 1)
    BY <1>2, <1>9, RefusedUnknown
  <1>11. n \in 0..Len(u) /\ Fated(u, n, "captured")
    <2>1. \A i \in (n + 1)..Len(u) : i = n + 1
      BY <1>2
    <2>2. QED BY <1>2, <1>9, <1>10, <2>1 DEF Fated
  <1>12. Grouped(u, kinds)
    BY <1>9, GroupedKept DEF Sound
  <1>13. CaptureStack(u, st2, conds, 0, <<b>>)
    <2>1. Len(<<b>>) = 1 /\ <<b>>[1] = b /\ \A k \in 1..1 : k = 1
      OBVIOUS
    <2>2. \A k \in 1..Len(<<b>>) : BranchIsTrue(u, st2[Len(conds) + k], <<b>>[k], 0)
      BY <1>6, <1>8, <2>1
    <2> HIDE DEF st2, b
    <2>3. QED BY <1>2, <1>5, <1>6, <1>7, <2>1, <2>2 DEF CaptureStack
  <1>14. Ascending(<<b>>)
    BY DEF Ascending
  <1>15. QED BY <1>11, <1>12, <1>13, <1>14 DEF CaptureRegion

LEMMA CaptureFacts ==
  ASSUME NEW s, NEW st, NEW conds, NEW open, NEW branches, CaptureStack(s, st, conds, open, branches)
  PROVE  /\ Len(st) \in Nat \ {0} /\ st \in Seq(Nat) /\ IfStack(s, st)
         /\ Len(conds) \in 0..(Len(st) - 1) /\ Len(branches) = Len(st) - Len(conds)
         /\ Len(branches) \in 1..Len(branches) /\ Len(conds) + Len(branches) = Len(st)
         /\ BranchIsTrue(s, st[Len(st)], branches[Len(branches)], open)
         /\ Len(conds) + 1 \in 1..Len(st)
PROOF
  <1>1. Len(st) \in Nat /\ Len(conds) \in 0..Len(st) /\ st \in Seq(Nat) /\ IfStack(s, st)
    BY StructuredLengths DEF CaptureStack
  <1>2. Len(branches) \in Nat \ {0} /\ Len(st) = Len(conds) + Len(branches)
    BY DEF CaptureStack
  <1>3. Len(branches) \in 1..Len(branches)
    BY <1>2
  <1>4. BranchIsTrue(s, st[Len(st)], branches[Len(branches)], open)
    BY <1>2, <1>3 DEF CaptureStack
  <1>5. QED BY <1>1, <1>2, <1>3, <1>4

(* A token the scanner refuses is one TeX's structure refuses; any other   *)
(* belongs to the capture.                                                 *)
LEMMA CaptureVerdict ==
  ASSUME NEW s, NEW u, NEW t, Grows(u, s, t), NEW m, NEW conds, NEW kinds, NEW open, NEW branches,
         CaptureRegion(s, m, conds, kinds, open, branches)
  PROVE  /\ Fate(u, Len(s) + 1) = "captured"
         /\ Refused(u, Len(s) + 1) <=> Uncapturable(t, branches[Len(branches)], open)
         /\ Enclosing(s, Len(s) + 1) # {}
PROOF
  <1>1. PICK st : CaptureStack(s, st, conds, open, branches)
    BY DEF CaptureRegion
  <1>2. /\ Len(st) \in Nat \ {0} /\ IfStack(s, st) /\ Len(conds) + 1 \in 1..Len(st)
        /\ BranchIsTrue(s, st[Len(st)], branches[Len(branches)], open)
    BY <1>1, CaptureFacts
  <1>3. Fate(u, Len(s) + 1) = "captured"
    BY <1>1, <1>2, FateCaptured DEF CaptureStack
  <1>4. Refused(u, Len(s) + 1) <=> Uncapturable(t, branches[Len(branches)], open)
    BY <1>2, <1>3, RefusedCaptured DEF Uncapturable
  <1>5. Enclosing(s, Len(s) + 1) # {}
    BY <1>2 DEF IfStack, IsStack, Enclosing
  <1>6. QED BY <1>3, <1>4, <1>5

LEMMA UnknownKept ==
  ASSUME NEW s, NEW u, NEW t, Grows(u, s, t), NEW c \in 1..Len(s),
         s[c].role = "ifunknown", Selected(s, c)
  PROVE  u[c].role = "ifunknown" /\ Selected(u, c)
PROOF
  <1>1. Len(s) \in Nat /\ u[c] = s[c]
    BY DEF Grows, IsText, Continues
  <1>2. c \in 1..(Len(s) + 1)
    BY <1>1
  <1>3. QED BY <1>1, <1>2, SelectedKept

CaptureStep(t, open, branches, open2, branches2) ==
  LET last == Len(branches)
  IN  /\ ~Uncapturable(t, branches[last], open) /\ branches[last].alternative \in BOOLEAN
      /\ t.role \notin Openers \cup {"fi"}
      /\ t.role = "open" => open2 = open + 1
      /\ t.role = "close" => open2 = open - 1
      /\ t.role \notin {"open", "close"} => open2 = open
      /\ Len(branches2) = last /\ \A k \in 1..(last - 1) : branches2[k] = branches[k]
      /\ t.role \notin Delimiters => branches2[last] = branches[last]
      /\ t.role \in Delimiters => /\ branches2[last].base = branches[last].base
                                  /\ branches2[last].alternative = (t.role = "else")

(* A group inside the capture, a delimiter of its innermost conditional,   *)
(* or anything else that opens and closes nothing.                         *)
LEMMA CaptureStays ==
  ASSUME NEW s, NEW u, NEW t, Grows(u, s, t), NEW m, NEW conds, NEW kinds, NEW open, NEW branches,
         NEW open2, NEW branches2, CaptureRegion(s, m, conds, kinds, open, branches),
         CaptureStep(t, open, branches, open2, branches2)
  PROVE  CaptureRegion(u, m, conds, kinds, open2, branches2)
PROOF
  <1> DEFINE n == Len(s)
             last == Len(branches)
  <1>1. PICK st : CaptureStack(s, st, conds, open, branches)
    BY DEF CaptureRegion
  <1>2. /\ Len(st) \in Nat \ {0} /\ st \in Seq(Nat) /\ IfStack(s, st)
        /\ Len(conds) \in 0..(Len(st) - 1) /\ last = Len(st) - Len(conds)
        /\ last \in 1..last /\ Len(conds) + last = Len(st) /\ Len(conds) + 1 \in 1..Len(st)
    BY <1>1, CaptureFacts
  <1>3. Fate(u, n + 1) = "captured" /\ ~Refused(u, n + 1)
    BY CaptureVerdict DEF CaptureStep
  <1>4. m \in 0..Len(u) /\ Fated(u, m, "captured")
    BY <1>3, RegionGrows DEF CaptureRegion
  <1>5. Grouped(u, kinds)
    BY <1>3, GroupedKept DEF CaptureRegion
  <1>6. Structured(u, st, conds)
    <2>1. t.role \notin Openers \cup {"fi"}
      BY DEF CaptureStep
    <2>2. Structured(s, st, conds) /\ Len(conds) < Len(st)
      BY <1>1, <1>2 DEF CaptureStack
    <2>3. QED BY <2>1, <2>2, StructuredPlain
  <1>7. IsText(s)
    BY DEF Grows
  <1>8. ASSUME NEW k \in 1..last
        PROVE  Len(conds) + k \in 1..Len(st) /\ st[Len(conds) + k] \in 1..n
    <2>1. Len(conds) + k \in 1..Len(st)
      BY <1>2
    <2>2. QED BY <1>2, <1>7, <2>1, IfStackElement
  <1>9. u[st[Len(conds) + 1]].role = "ifunknown" /\ Selected(u, st[Len(conds) + 1])
    <2>1. 1 \in 1..last
      BY <1>2
    <2>2. st[Len(conds) + 1] \in 1..n
      BY <1>8, <2>1
    <2>3. QED BY <1>1, <2>2, UnknownKept DEF CaptureStack
  <1>10. ASSUME NEW k \in 1..last, k < last \/ t.role \notin Delimiters
         PROVE  BranchIsTrue(u, st[Len(conds) + k], branches2[k], open2)
    <2>1. branches2[k] = branches[k]
      <3>0. k = last \/ k < last
        <4>1. PICK l \in Nat : l = last
          BY <1>2
        <4>2. QED BY <4>1, InInterval
      <3>1. CASE k < last
        <4>1. k \in 1..(last - 1)
          BY <1>2, <3>1
        <4>2. QED BY <4>1 DEF CaptureStep
      <3>2. CASE ~(k < last)
        <4>1. k = last
          BY <3>2, <3>0
        <4>2. QED BY <1>10, <3>2, <4>1 DEF CaptureStep
      <3>3. QED BY <3>1, <3>2
    <2>2. BranchIsTrue(s, st[Len(conds) + k], branches[k], open)
      BY <1>1 DEF CaptureStack
    <2>3. Own(u, st[Len(conds) + k], Len(u) + 1) = Own(s, st[Len(conds) + k], n + 1)
      <3>1. t.role \notin Delimiters \/ Len(conds) + k # Len(st)
        BY <1>2, <1>10
      <3>2. PICK j \in 1..Len(st) : j = Len(conds) + k
        BY <1>8
      <3>3. Own(u, st[j], Len(u) + 1) = Own(s, st[j], n + 1)
        <4>1. t.role \notin Delimiters \/ j # Len(st)
          BY <3>1, <3>2
        <4>2. IfStack(s, st)
          BY <1>2
        <4>3. QED BY <4>1, <4>2, OwnCases
      <3>4. QED BY <3>2, <3>3
    <2>4. t.role = "close" => branches[k].base # open
      <3>1. ASSUME t.role = "close"
            PROVE  branches[k].base # open
        <4>1. branches[last].base # open
          BY <3>1 DEF Uncapturable, CaptureStep
        <4>2. BranchIsTrue(s, st[Len(conds) + last], branches[last], open)
          BY <1>1, <1>2 DEF CaptureStack
        <4>3. branches[last].base \in Int /\ open \in Int /\ branches[last].base <= open
          BY <4>2 DEF BranchIsTrue
        <4>4. k < last => branches[k].base <= branches[last].base
          BY <1>2 DEF CaptureRegion, Ascending
        <4>5. branches[k].base \in Int
          BY <2>2 DEF BranchIsTrue
        <4>6. k = last \/ k < last
          <5>1. PICK l \in Nat : l = last
            BY <1>2
          <5>2. QED BY <5>1, InInterval
        <4>7. QED BY <4>1, <4>3, <4>4, <4>5, <4>6
      <3>2. QED BY <3>1
    <2>5. st[Len(conds) + k] \in 1..n
      BY <1>8
    <2>6. /\ t.role = "open" => open2 = open + 1
          /\ t.role = "close" => open2 = open - 1
          /\ t.role \notin {"open", "close"} => open2 = open
      BY DEF CaptureStep
    <2>7. CASE t.role = "open"
      BY <2>1, <2>2, <2>3, <2>5, <2>6, <2>7, BranchKept
    <2>8. CASE t.role = "close"
      BY <2>1, <2>2, <2>3, <2>4, <2>5, <2>6, <2>8, BranchKept
    <2>9. CASE t.role \notin {"open", "close"}
      BY <2>1, <2>2, <2>3, <2>5, <2>6, <2>9, BranchKept
    <2>10. QED BY <2>7, <2>8, <2>9
  <1>11. ASSUME t.role \in Delimiters
         PROVE  BranchIsTrue(u, st[Len(conds) + last], branches2[last], open2)
    <2>1. BranchIsTrue(s, st[Len(st)], branches[last], open)
      BY <1>1, CaptureFacts
    <2>2. open2 = open /\ t.role \in Routes
      BY <1>11 DEF Delimiters, Routes, CaptureStep
    <2>3. branches[last].base = open /\ branches[last].alternative = FALSE
      BY <1>11, <2>2 DEF Uncapturable, CaptureStep
    <2>4. Own(u, st[Len(st)], Len(u) + 1) = Own(s, st[Len(st)], n + 1) \cup {n + 1}
      <3>1. Len(st) # 0
        BY <1>2
      <3>2. QED BY <1>2, <1>11, <3>1, OwnTop
    <2>5. st[Len(st)] \in 1..n
      BY <1>2, <1>8
    <2>8. /\ branches2[last].base = branches[last].base
          /\ branches2[last].alternative = (t.role = "else")
      BY <1>11 DEF CaptureStep
    <2>6. BranchIsTrue(u, st[Len(st)], branches2[last], open)
      <3>1. PICK b, b2, c : b = branches[last] /\ b2 = branches2[last] /\ c = st[Len(st)]
        OBVIOUS
      <3>2. BranchIsTrue(s, c, b, open) /\ b.base = open /\ b.alternative = FALSE /\ c \in 1..n
        BY <2>1, <2>3, <2>5, <3>1
      <3>3. b2.base = b.base
        BY <2>8, <3>1
      <3>7. \/ t.role = "else" /\ b2.alternative = TRUE
            \/ t.role = "or" /\ b2.alternative = FALSE
        BY <1>11, <2>8, <3>1 DEF Delimiters
      <3>4. Own(u, c, Len(u) + 1) = Own(s, c, n + 1) \cup {n + 1}
        BY <2>4, <3>1
      <3>5. BranchIsTrue(u, c, b2, open)
        BY <1>11, <3>2, <3>3, <3>4, <3>7, BranchDelimited
      <3>6. QED BY <3>1, <3>5
    <2>7. QED BY <1>2, <2>2, <2>6
  <1>12. \A k \in 1..Len(branches2) : BranchIsTrue(u, st[Len(conds) + k], branches2[k], open2)
    <2>1. TAKE k \in 1..Len(branches2)
    <2>2. k \in 1..last /\ (k = last \/ k < last)
      BY <1>2 DEF CaptureStep
    <2>3. QED BY <1>10, <1>11, <2>2
  <1>13. CaptureStack(u, st, conds, open2, branches2)
    <2>1. Len(branches2) = last
      BY DEF CaptureStep
    <2>2. QED BY <1>1, <1>6, <1>9, <1>12, <2>1 DEF CaptureStack
  <1>14. Ascending(branches2)
    <2>1. ASSUME NEW k \in 1..last
          PROVE  branches2[k].base = branches[k].base
      <3>0. k = last \/ k < last
        <4>1. PICK l \in Nat : l = last
          BY <1>2
        <4>2. QED BY <4>1, InInterval
      <3>1. CASE k < last
        <4>1. k \in 1..(last - 1)
          BY <1>2, <3>1
        <4>2. QED BY <4>1 DEF CaptureStep
      <3>2. CASE ~(k < last)
        <4>1. k = last
          BY <3>2, <3>0
        <4>2. QED BY <4>1 DEF CaptureStep
      <3>3. QED BY <3>1, <3>2
    <2>2. Len(branches2) = last
      BY DEF CaptureStep
    <2>3. QED BY <2>1, <2>2 DEF Ascending, CaptureRegion
  <1>15. QED BY <1>4, <1>5, <1>13, <1>14 DEF CaptureRegion

(* What a branch other than the innermost, or any token that is no group   *)
(* and no delimiter, leaves as it is.                                      *)
LEMMA BranchLeft ==
  ASSUME NEW s, NEW u, NEW t, Grows(u, s, t), NEW st, NEW conds, NEW open, NEW branches,
         CaptureStack(s, st, conds, open, branches),
         t.role \notin {"open", "close"} \cup Delimiters, NEW k \in 1..Len(branches)
  PROVE  BranchIsTrue(u, st[Len(conds) + k], branches[k], open)
PROOF
  <1>1. /\ Len(st) \in Nat \ {0} /\ IfStack(s, st)
        /\ Len(conds) \in 0..(Len(st) - 1) /\ Len(conds) + Len(branches) = Len(st)
        /\ Len(branches) \in 1..Len(branches)
    BY CaptureFacts
  <1>2. PICK j \in 1..Len(st) : j = Len(conds) + k
    BY <1>1
  <1>3. IsText(s) /\ IfStack(s, st)
    BY <1>1 DEF Grows
  <1>4. st[j] \in 1..Len(s)
    BY <1>3, IfStackElement
  <1>5. Own(u, st[j], Len(u) + 1) = Own(s, st[j], Len(s) + 1)
    BY <1>3, OwnCases
  <1>6. BranchIsTrue(s, st[j], branches[k], open)
    BY <1>2 DEF CaptureStack
  <1>7. BranchIsTrue(u, st[j], branches[k], open)
    BY <1>4, <1>5, <1>6, BranchKept
  <1>8. QED BY <1>2, <1>7

LEMMA UnknownLeft ==
  ASSUME NEW s, NEW u, NEW t, Grows(u, s, t), NEW st, NEW conds, NEW open, NEW branches,
         CaptureStack(s, st, conds, open, branches)
  PROVE  u[st[Len(conds) + 1]].role = "ifunknown" /\ Selected(u, st[Len(conds) + 1])
PROOF
  <1>1. IfStack(s, st) /\ Len(conds) + 1 \in 1..Len(st) /\ IsText(s)
    BY CaptureFacts DEF Grows
  <1>2. st[Len(conds) + 1] \in 1..Len(s)
    BY <1>1, IfStackElement
  <1>3. QED BY <1>2, UnknownKept DEF CaptureStack

(* A conditional inside the capture. *)
LEMMA CaptureNests ==
  ASSUME NEW s, NEW u, NEW t, Grows(u, s, t), NEW m, NEW conds, NEW kinds, NEW open, NEW B,
         NEW branches \in Seq(B), CaptureRegion(s, m, conds, kinds, open, branches),
         ~Uncapturable(t, branches[Len(branches)], open), t.role \in Openers,
         NEW b \in B, b.base = open, b.alternative = FALSE
  PROVE  CaptureRegion(u, m, conds, kinds, open, Append(branches, b))
PROOF
  <1> DEFINE n == Len(s)
             branches2 == Append(branches, b)
  <1>1. PICK st : CaptureStack(s, st, conds, open, branches)
    BY DEF CaptureRegion
  <1> DEFINE st2 == Append(st, n + 1)
  <1>2. /\ Len(st) \in Nat \ {0} /\ st \in Seq(Nat) /\ IfStack(s, st)
        /\ Len(conds) \in 0..(Len(st) - 1) /\ Len(branches) \in 1..Len(branches)
        /\ Len(conds) + Len(branches) = Len(st) /\ Len(conds) + 1 \in 1..Len(st)
        /\ BranchIsTrue(s, st[Len(st)], branches[Len(branches)], open)
    BY <1>1, CaptureFacts
  <1>3. Fate(u, n + 1) = "captured" /\ ~Refused(u, n + 1)
    BY CaptureVerdict
  <1>4. m \in 0..Len(u) /\ Fated(u, m, "captured")
    BY <1>3, RegionGrows DEF CaptureRegion
  <1>5. Grouped(u, kinds)
    BY <1>3, GroupedKept DEF CaptureRegion
  <1>6. Structured(u, st2, conds)
    BY <1>1, StructuredOpened DEF CaptureStack
  <1>7. /\ n \in Nat /\ Len(u) = n + 1
        /\ Len(st2) = Len(st) + 1 /\ st2[Len(st) + 1] = n + 1
        /\ \A k \in 1..Len(st) : st2[k] = st[k]
    BY <1>2 DEF Grows, IsText
  <1>8. /\ Len(branches2) = Len(branches) + 1 /\ branches2[Len(branches) + 1] = b
        /\ \A k \in 1..Len(branches) : branches2[k] = branches[k]
    OBVIOUS
  <1>9. BranchIsTrue(u, n + 1, b, open)
    <2>1. open \in Int
      BY <1>2 DEF BranchIsTrue
    <2>2. BranchIsTrue(u, Len(u), b, open)
      BY <2>1, BranchOpened
    <2>3. QED BY <1>7, <2>2
  <1> HIDE DEF st2, branches2
  <1>10. \A k \in 1..Len(branches2) : BranchIsTrue(u, st2[Len(conds) + k], branches2[k], open)
    <2>1. TAKE k \in 1..Len(branches2)
    <2>2. CASE k = Len(branches) + 1
      <3>1. Len(conds) + k = Len(st) + 1
        <4>1. PICK a, b1, c1 \in Nat : a = Len(st) /\ b1 = Len(branches) /\ c1 = Len(conds)
          BY <1>2
        <4>2. c1 + b1 = a
          BY <1>2, <4>1
        <4>3. c1 + (b1 + 1) = a + 1
          BY <4>2
        <4>4. QED BY <2>2, <4>1, <4>3
      <3>2. QED BY <1>7, <1>8, <1>9, <2>2, <3>1
    <2>3. CASE k \in 1..Len(branches)
      <3>1. t.role \notin {"open", "close"} \cup Delimiters
        BY DEF Openers, Delimiters
      <3>2. BranchIsTrue(u, st[Len(conds) + k], branches[k], open)
        BY <1>1, <2>3, <3>1, BranchLeft
      <3>3. Len(conds) + k \in 1..Len(st)
        BY <1>2, <2>3
      <3>4. QED BY <1>7, <1>8, <2>3, <3>2, <3>3
    <2>4. QED BY <1>2, <1>8, <2>2, <2>3
  <1>11. u[st2[Len(conds) + 1]].role = "ifunknown" /\ Selected(u, st2[Len(conds) + 1])
    <2>1. st2[Len(conds) + 1] = st[Len(conds) + 1]
      BY <1>2, <1>7
    <2>2. QED BY <1>1, <2>1, UnknownLeft
  <1>12. Len(branches2) \in Nat \ {0} /\ Len(st2) = Len(conds) + Len(branches2)
    <2>1. PICK a, b1, c1 \in Nat : a = Len(st) /\ b1 = Len(branches) /\ c1 = Len(conds)
      BY <1>2
    <2>2. c1 + b1 = a
      BY <1>2, <2>1
    <2>3. a + 1 = c1 + (b1 + 1) /\ b1 + 1 \in Nat \ {0}
      BY <2>2
    <2>4. QED BY <1>7, <1>8, <2>1, <2>3
  <1>13. CaptureStack(u, st2, conds, open, branches2)
    BY <1>6, <1>10, <1>11, <1>12 DEF CaptureStack
  <1>14. Ascending(branches2)
    <2>1. ASSUME NEW j \in 1..Len(branches2), NEW k \in 1..Len(branches2), j < k
          PROVE  branches2[j].base <= branches2[k].base
      <3>1. j \in 1..Len(branches) /\ branches2[j] = branches[j]
        BY <1>2, <1>8, <2>1
      <3>2. CASE k \in 1..Len(branches)
        BY <1>8, <2>1, <3>1, <3>2 DEF CaptureRegion, Ascending
      <3>3. CASE k = Len(branches) + 1
        <4>1. BranchIsTrue(s, st[Len(conds) + j], branches[j], open)
          BY <1>1, <3>1 DEF CaptureStack
        <4>2. branches[j].base <= open
          BY <4>1 DEF BranchIsTrue
        <4>3. QED BY <1>8, <3>1, <3>3, <4>2
      <3>4. QED BY <1>2, <1>8, <3>2, <3>3
    <2>2. QED BY <2>1 DEF Ascending
  <1>15. QED BY <1>4, <1>5, <1>13, <1>14 DEF CaptureRegion, branches2

(* The \fi of a conditional inside the capture. *)
LEMMA CaptureUnnests ==
  ASSUME NEW s, NEW u, NEW t, Grows(u, s, t), NEW m, NEW conds, NEW kinds, NEW open, NEW B,
         NEW branches \in Seq(B), CaptureRegion(s, m, conds, kinds, open, branches),
         ~Uncapturable(t, branches[Len(branches)], open), t.role = "fi", Len(branches) # 1
  PROVE  CaptureRegion(u, m, conds, kinds, open, SubSeq(branches, 1, Len(branches) - 1))
PROOF
  <1> DEFINE n == Len(s)
             branches2 == SubSeq(branches, 1, Len(branches) - 1)
  <1>1. PICK st : CaptureStack(s, st, conds, open, branches)
    BY DEF CaptureRegion
  <1> DEFINE st2 == SubSeq(st, 1, Len(st) - 1)
  <1>2. /\ Len(st) \in Nat \ {0} /\ st \in Seq(Nat) /\ IfStack(s, st)
        /\ Len(conds) \in 0..(Len(st) - 1) /\ Len(branches) \in 1..Len(branches)
        /\ Len(conds) + Len(branches) = Len(st) /\ Len(conds) + 1 \in 1..Len(st)
    BY <1>1, CaptureFacts
  <1>3. Fate(u, n + 1) = "captured" /\ ~Refused(u, n + 1)
    BY CaptureVerdict
  <1>4. m \in 0..Len(u) /\ Fated(u, m, "captured")
    BY <1>3, RegionGrows DEF CaptureRegion
  <1>5. Grouped(u, kinds)
    BY <1>3, GroupedKept DEF CaptureRegion
  <1>6. Structured(u, st2, conds)
    <2>1. Len(conds) # Len(st) /\ Structured(s, st, conds)
      BY <1>1, <1>2 DEF CaptureStack
    <2>2. QED BY <2>1, StructuredLeft
  <1>7. Len(st2) = Len(st) - 1 /\ \A k \in 1..(Len(st) - 1) : st2[k] = st[k]
    <2>1. Len(st) - 1 \in 0..Len(st)
      BY <1>2
    <2>2. QED BY <1>2, <2>1, SubTop
  <1>8. /\ Len(branches2) = Len(branches) - 1
        /\ \A k \in 1..(Len(branches) - 1) : branches2[k] = branches[k]
    <2>1. Len(branches) - 1 \in 0..Len(branches)
      BY <1>2
    <2>2. QED BY <2>1, SubTop
  <1> HIDE DEF st2, branches2
  <1>9. \A k \in 1..Len(branches2) : BranchIsTrue(u, st2[Len(conds) + k], branches2[k], open)
    <2>1. TAKE k \in 1..Len(branches2)
    <2>2. k \in 1..Len(branches) /\ k \in 1..(Len(branches) - 1)
      BY <1>2, <1>8
    <2>3. t.role \notin {"open", "close"} \cup Delimiters
      BY DEF Delimiters
    <2>4. BranchIsTrue(u, st[Len(conds) + k], branches[k], open)
      BY <1>1, <2>2, <2>3, BranchLeft
    <2>5. Len(conds) + k \in 1..(Len(st) - 1)
      <3>1. PICK a, b, l \in Nat : a = Len(conds) /\ b = Len(branches) /\ l = Len(st)
        BY <1>2
      <3>2. a + b = l /\ k \in 1..(b - 1)
        BY <1>2, <2>2, <3>1
      <3>3. a + k \in 1..(l - 1)
        BY <3>2
      <3>4. QED BY <3>1, <3>3
    <2>6. QED BY <1>7, <1>8, <2>2, <2>4, <2>5
  <1>10. u[st2[Len(conds) + 1]].role = "ifunknown" /\ Selected(u, st2[Len(conds) + 1])
    <2>1. Len(conds) + 1 \in 1..(Len(st) - 1)
      <3>1. PICK a, b1, c1 \in Nat : a = Len(st) /\ b1 = Len(branches) /\ c1 = Len(conds)
        BY <1>2
      <3>2. c1 + b1 = a /\ b1 # 1 /\ b1 # 0
        BY <1>2, <3>1
      <3>3. c1 + 1 \in 1..(a - 1)
        BY <3>2
      <3>4. QED BY <3>1, <3>3
    <2>2. st2[Len(conds) + 1] = st[Len(conds) + 1]
      BY <1>7, <2>1
    <2>3. QED BY <1>1, <2>2, UnknownLeft
  <1>11. Len(branches2) \in Nat \ {0} /\ Len(st2) = Len(conds) + Len(branches2)
    BY <1>2, <1>7, <1>8
  <1>12. CaptureStack(u, st2, conds, open, branches2)
    BY <1>6, <1>9, <1>10, <1>11 DEF CaptureStack
  <1>13. Ascending(branches2)
    <2>1. \A k \in 1..Len(branches2) : k \in 1..Len(branches) /\ branches2[k] = branches[k]
      <3>1. PICK b \in Nat : b = Len(branches)
        BY <1>2
      <3>2. \A k \in 1..(b - 1) : k \in 1..b
        BY <3>1
      <3>3. QED BY <1>8, <3>1, <3>2
    <2>2. QED BY <2>1 DEF CaptureRegion, Ascending
  <1>14. QED BY <1>4, <1>5, <1>12, <1>13 DEF CaptureRegion, branches2

(* The \fi of the unresolved conditional. *)
LEMMA CaptureEnds ==
  ASSUME NEW s, NEW u, NEW t, Grows(u, s, t), NEW m, NEW conds, NEW kinds, NEW open, NEW branches,
         CaptureRegion(s, m, conds, kinds, open, branches), AllExecute(conds),
         ~Uncapturable(t, branches[Len(branches)], open), t.role = "fi", Len(branches) = 1
  PROVE  Sound(u, conds, kinds) /\ Fated(u, m, "captured")
PROOF
  <1>1. PICK st : CaptureStack(s, st, conds, open, branches)
    BY DEF CaptureRegion
  <1>2. /\ Len(st) \in Nat \ {0} /\ st \in Seq(Nat) /\ Len(conds) \in 0..(Len(st) - 1)
        /\ Len(conds) + Len(branches) = Len(st)
    <2>1. /\ Len(st) \in Nat \ {0} /\ st \in Seq(Nat) /\ IfStack(s, st)
          /\ Len(conds) \in 0..(Len(st) - 1) /\ Len(branches) = Len(st) - Len(conds)
          /\ Len(branches) \in 1..Len(branches) /\ Len(conds) + Len(branches) = Len(st)
      BY <1>1, CaptureFacts
    <2>2. QED BY <2>1
  <1> DEFINE st2 == SubSeq(st, 1, Len(st) - 1)
  <1>3. Fate(u, Len(s) + 1) = "captured" /\ ~Refused(u, Len(s) + 1)
    BY CaptureVerdict
  <1>4. Fated(u, m, "captured")
    BY <1>3, RegionGrows DEF CaptureRegion
  <1>5. Grouped(u, kinds)
    BY <1>3, GroupedKept DEF CaptureRegion
  <1>6. Structured(u, st2, conds)
    <2>1. Len(conds) # Len(st) /\ Structured(s, st, conds)
      BY <1>1, <1>2 DEF CaptureStack
    <2>2. QED BY <2>1, StructuredLeft
  <1>7. Len(st2) = Len(st) - 1
    <2>1. Len(st) - 1 \in 0..Len(st)
      BY <1>2
    <2>2. QED BY <1>2, <2>1, SubTop
  <1>8. Len(st2) = Len(conds)
    BY <1>2, <1>7
  <1>9. \A k \in 1..(Len(conds) - 1) : Executes(conds[k])
    <2>1. \A k \in 1..(Len(conds) - 1) : k \in 1..Len(conds)
      BY <1>2
    <2>2. QED BY <2>1 DEF AllExecute
  <1> HIDE DEF st2
  <1>10. QED BY <1>4, <1>5, <1>6, <1>8, <1>9 DEF Sound

(***************************************************************************)
(* The cursor.                                                             *)
(***************************************************************************)
LEMMA TokenFacts ==
  ASSUME NEW t \in Tokens
  PROVE  /\ t.index \in Int
         /\ t.role # "ifcase" => t.index = 0
         /\ t.role \in {"open", "close"} => t.kind \in GroupKinds
PROOF
  <1>1. t.index \in Int
    BY DispatcherAssumption DEF Tokens, Token
  <1>2. t.role # "ifcase" => t.index = 0
    BY DEF Tokens, Token
  <1>3. t.role \in {"open", "close"} => t.kind \in GroupKinds
    BY DEF Tokens, Token
  <1>4. QED BY <1>1, <1>2, <1>3

LEMMA ModeFacts ==
  ASSUME TypeOK
  PROVE  /\ mode.scan \in {"none", "pending", "skip", "capture"}
         /\ mode = Executing <=> mode.scan = "none"
         /\ mode = Pending <=> mode.scan = "pending"
         /\ mode.scan = "skip" => mode \in [scan : {"skip"}, start : Nat, depth : Nat]
         /\ mode.scan = "capture" =>
              mode \in [scan : {"capture"}, start : Nat, open : Nat,
                        branches : Seq([base : Nat, alternative : BOOLEAN])]
BY DEF TypeOK, Modes, Executing, Pending

(* The inputs are entered one inside another, each by a command that is    *)
(* the last thing its caller has read; pieces lie where they were read.    *)
InputsNest ==
  /\ inputs[1].input = 1 /\ inputs[1].published = 0
  /\ \A k \in 1..Len(inputs) : /\ inputs[k].input \in k..Len(text)
                               /\ inputs[k].published \in 0..Len(published)
  /\ \A j, k \in 1..Len(inputs) :
       j < k => inputs[j].input < inputs[k].input /\ inputs[j].published <= inputs[k].published

PiecesWereRead ==
  \A i \in 1..Len(published) :
    /\ published[i].input \in 1..Len(text)
    /\ published[i].at \in 1..Len(text[published[i].input])
    /\ published[i].fate = "entered" => published[i].child \in (published[i].input + 1)..Len(text)

EnteredAt(k) ==
  LET p == inputs[k].published + 1
  IN  /\ p \in 1..Len(published)
      /\ published[p].fate = "entered" /\ published[p].child = inputs[k].input
      /\ published[p].input = inputs[k - 1].input
      /\ published[p].at = Len(text[inputs[k - 1].input])
      /\ \A i \in 1..Len(published) :
           /\ i > p => published[i].input >= inputs[k].input
           /\ i < p => /\ published[i].input < inputs[k].input
                       /\ published[i].fate = "entered" => published[i].child < inputs[k].input

Placed == InputsNest /\ PiecesWereRead /\ \A k \in 2..Len(inputs) : EnteredAt(k)

(* How much of the current input the prepared document accounts for. *)
Done ==
  IF mode.scan \in {"skip", "capture"} THEN mode.start - 1
  ELSE IF mode.scan = "pending" THEN Position - 1 ELSE Position

(* A scan began at a token of the current input; the branches of a capture *)
(* began one inside another; reading stops at the root.                    *)
BranchesNest ==
  mode.scan = "capture" =>
    /\ Len(mode.branches) # 0
    /\ \A j, k \in 1..Len(mode.branches) : j < k => mode.branches[j].base <= mode.branches[k].base
    /\ mode.branches[Len(mode.branches)].base <= mode.open

Cursor ==
  /\ Reading => remainder = 0 /\ Done \in 0..Position
  /\ ~Reading => Len(inputs) = 1 /\ remainder \in 1..(Len(text[1]) + 1)

Reached == TypeOK /\ Placed /\ Cursor /\ BranchesNest

LEMMA CursorFacts ==
  ASSUME TypeOK, InputsNest
  PROVE  /\ Len(inputs) \in Nat \ {0} /\ Len(inputs) \in 1..Len(inputs)
         /\ Last(inputs) = inputs[Len(inputs)] /\ Last(inputs) \in Handoffs
         /\ Current \in 1..Len(text) /\ Current = inputs[Len(inputs)].input
         /\ text[Current] \in Seq(Tokens) /\ Position \in Nat
         /\ Len(text) \in Nat /\ Len(published) \in Nat
PROOF
  <1>1. Len(inputs) \in Nat \ {0} /\ Len(inputs) \in 1..Len(inputs) /\ Len(text) \in Nat
    BY DEF TypeOK
  <1>2. Last(inputs) = inputs[Len(inputs)] /\ Last(inputs) \in Handoffs
    BY <1>1 DEF TypeOK, Last
  <1>3. Current \in 1..Len(text) /\ Current = inputs[Len(inputs)].input
    BY <1>1, <1>2 DEF InputsNest, Current
  <1>4. text[Current] \in Seq(Tokens)
    BY <1>3 DEF TypeOK
  <1>5. Position \in Nat
    BY <1>4 DEF Position
  <1>6. QED BY <1>1, <1>2, <1>3, <1>4, <1>5 DEF TypeOK

(* What a longer text keeps. *)
Lengthens == text' = text \/ \E t \in Tokens : text' = Moved(t)

LEMMA MovedText ==
  ASSUME TypeOK, InputsNest, NEW t \in Tokens, text' = Moved(t)
  PROVE  /\ text' \in Seq(Seq(Tokens)) /\ Len(text') = Len(text)
         /\ Len(text'[Current]) = Position + 1 /\ text'[Current][Position + 1] = t
         /\ \A a \in 1..Position : text'[Current][a] = text[Current][a]
         /\ \A n \in 1..Len(text) : n # Current => text'[n] = text[n]
PROOF
  <1>1. /\ Current \in 1..Len(text) /\ text[Current] \in Seq(Tokens) /\ text \in Seq(Seq(Tokens))
        /\ Len(text[Current]) = Position
    BY CursorFacts DEF TypeOK, Position
  <1>2. PICK c \in 1..Len(text) : c = Current
    BY <1>1
  <1>3. PICK s \in Seq(Tokens) : s = Append(text[c], t)
    <2>1. text[c] \in Seq(Tokens)
      BY <1>1, <1>2
    <2>2. Append(text[c], t) \in Seq(Tokens)
      BY <2>1
    <2>3. QED BY <2>2
  <1>4. text' = [text EXCEPT ![c] = s]
    BY <1>2, <1>3 DEF Moved
  <1>5. /\ text' \in Seq(Seq(Tokens)) /\ Len(text') = Len(text) /\ text'[c] = s
        /\ \A n \in 1..Len(text) : n # c => text'[n] = text[n]
    BY <1>1, <1>3, <1>4
  <1>6. /\ Len(s) = Position + 1 /\ s[Position + 1] = t
        /\ \A a \in 1..Position : s[a] = text[c][a]
    BY <1>1, <1>2, <1>3
  <1>7. QED BY <1>2, <1>5, <1>6

LEMMA LongerText ==
  ASSUME TypeOK, InputsNest, Lengthens
  PROVE  /\ text' \in Seq(Seq(Tokens)) /\ Len(text') = Len(text)
         /\ \A n \in 1..Len(text) : /\ Len(text'[n]) \in Nat /\ Len(text[n]) \in Nat
                                    /\ Len(text[n]) <= Len(text'[n])
                                    /\ n # Current => text'[n] = text[n]
                                    /\ \A a \in 1..Len(text[n]) : a \in 1..Len(text'[n]) /\ text'[n][a] = text[n][a]
PROOF
  <1>1. text \in Seq(Seq(Tokens)) /\ \A n \in 1..Len(text) : Len(text[n]) \in Nat
    BY DEF TypeOK
  <1>2. CASE text' = text
    <2>1. text' \in Seq(Seq(Tokens)) /\ Len(text') = Len(text)
      <3>1. PICK x : x = text
        OBVIOUS
      <3>2. text' = x
        BY <1>2, <3>1
      <3>3. QED BY <1>1, <3>1, <3>2
    <2>2. \A n \in 1..Len(text) : Len(text'[n]) = Len(text[n]) /\ text'[n] = text[n]
      BY <1>2
    <2>3. QED BY <1>1, <2>1, <2>2
  <1>3. ASSUME NEW t \in Tokens, text' = Moved(t)
        PROVE  /\ text' \in Seq(Seq(Tokens)) /\ Len(text') = Len(text)
               /\ \A n \in 1..Len(text) : /\ Len(text'[n]) \in Nat /\ Len(text[n]) \in Nat
                                          /\ Len(text[n]) <= Len(text'[n])
                                          /\ n # Current => text'[n] = text[n]
                                          /\ \A a \in 1..Len(text[n]) : a \in 1..Len(text'[n]) /\ text'[n][a] = text[n][a]
    <2>1. /\ text' \in Seq(Seq(Tokens)) /\ Len(text') = Len(text)
          /\ Len(text'[Current]) = Position + 1
          /\ \A a \in 1..Position : text'[Current][a] = text[Current][a]
          /\ \A n \in 1..Len(text) : n # Current => text'[n] = text[n]
      BY <1>3, MovedText
    <2>2. Len(text[Current]) = Position /\ Position \in Nat
      BY CursorFacts DEF Position
    <2>3. \A n \in 1..Len(text) : /\ Len(text'[n]) \in Nat /\ Len(text[n]) \in Nat
                                  /\ Len(text[n]) <= Len(text'[n])
                                  /\ n # Current => text'[n] = text[n]
                                  /\ \A a \in 1..Len(text[n]) : a \in 1..Len(text'[n]) /\ text'[n][a] = text[n][a]
      <3>1. TAKE n \in 1..Len(text)
      <3>2. CASE n = Current
        BY <2>1, <2>2, <3>2
      <3>3. CASE n # Current
        BY <1>1, <2>1, <3>3
      <3>4. QED BY <3>2, <3>3
    <2>4. QED BY <2>1, <2>3
  <1>4. QED BY <1>2, <1>3 DEF Lengthens

(***************************************************************************)
(* Four kinds of step: the reader goes on in the same input and publishes  *)
(* what follows there, it enters an input, it retains it, or it leaves it. *)
(***************************************************************************)
Follow(es, first) ==
  /\ es \in Seq(Entries)
  /\ \A k \in 1..Len(es) : es[k].input = Current /\ es[k].at = first + k - 1 /\ es[k].fate # "entered"

ReadsOn ==
  /\ Lengthens /\ inputs' = inputs
  /\ \E es : /\ Follow(es, Done + 1) /\ published' = published \o es
             /\ Done + Len(es) <= Len(text'[Current])
             /\ \/ Reading' /\ remainder' = remainder /\ Done + Len(es) = Done'
                \/ ~Reading' /\ AtRoot /\ Done + Len(es) = remainder' - 1

Retains == Lengthens /\ ~AtRoot /\ RetainInput

LEMMA FollowNone ==
  ASSUME TypeOK, InputsNest
  PROVE  published = published \o <<>> /\ \A first \in Nat : Follow(<<>>, first)
PROOF
  <1>1. published \in Seq(Entries)
    BY DEF TypeOK
  <1>2. <<>> \in Seq(Entries) /\ Len(<<>>) = 0
    OBVIOUS
  <1>3. QED BY <1>1, <1>2 DEF Follow

LEMMA FollowOne ==
  ASSUME TypeOK, InputsNest, NEW at \in Nat, NEW fate \in Fates, fate # "entered"
  PROVE  Follow(<<Entry(at, fate, 0)>>, at) /\ Len(<<Entry(at, fate, 0)>>) = 1
PROOF
  <1>1. Current \in Nat
    BY CursorFacts
  <1>2. Entry(at, fate, 0) \in Entries
    BY <1>1 DEF Entries, Entry
  <1>3. PICK e \in Entries : e = Entry(at, fate, 0)
    BY <1>2
  <1>4. e.input = Current /\ e.at = at /\ e.fate = fate
    BY <1>3 DEF Entry
  <1>5. <<e>> \in Seq(Entries) /\ Len(<<e>>) = 1 /\ <<e>>[1] = e
    OBVIOUS
  <1>6. Follow(<<e>>, at)
    <2>1. \A k \in 1..Len(<<e>>) : k = 1
      BY <1>5
    <2>2. QED BY <1>4, <1>5, <2>1 DEF Follow
  <1>7. QED BY <1>3, <1>5, <1>6

LEMMA FollowRegion ==
  ASSUME TypeOK, InputsNest, NEW from \in Nat, NEW to \in Nat, from <= to + 1,
         NEW fate \in Fates, fate # "entered"
  PROVE  Follow(Region(from, to, fate), from) /\ Len(Region(from, to, fate)) = to + 1 - from
PROOF
  <1>1. Current \in Nat
    BY CursorFacts
  <1>2. \A k \in 1..(to + 1 - from) : from + k - 1 \in Nat
    OBVIOUS
  <1>3. \A at \in Nat : /\ Entry(at, fate, 0) \in Entries /\ Entry(at, fate, 0).input = Current
                        /\ Entry(at, fate, 0).at = at /\ Entry(at, fate, 0).fate = fate
    BY <1>1 DEF Entries, Entry
  <1>4. PICK m \in Nat : m = to + 1 - from
    OBVIOUS
  <1>5. Region(from, to, fate) \in [1..m -> Entries]
    BY <1>2, <1>3, <1>4 DEF Region
  <1>6. Region(from, to, fate) \in Seq(Entries) /\ Len(Region(from, to, fate)) = m
    BY <1>5
  <1>7. \A k \in 1..m : Region(from, to, fate)[k] = Entry(from + k - 1, fate, 0)
    BY <1>4 DEF Region
  <1>8. \A k \in 1..m : /\ Region(from, to, fate)[k].input = Current
                          /\ Region(from, to, fate)[k].at = from + k - 1
                          /\ Region(from, to, fate)[k].fate = fate
    BY <1>2, <1>3, <1>4, <1>7
  <1>9. QED BY <1>4, <1>6, <1>8 DEF Follow

(* A reading boundary. *)
LEMMA BoundaryStep ==
  ASSUME Reached, Reading, Lengthens, NEW start, start = Done + 1, NEW where \in {"token", "end"},
         Boundary(start, where)
  PROVE  (ReadsOn /\ AtRoot) \/ Retains
PROOF
  <1>1. CASE ~AtRoot /\ RetainInput
    BY <1>1 DEF Retains
  <1>2. CASE AtRoot /\ remainder' = start /\ stop' = where /\ UNCHANGED <<inputs, groups, conditionals, mode, published>>
    <2>1. ~Reading'
      BY <1>2 DEF Reading
    <2>2. Done \in 0..Position /\ Position \in Nat /\ Current \in 1..Len(text)
      BY CursorFacts DEF Reached, Placed, Cursor
    <2>3. Position <= Len(text'[Current])
      BY <2>2, LongerText DEF Position, Reached, Placed
    <2>4. Follow(<<>>, Done + 1) /\ published' = published \o <<>> /\ Len(<<>>) = 0
      <3>1. Done + 1 \in Nat
        BY <2>2
      <3>2. QED BY <1>2, <3>1, FollowNone DEF Reached, Placed
    <2>5. Done + Len(<<>>) = remainder' - 1
      BY <1>2, <2>2, <2>4
    <2>6. Done + Len(<<>>) <= Len(text'[Current])
      <3>1. PICK n : n = Len(text'[Current]) /\ n \in Nat
        BY <2>2, LongerText DEF Reached, Placed
      <3>2. QED BY <2>2, <2>3, <2>4, <3>1
    <2>7. ReadsOn
      <3>1. PICK es : es = <<>>
        OBVIOUS
      <3>2. /\ Follow(es, Done + 1) /\ published' = published \o es
            /\ Done + Len(es) <= Len(text'[Current]) /\ Done + Len(es) = remainder' - 1
        BY <2>4, <2>5, <2>6, <3>1
      <3>3. QED BY <1>2, <2>1, <3>2 DEF ReadsOn
    <2>8. QED BY <1>2, <2>7
  <1>3. QED BY <1>1, <1>2 DEF Boundary

(***************************************************************************)
(* Every step is one of the four kinds.                                    *)
(***************************************************************************)

LEMMA Consumed ==
  ASSUME Reached, NEW t \in Tokens, text' = Moved(t)
  PROVE  /\ Lengthens /\ Len(text'[Current]) = Position + 1 /\ Position \in Nat
         /\ inputs' = inputs => Current' = Current /\ Position' = Position + 1
         /\ inputs' = inputs => Last(text'[Current]) = t
PROOF
  <1>1. Lengthens
    BY DEF Lengthens
  <1>2. Len(text'[Current]) = Position + 1 /\ Position \in Nat /\ text'[Current][Position + 1] = t
    BY MovedText, CursorFacts DEF Reached, Placed
  <1>3. ASSUME inputs' = inputs
        PROVE  Current' = Current
    BY <1>3 DEF Current
  <1>4. inputs' = inputs => Position' = Position + 1
    BY <1>2, <1>3 DEF Position
  <1>5. QED BY <1>1, <1>2, <1>3, <1>4 DEF Last

LEMMA Unread ==
  ASSUME Reached, text' = text
  PROVE  /\ Lengthens /\ Len(text'[Current]) = Position /\ Position \in Nat
         /\ inputs' = inputs => Current' = Current /\ Position' = Position
PROOF
  <1>1. inputs' = inputs => Current' = Current
    BY DEF Current
  <1>2. QED BY <1>1, CursorFacts DEF Reached, Placed, Position, Lengthens

LEMMA Published ==
  ASSUME Reached, Reading, Reading', remainder' = remainder, Lengthens, inputs' = inputs,
         NEW es, Follow(es, Done + 1), published' = published \o es,
         Done + Len(es) = Done', Done' <= Len(text'[Current])
  PROVE  ReadsOn
BY DEF ReadsOn

LEMMA NextNumber ==
  ASSUME NEW d \in Nat
  PROVE  d + 1 \in Nat /\ \A n : n = 0 => d + n = d
OBVIOUS

LEMMA PublishedNone ==
  ASSUME Reached, Reading, Reading', remainder' = remainder, Lengthens, inputs' = inputs,
         published' = published, NEW d \in Nat, d = Done, d = Done', d <= Len(text'[Current])
  PROVE  ReadsOn
PROOF
  <1>1. PICK es : es = <<>>
    OBVIOUS
  <1>2. published' = published \o es /\ Follow(es, d + 1) /\ Len(es) = 0
    <2>1. d + 1 \in Nat
      BY NextNumber
    <2>2. QED BY <1>1, <2>1, FollowNone DEF Reached, Placed
  <1>3. d + Len(es) = d
    BY <1>2, NextNumber
  <1>4. QED BY <1>2, <1>3, Published

LEMMA PublishedOne ==
  ASSUME Reached, Reading, Reading', remainder' = remainder, Lengthens, inputs' = inputs,
         NEW fate \in Fates, fate # "entered", published' = published \o <<Entry(Done + 1, fate, 0)>>,
         Done' = Done + 1, Done' <= Len(text'[Current])
  PROVE  ReadsOn
PROOF
  <1>1. Done + 1 \in Nat
    BY CursorFacts DEF Reached, Placed, Cursor
  <1>2. PICK es : es = <<Entry(Done + 1, fate, 0)>>
    OBVIOUS
  <1>3. published' = published \o es /\ Follow(es, Done + 1) /\ Len(es) = 1
    BY <1>1, <1>2, FollowOne DEF Reached, Placed
  <1>4. QED BY <1>3, Published

(* A token executed where it is read. *)
LEMMA PublishedNext ==
  ASSUME Reached, Reading, mode = Executing, NEW t \in Tokens, Consume(t), inputs' = inputs,
         stop' = stop, remainder' = remainder,
         NEW fate \in Fates, fate # "entered", PublishNext(fate),
         mode' = Executing \/ mode' = Skipping(Position + 2, 0)
  PROVE  ReadsOn
PROOF
  <1>1. Lengthens /\ Len(text'[Current]) = Position + 1 /\ Position \in Nat /\ Position' = Position + 1
    BY Consumed DEF Consume
  <1>2. Done = Position /\ Done' = Position + 1
    BY <1>1 DEF Done, Executing, Skipping
  <1>3. Reading'
    BY DEF Reading
  <1>4. published' = published \o <<Entry(Done + 1, fate, 0)>>
    BY <1>2 DEF PublishNext, Publish
  <1>5. QED BY <1>1, <1>2, <1>3, <1>4, PublishedOne

LEMMA RouteStep ==
  ASSUME Reached, Reading, Lengthens, NEW t \in Tokens, NEW at, at = Done + 1,
         at = Len(text'[Current]), mode = Executing \/ mode = Pending, RouteDelimiter(t, at)
  PROVE  ReadsOn \/ Retains
PROOF
  <1>1. CASE /\ Routable(t.role)
             /\ mode' = IF SkipsAfter(t.role) THEN Skipping(at + 1, 0) ELSE Executing
             /\ Publish(<<Entry(at, "executed", 0)>>)
             /\ UNCHANGED <<inputs, groups, remainder, stop>>
    <2>1. Done \in Nat /\ at \in Nat
      BY CursorFacts DEF Reached, Placed, Cursor
    <2>2. Current' = Current /\ Position' = at
      BY <1>1 DEF Current, Position
    <2>3. Done' = at
      BY <1>1, <2>1, <2>2 DEF Done, Executing, Skipping
    <2>4. Reading' /\ "executed" \in Fates /\ "executed" # "entered"
      BY <1>1 DEF Reading, Fates
    <2>5. published' = published \o <<Entry(Done + 1, "executed", 0)>>
      BY <1>1 DEF Publish
    <2>6. Done' = Done + 1 /\ Done' <= Len(text'[Current])
      BY <2>1, <2>3
    <2>7. QED BY <1>1, <2>4, <2>5, <2>6, PublishedOne
  <1>2. CASE Boundary(at, "token")
    BY <1>2, BoundaryStep
  <1>3. QED BY <1>1, <1>2 DEF RouteDelimiter

LEMMA StepReads ==
  ASSUME Reached, Next
  PROVE  ReadsOn \/ Retains \/ (\E t \in Tokens : EnterInput(t)) \/ LeaveInput
PROOF
  <1>1. Position \in Nat /\ (Reading => Done \in 0..Position)
    BY CursorFacts DEF Reached, Placed, Cursor
  <1>2. ASSUME mode = Executing
        PROVE  Done = Position
    BY <1>2 DEF Done, Executing
  <1>3. Fates = {"executed", "skipped", "captured", "discarded", "failed", "entered", "retained"}
    BY DEF Fates
  <1>4. ASSUME NEW t \in Tokens, BeginGroup(t)
        PROVE  ReadsOn
    BY <1>3, <1>4, PublishedNext DEF BeginGroup, Execute
  <1>5. ASSUME NEW t \in Tokens, EndGroup(t)
        PROVE  ReadsOn \/ Retains
    <2>1. CASE groups # <<>> /\ Last(groups) = t.kind
      BY <1>3, <1>5, <2>1, PublishedNext DEF EndGroup, Execute
    <2>2. CASE Boundary(Position + 1, "token")
      <3>1. Position + 1 = Done + 1
        BY <1>2, <1>5 DEF EndGroup, Execute
      <3>2. Lengthens /\ Reading
        BY <1>5, Consumed DEF EndGroup, Execute, Consume
      <3>3. QED BY <2>2, <3>1, <3>2, BoundaryStep
    <2>3. QED BY <1>5, <2>1, <2>2 DEF EndGroup
  <1>6. ASSUME NEW t \in Tokens, OpenConditional(t)
        PROVE  ReadsOn
    <2>1. mode' = Executing \/ mode' = Skipping(Position + 2, 0)
      BY <1>6 DEF OpenConditional
    <2>2. QED BY <1>3, <1>6, <2>1, PublishedNext DEF OpenConditional, Execute
  <1>7. ASSUME NEW t \in Tokens, MeetDelimiter(t)
        PROVE  ReadsOn \/ Retains
    <2>1. Position + 1 = Done + 1
      BY <1>2, <1>7 DEF MeetDelimiter, Execute
    <2>2. Lengthens /\ Reading /\ Position + 1 = Len(text'[Current])
      BY <1>7, Consumed DEF MeetDelimiter, Execute, Consume
    <2>3. QED BY <1>7, <2>1, <2>2, RouteStep DEF MeetDelimiter, Execute
  <1>8. ASSUME NEW t \in Tokens, Capture(t)
        PROVE  ReadsOn
    <2>1. Lengthens /\ Reading /\ Position + 1 = Len(text'[Current]) /\ Position' = Position + 1
      BY <1>8, Consumed DEF Capture, Execute, Consume
    <2>2. Done = Position /\ Done' = Position
      BY <1>1, <1>2, <1>8 DEF Capture, Execute, Done, Capturing
    <2>3. Reading'
      BY <1>8, <2>1 DEF Reading, Capture
    <2>4. Done' <= Len(text'[Current])
      BY <1>1, <2>1, <2>2
    <2>5. QED BY <1>1, <1>8, <2>1, <2>2, <2>3, <2>4, PublishedNone DEF Capture
  <1>9. ASSUME NEW t \in Tokens, FailInput(t)
        PROVE  ReadsOn
    BY <1>3, <1>9, PublishedNext DEF FailInput, Execute
  <1>10. ASSUME NEW t \in Tokens, MeetInvalid(t)
         PROVE  ReadsOn \/ Retains
    <2>1. CASE PublishNext("discarded") /\ UNCHANGED <<inputs, groups, conditionals, mode, remainder, stop>>
      BY <1>3, <1>10, <2>1, PublishedNext DEF MeetInvalid, Execute
    <2>2. CASE Boundary(Position + 1, "token")
      <3>1. Position + 1 = Done + 1
        BY <1>2, <1>10 DEF MeetInvalid, Execute
      <3>2. Lengthens /\ Reading
        BY <1>10, Consumed DEF MeetInvalid, Execute, Consume
      <3>3. QED BY <2>2, <3>1, <3>2, BoundaryStep
    <2>3. QED BY <1>10, <2>1, <2>2 DEF MeetInvalid
  <1>11. ASSUME NEW t \in Tokens, Consume(t), Reading, inputs' = inputs, stop' = stop,
                remainder' = remainder, published' = published, mode.scan \in {"skip", "capture"},
                mode'.scan \in {"skip", "capture"}, mode'.start = mode.start
         PROVE  ReadsOn
    <2>1. Lengthens /\ Position + 1 = Len(text'[Current])
      BY <1>11, Consumed DEF Consume
    <2>2. Done = Done' /\ Reading'
      BY <1>11 DEF Done, Reading
    <2>3. Done' <= Len(text'[Current])
      BY <1>1, <1>11, <2>1, <2>2
    <2>4. PICK d \in Nat : d = Done
      BY <1>1, <1>11
    <2>5. QED BY <1>11, <2>1, <2>2, <2>3, <2>4, PublishedNone
  <1>12. ASSUME mode.scan = "skip"
         PROVE  mode \in [scan : {"skip"}, start : Nat, depth : Nat] /\ Done = mode.start - 1
    BY <1>12, ModeFacts DEF Reached, Done
  <1>13. ASSUME NEW t \in Tokens, SkipToken(t)
         PROVE  ReadsOn
    <2>1. mode'.scan = "skip" /\ mode'.start = mode.start
      BY <1>12, <1>13 DEF SkipToken
    <2>2. QED BY <1>11, <1>13, <2>1 DEF SkipToken
  <1>14. ASSUME NEW t \in Tokens, EndSkip(t)
         PROVE  ReadsOn
    <2>1. /\ Lengthens /\ Reading /\ Position + 1 = Len(text'[Current]) /\ Position' = Position + 1
          /\ inputs' = inputs /\ mode.scan = "skip" /\ mode' = Pending /\ Reading' /\ remainder' = remainder
          /\ published' = published \o Region(mode.start, Position, "skipped")
      BY <1>14, Consumed DEF EndSkip, Consume, Publish, Reading
    <2>2. Done' = Position
      BY <1>1, <2>1 DEF Done, Pending
    <2>3. mode.start \in Nat /\ mode.start <= Position + 1 /\ Done = mode.start - 1
      BY <1>1, <1>12, <2>1
    <2>4. /\ Follow(Region(mode.start, Position, "skipped"), mode.start)
          /\ Len(Region(mode.start, Position, "skipped")) = Position + 1 - mode.start
      BY <1>1, <1>3, <2>3, FollowRegion DEF Reached, Placed
    <2>5. mode.start = Done + 1 /\ Done + (Position + 1 - mode.start) = Position /\ Position <= Position + 1
      BY <1>1, <2>3
    <2>6. PICK es : es = Region(mode.start, Position, "skipped")
      OBVIOUS
    <2>7. /\ Follow(es, Done + 1) /\ Done + Len(es) = Done' /\ Done' <= Len(text'[Current])
          /\ published' = published \o es
      BY <2>1, <2>2, <2>4, <2>5, <2>6
    <2>8. QED BY <2>1, <2>7, Published
  <1>15. ASSUME NEW t \in Tokens, FailSkip(t)
         PROVE  ReadsOn \/ Retains
    <2>1. mode.start \in Nat /\ mode.start = Done + 1
      BY <1>12, <1>15 DEF FailSkip
    <2>2. Lengthens /\ Reading
      BY <1>15, Consumed DEF FailSkip, Consume
    <2>3. QED BY <1>15, <2>1, <2>2, BoundaryStep DEF FailSkip
  <1>16. ASSUME mode.scan = "capture"
         PROVE  /\ mode \in [scan : {"capture"}, start : Nat, open : Nat,
                             branches : Seq([base : Nat, alternative : BOOLEAN])]
                /\ Done = mode.start - 1 /\ mode.start \in Nat
    BY <1>16, ModeFacts DEF Reached, Done
  <1>17. ASSUME NEW t \in Tokens, CaptureToken(t)
         PROVE  ReadsOn
    <2>1. mode'.scan = "capture" /\ mode'.start = mode.start
      BY <1>16, <1>17 DEF CaptureToken, Captures
    <2>2. QED BY <1>11, <1>17, <2>1 DEF CaptureToken
  <1>18. ASSUME NEW t \in Tokens, EndCapture(t)
         PROVE  ReadsOn
    <2>1. /\ Lengthens /\ Reading /\ Position + 1 = Len(text'[Current]) /\ Position' = Position + 1
          /\ inputs' = inputs /\ mode.scan = "capture" /\ mode' = Executing /\ Reading' /\ remainder' = remainder
          /\ published' = published \o Region(mode.start, Position + 1, "captured")
      BY <1>18, Consumed DEF EndCapture, Consume, Publish, Reading
    <2>2. Done' = Position + 1
      BY <1>1, <2>1 DEF Done, Executing
    <2>3. mode.start \in Nat /\ mode.start <= Position + 1 /\ Done = mode.start - 1
      BY <1>1, <1>16, <2>1
    <2>4. Position + 1 \in Nat /\ mode.start <= (Position + 1) + 1
      BY <1>1, <2>3
    <2>5. /\ Follow(Region(mode.start, Position + 1, "captured"), mode.start)
          /\ Len(Region(mode.start, Position + 1, "captured")) = (Position + 1) + 1 - mode.start
      BY <1>3, <2>3, <2>4, FollowRegion DEF Reached, Placed
    <2>6. mode.start = Done + 1 /\ Done + ((Position + 1) + 1 - mode.start) = Position + 1
      BY <1>1, <2>3
    <2>7. PICK es : es = Region(mode.start, Position + 1, "captured")
      OBVIOUS
    <2>8. Follow(es, Done + 1) /\ Len(es) = (Position + 1) + 1 - mode.start /\ published' = published \o es
      BY <2>1, <2>5, <2>6, <2>7
    <2>9. Done + Len(es) = Done' /\ Done' <= Len(text'[Current])
      BY <1>1, <2>1, <2>2, <2>6, <2>8
    <2>10. QED BY <2>1, <2>8, <2>9, Published
  <1>19. ASSUME NEW t \in Tokens, FailCapture(t)
         PROVE  ReadsOn \/ Retains
    <2>1. mode.start = Done + 1
      BY <1>16, <1>19 DEF FailCapture
    <2>2. Lengthens /\ Reading
      BY <1>19, Consumed DEF FailCapture, Consume
    <2>3. QED BY <1>19, <2>1, <2>2, BoundaryStep DEF FailCapture
  <1>20. ASSUME RoutePending
         PROVE  ReadsOn \/ Retains
    <2>1. Reading /\ mode = Pending /\ Lengthens /\ text' = text
      BY <1>20 DEF RoutePending, Lengthens
    <2>2. Done = Position - 1
      BY <2>1 DEF Done, Pending
    <2>3. Position = Done + 1 /\ Position = Len(text'[Current]) /\ Position # 0
      BY <1>1, <2>1, <2>2 DEF Position
    <2>4. Last(text[Current]) \in Tokens
      <3>1. text[Current] \in Seq(Tokens) /\ Len(text[Current]) = Position
        BY CursorFacts DEF Reached, Placed, Position
      <3>2. QED BY <1>1, <2>3, <3>1 DEF Last
    <2>5. PICK t \in Tokens : t = Last(text[Current])
      BY <2>4
    <2>6. RouteDelimiter(t, Position)
      BY <1>20, <2>5 DEF RoutePending
    <2>7. QED BY <2>1, <2>3, <2>6, RouteStep
  <1>21. ASSUME FailLeaving
         PROVE  Retains
    BY <1>21 DEF FailLeaving, Retains, Lengthens
  <1>22. ASSUME EndRoot
         PROVE  ReadsOn
    <2>1. Boundary(Done + 1, "end") /\ Reading /\ Lengthens /\ AtRoot
      BY <1>2, <1>22 DEF EndRoot, Boundary, Lengthens
    <2>2. PICK start : start = Done + 1
      OBVIOUS
    <2>3. QED BY <2>1, <2>2, BoundaryStep DEF Retains
  <1>23. ASSUME EndInScan
         PROVE  ReadsOn \/ Retains
    <2>1. mode.start = Done + 1
      BY <1>12, <1>16, <1>23 DEF EndInScan
    <2>2. Lengthens /\ Reading
      BY <1>23 DEF EndInScan, Lengthens
    <2>3. QED BY <1>23, <2>1, <2>2, BoundaryStep DEF EndInScan
  <1>24. QED BY <1>4, <1>5, <1>6, <1>7, <1>8, <1>9, <1>10, <1>13, <1>14, <1>15, <1>17, <1>18, <1>19,
                <1>20, <1>21, <1>22, <1>23 DEF Next

(***************************************************************************)
(* The stacks, the scan and the cursor keep their types.                   *)
(***************************************************************************)

StacksOK ==
  /\ groups \in Seq(GroupKinds) /\ conditionals \in Seq(Conditionals)
  /\ mode \in Modes /\ remainder \in Nat /\ stop \in {"no", "token", "end"}
  /\ BranchesNest

LEMMA LastOf ==
  ASSUME NEW S, NEW q \in Seq(S)
  PROVE  /\ Len(q) \in Nat
         /\ q # <<>> <=> Len(q) # 0
         /\ q # <<>> => Last(q) \in S /\ Last(q) = q[Len(q)]
         /\ q # <<>> => Front(q) \in Seq(S) /\ Front(q) = SubSeq(q, 1, Len(q) - 1)
         /\ q # <<>> => Len(Front(q)) = Len(q) - 1 /\ \A k \in 1..(Len(q) - 1) : Front(q)[k] = q[k]
PROOF
  <1>1. Len(q) \in Nat /\ (q # <<>> <=> Len(q) # 0)
    OBVIOUS
  <1>2. Front(q) = SubSeq(q, 1, Len(q) - 1) /\ Last(q) = q[Len(q)]
    BY DEF Front, Last
  <1>3. ASSUME q # <<>>
        PROVE  Len(q) - 1 \in 0..Len(q) /\ q[Len(q)] \in S
    BY <1>1, <1>3
  <1>4. ASSUME q # <<>>
        PROVE  /\ SubSeq(q, 1, Len(q) - 1) \in Seq(S) /\ Len(SubSeq(q, 1, Len(q) - 1)) = Len(q) - 1
               /\ \A k \in 1..(Len(q) - 1) : SubSeq(q, 1, Len(q) - 1)[k] = q[k]
    BY <1>3, <1>4, SubTop
  <1>5. QED BY <1>1, <1>2, <1>3, <1>4

LEMMA StackModes ==
  /\ Executing \in Modes /\ Executing.scan = "none" /\ Pending \in Modes /\ Pending.scan = "pending"
  /\ \A start \in Nat : Skipping(start, 0) \in Modes /\ Skipping(start, 0).scan = "skip"
BY DEF Executing, Pending, Skipping, Modes

LEMMA RetainStacks ==
  ASSUME Reached, RetainInput
  PROVE  StacksOK'
PROOF
  <1>1. Last(inputs) \in Handoffs
    BY CursorFacts DEF Reached, Placed
  <1>2. groups' \in Seq(GroupKinds) /\ conditionals' \in Seq(Conditionals)
    BY <1>1 DEF RetainInput, Handoffs
  <1>3. mode' \in Modes /\ BranchesNest'
    BY StackModes DEF RetainInput, BranchesNest
  <1>4. remainder' \in Nat /\ stop' \in {"no", "token", "end"}
    BY DEF RetainInput, Reached, TypeOK
  <1>5. QED BY <1>2, <1>3, <1>4 DEF StacksOK

LEMMA BoundaryStacks ==
  ASSUME Reached, NEW start \in Nat, NEW where \in {"token", "end"}, Boundary(start, where)
  PROVE  StacksOK'
PROOF
  <1>1. CASE RetainInput
    BY <1>1, RetainStacks
  <1>2. CASE remainder' = start /\ stop' = where /\ UNCHANGED <<inputs, groups, conditionals, mode, published>>
    BY <1>2 DEF StacksOK, Reached, TypeOK, BranchesNest
  <1>3. QED BY <1>1, <1>2 DEF Boundary

LEMMA RoutedOK ==
  ASSUME conditionals \in Seq(Conditionals), NEW role, Routable(role)
  PROVE  Routed(role) \in Seq(Conditionals)
PROOF
  <1>1. Len(conditionals) \in Nat /\ conditionals # <<>> /\ Len(conditionals) # 0
    BY LastOf DEF Routable
  <1>2. Frame \in Conditionals /\ Front(conditionals) \in Seq(Conditionals)
    BY <1>1, LastOf DEF Frame
  <1>3. NextCase \in Conditionals
    <2>1. PICK b \in BOOLEAN : b = (Frame.remaining = 1)
      OBVIOUS
    <2>2. PICK f \in Conditionals : f = Frame
      BY <1>2
    <2>3. f.remaining - 1 \in Int
      BY DEF Conditionals
    <2>4. [f EXCEPT !.remaining = f.remaining - 1, !.truth = b] \in Conditionals
      BY <2>3 DEF Conditionals
    <2>5. NextCase = [f EXCEPT !.remaining = f.remaining - 1, !.truth = b]
      BY <2>1, <2>2 DEF NextCase
    <2>6. QED BY <2>4, <2>5
  <1>4. Len(conditionals) \in 1..Len(conditionals)
    BY <1>1
  <1>5. [conditionals EXCEPT ![Len(conditionals)] = NextCase] \in Seq(Conditionals)
    BY <1>3, <1>4
  <1>6. [conditionals EXCEPT ![Len(conditionals)].inAlternative = TRUE] \in Seq(Conditionals)
    <2>1. conditionals[Len(conditionals)] \in Conditionals
      BY <1>4
    <2>2. [conditionals[Len(conditionals)] EXCEPT !.inAlternative = TRUE] \in Conditionals
      BY <2>1 DEF Conditionals
    <2>3. PICK f \in Conditionals : f = [conditionals[Len(conditionals)] EXCEPT !.inAlternative = TRUE]
      BY <2>2
    <2>4. [conditionals EXCEPT ![Len(conditionals)] = f] \in Seq(Conditionals)
      BY <1>4
    <2>5. QED BY <2>3, <2>4
  <1>7. QED BY <1>2, <1>5, <1>6 DEF Routed

LEMMA RouteStacks ==
  ASSUME Reached, NEW t \in Tokens, NEW at \in Nat, RouteDelimiter(t, at)
  PROVE  StacksOK'
PROOF
  <1>1. CASE /\ Routable(t.role) /\ conditionals' = Routed(t.role)
             /\ mode' = IF SkipsAfter(t.role) THEN Skipping(at + 1, 0) ELSE Executing
             /\ UNCHANGED <<inputs, groups, remainder, stop>>
    <2>1. conditionals' \in Seq(Conditionals)
      BY <1>1, RoutedOK DEF Reached, TypeOK
    <2>2. at + 1 \in Nat
      OBVIOUS
    <2>3. mode' \in Modes /\ mode'.scan \in {"none", "skip"}
      BY <1>1, <2>2, StackModes
    <2>4. QED BY <1>1, <2>1, <2>3 DEF StacksOK, BranchesNest, Reached, TypeOK
  <1>2. CASE Boundary(at, "token")
    BY <1>2, BoundaryStacks
  <1>3. QED BY <1>1, <1>2 DEF RouteDelimiter

Branches == [base : Nat, alternative : BOOLEAN]

(* A token the scanner takes into a capture. *)
LEMMA CapturesOK ==
  ASSUME mode \in [scan : {"capture"}, start : Nat, open : Nat, branches : Seq(Branches)],
         BranchesNest, NEW t, ~Refuses(t)
  PROVE  /\ Captures(t) \in [scan : {"capture"}, start : Nat, open : Nat, branches : Seq(Branches)]
         /\ Captures(t).start = mode.start
         /\ Len(Captures(t).branches) # 0 =>
              /\ \A j, k \in 1..Len(Captures(t).branches) :
                   j < k => Captures(t).branches[j].base <= Captures(t).branches[k].base
              /\ Captures(t).branches[Len(Captures(t).branches)].base <= Captures(t).open
PROOF
  <1> DEFINE last == Len(mode.branches)
             Modes2 == [scan : {"capture"}, start : Nat, open : Nat, branches : Seq(Branches)]
             Nests(br, open) == Len(br) # 0 => /\ \A j, k \in 1..Len(br) : j < k => br[j].base <= br[k].base
                                               /\ br[Len(br)].base <= open
  <1>1. /\ mode.open \in Nat /\ mode.branches \in Seq(Branches) /\ last \in Nat /\ last # 0 /\ last \in 1..last
        /\ \A j, k \in 1..last : j < k => mode.branches[j].base <= mode.branches[k].base
        /\ mode.branches[last].base <= mode.open /\ mode.scan = "capture" /\ mode.start \in Nat
    <2>1. mode.open \in Nat /\ mode.branches \in Seq(Branches) /\ mode.scan = "capture" /\ mode.start \in Nat
      OBVIOUS
    <2>2. /\ last # 0 /\ mode.branches[last].base <= mode.open
          /\ \A j, k \in 1..last : j < k => mode.branches[j].base <= mode.branches[k].base
      BY <2>1 DEF BranchesNest
    <2>3. last \in Nat
      BY <2>1
    <2>4. QED BY <2>1, <2>2, <2>3
  <1>2. Branch = mode.branches[last] /\ Branch \in Branches
    BY <1>1, LastOf DEF Branch
  <1>3. \A k \in 1..last : mode.branches[k] \in Branches /\ mode.branches[k].base \in Nat
    <2>1. PICK br \in Seq(Branches) : br = mode.branches
      BY <1>1
    <2>2. \A k \in 1..Len(br) : br[k] \in Branches
      OBVIOUS
    <2>3. \A b \in Branches : b.base \in Nat
      BY DEF Branches
    <2>4. QED BY <2>1, <2>2, <2>3
  <1> HIDE DEF last
  <1>4. CASE t.role = "open"
    <2>1. Captures(t) = [mode EXCEPT !.open = mode.open + 1]
      BY <1>4 DEF Captures, Openers
    <2>2. Captures(t) \in Modes2 /\ Captures(t).branches = mode.branches /\ Captures(t).open = mode.open + 1
          /\ Captures(t).start = mode.start
      BY <1>1, <2>1
    <2>3. mode.branches[last].base <= mode.open + 1
      BY <1>1, <1>3
    <2>4. QED BY <1>1, <2>2, <2>3 DEF last
  <1>5. CASE t.role = "close"
    <2>1. mode.open # mode.branches[last].base
      BY <1>2, <1>5 DEF Refuses
    <2>2. mode.open - 1 \in Nat /\ mode.branches[last].base <= mode.open - 1
      BY <1>1, <1>3, <2>1
    <2>3. Captures(t) = [mode EXCEPT !.open = mode.open - 1]
      BY <1>5 DEF Captures, Openers
    <2>4. Captures(t) \in Modes2 /\ Captures(t).branches = mode.branches /\ Captures(t).open = mode.open - 1
          /\ Captures(t).start = mode.start
      BY <1>1, <2>2, <2>3
    <2>5. QED BY <1>1, <2>2, <2>4 DEF last
  <1>6. CASE t.role \in Openers
    <2>1. PICK b \in Branches : b = [base |-> mode.open, alternative |-> FALSE]
      <3>1. PICK n \in Nat : n = mode.open
        BY <1>1
      <3>2. [base |-> n, alternative |-> FALSE] \in Branches
        BY DEF Branches
      <3>3. QED BY <3>1, <3>2
    <2>2. PICK br \in Seq(Branches) : br = Append(mode.branches, b)
      <3>1. Append(mode.branches, b) \in Seq(Branches)
        BY <1>1
      <3>2. QED BY <3>1
    <2>3. Captures(t) = [mode EXCEPT !.branches = br]
      BY <1>6, <2>1, <2>2 DEF Captures, Openers
    <2>4. Captures(t) \in Modes2 /\ Captures(t).branches = br /\ Captures(t).open = mode.open
          /\ Captures(t).start = mode.start
      BY <1>1, <2>3
    <2>5. Len(br) = last + 1 /\ br[last + 1] = b /\ \A k \in 1..last : br[k] = mode.branches[k]
      BY <1>1, <2>2 DEF last
    <2>6. b.base = mode.open /\ mode.open <= mode.open
      BY <1>1, <2>1
    <2>7. \A k \in 1..last : mode.branches[k].base <= mode.open
      <3>1. TAKE k \in 1..last
      <3>2. k = last \/ mode.branches[k].base <= mode.branches[last].base
        BY <1>1
      <3>3. QED BY <1>1, <1>3, <3>2
    <2>8. \A j, k \in 1..Len(br) : j < k => br[j].base <= br[k].base
      <3>1. TAKE j, k \in 1..Len(br)
      <3>2. HAVE j < k
      <3>3. j \in 1..last /\ (k \in 1..last \/ k = last + 1)
        BY <1>1, <2>5, <3>2
      <3>4. QED BY <1>1, <2>5, <2>6, <2>7, <3>2, <3>3
    <2>9. QED BY <1>1, <2>4, <2>5, <2>6, <2>8
  <1>7. CASE t.role \in {"else", "or"}
    <2>1. PICK b \in Branches : b = [mode.branches[last] EXCEPT !.alternative = (t.role = "else")]
      <3>1. [mode.branches[last] EXCEPT !.alternative = (t.role = "else")] \in Branches
        BY <1>2 DEF Branches
      <3>2. QED BY <3>1
    <2>2. b.base = mode.branches[last].base
      BY <1>2, <2>1 DEF Branches
    <2>3. PICK br \in Seq(Branches) : br = [mode.branches EXCEPT ![last] = b]
      <3>1. PICK old \in Seq(Branches) : old = mode.branches
        BY <1>1
      <3>2. PICK n \in 1..Len(old) : n = last
        BY <1>1, <3>1 DEF last
      <3>3. [old EXCEPT ![n] = b] \in Seq(Branches)
        OBVIOUS
      <3>4. QED BY <3>1, <3>2, <3>3
    <2>4. Captures(t) = [mode EXCEPT !.branches = br]
      BY <1>7, <2>1, <2>3 DEF Captures, Openers, last
    <2>5. Captures(t) \in Modes2 /\ Captures(t).branches = br /\ Captures(t).open = mode.open
          /\ Captures(t).start = mode.start
      BY <1>1, <2>4
    <2>6. Len(br) = last /\ \A k \in 1..last : br[k].base = mode.branches[k].base
      BY <1>1, <2>2, <2>3 DEF last
    <2>7. QED BY <1>1, <2>5, <2>6
  <1>8. CASE t.role = "fi"
    <2>1. PICK br \in Seq(Branches) : br = Front(mode.branches)
      BY <1>1, LastOf DEF last
    <2>2. Captures(t) = [mode EXCEPT !.branches = br]
      BY <1>8, <2>1 DEF Captures, Openers
    <2>3. Captures(t) \in Modes2 /\ Captures(t).branches = br /\ Captures(t).open = mode.open
          /\ Captures(t).start = mode.start
      BY <1>1, <2>2
    <2>4. Len(br) = last - 1 /\ \A k \in 1..(last - 1) : br[k] = mode.branches[k]
      BY <1>1, <2>1, LastOf DEF last
    <2>5. \A k \in 1..(last - 1) : k \in 1..last /\ mode.branches[k].base <= mode.open
      <3>1. TAKE k \in 1..(last - 1)
      <3>2. k \in 1..last /\ mode.branches[k].base <= mode.branches[last].base
        BY <1>1
      <3>3. QED BY <1>1, <1>3, <3>2
    <2>6. Len(br) # 0 => last - 1 \in 1..(last - 1)
      BY <1>1, <2>4
    <2>7. QED BY <1>1, <2>3, <2>4, <2>5, <2>6
  <1>9. CASE t.role \notin {"open", "close", "else", "or", "fi"} \cup Openers
    <2>1. Captures(t) = mode
      BY <1>9 DEF Captures
    <2>2. QED BY <1>1, <2>1 DEF last
  <1>10. QED BY <1>4, <1>5, <1>6, <1>7, <1>8, <1>9

LEMMA SameStacks ==
  ASSUME Reached, groups' = groups, UNCHANGED <<remainder, stop>>
  PROVE  groups' \in Seq(GroupKinds) /\ remainder' \in Nat /\ stop' \in {"no", "token", "end"}
BY DEF Reached, TypeOK

LEMMA StepStacks ==
  ASSUME Reached, Next
  PROVE  StacksOK'
PROOF
  <1>1. /\ groups \in Seq(GroupKinds) /\ conditionals \in Seq(Conditionals) /\ mode \in Modes
        /\ remainder \in Nat /\ stop \in {"no", "token", "end"}
        /\ Position \in Nat /\ StacksOK
    BY CursorFacts DEF Reached, Placed, TypeOK, StacksOK
  <1>2. ASSUME UNCHANGED <<groups, conditionals, mode, remainder, stop>>
        PROVE  StacksOK'
    BY <1>1, <1>2 DEF StacksOK, BranchesNest
  <1>3. ASSUME NEW t \in Tokens, BeginGroup(t)
        PROVE  StacksOK'
    <2>1. t.kind \in GroupKinds
      BY <1>3, TokenFacts DEF BeginGroup
    <2>2. groups' \in Seq(GroupKinds)
      BY <1>1, <1>3, <2>1 DEF BeginGroup
    <2>3. QED BY <1>1, <1>3, <2>2 DEF StacksOK, BranchesNest, BeginGroup
  <1>4. ASSUME NEW t \in Tokens, EndGroup(t)
        PROVE  StacksOK'
    <2>1. CASE /\ groups # <<>> /\ groups' = Front(groups)
               /\ UNCHANGED <<inputs, conditionals, mode, remainder, stop>>
      <3>1. groups' \in Seq(GroupKinds)
        BY <1>1, <2>1, LastOf
      <3>2. QED BY <1>1, <2>1, <3>1 DEF StacksOK, BranchesNest
    <2>2. CASE Boundary(Position + 1, "token")
      <3>1. Position + 1 \in Nat
        BY <1>1
      <3>2. QED BY <2>2, <3>1, BoundaryStacks
    <2>3. QED BY <1>4, <2>1, <2>2 DEF EndGroup
  <1>5. ASSUME NEW t \in Tokens, OpenConditional(t)
        PROVE  StacksOK'
    <2>0. t.index \in Int
      BY TokenFacts
    <2>1. PICK truth \in BOOLEAN : truth = (t.role # "iffalse" /\ t.index = 0)
      OBVIOUS
    <2>2. PICK case \in BOOLEAN : case = (t.role = "ifcase")
      OBVIOUS
    <2>3. PICK f \in Conditionals :
            f = [truth |-> truth, inAlternative |-> FALSE, isCase |-> case, remaining |-> t.index]
      <3>1. [truth |-> truth, inAlternative |-> FALSE, isCase |-> case, remaining |-> t.index] \in Conditionals
        BY <2>0 DEF Conditionals
      <3>2. QED BY <3>1
    <2>4. conditionals' = Append(conditionals, f) /\ mode' = IF truth THEN Executing ELSE Skipping(Position + 2, 0)
      BY <1>5, <2>1, <2>2, <2>3 DEF OpenConditional
    <2>5. conditionals' \in Seq(Conditionals)
      BY <1>1, <2>4
    <2>6. Position + 2 \in Nat
      BY <1>1
    <2>7. mode' \in Modes /\ mode'.scan \in {"none", "skip"}
      BY <2>4, <2>6, StackModes
    <2>8. QED BY <1>1, <1>5, <2>5, <2>7 DEF OpenConditional, StacksOK, BranchesNest
  <1>6. ASSUME NEW t \in Tokens, MeetDelimiter(t)
        PROVE  StacksOK'
    <2>1. Position + 1 \in Nat
      BY <1>1
    <2>2. QED BY <1>6, <2>1, RouteStacks DEF MeetDelimiter
  <1>7. ASSUME NEW t \in Tokens, Capture(t)
        PROVE  StacksOK'
    <2>1. PICK b \in Branches : b = [base |-> 0, alternative |-> FALSE]
      <3>1. [base |-> 0, alternative |-> FALSE] \in Branches
        BY DEF Branches
      <3>2. QED BY <3>1
    <2>2. <<b>> \in Seq(Branches) /\ Len(<<b>>) = 1 /\ <<b>>[1] = b /\ b.base = 0
      BY <2>1
    <2>3. PICK br \in Seq(Branches) : br = <<b>>
      BY <2>2
    <2>4. Position + 1 \in Nat
      BY <1>1
    <2>5. mode' = [scan |-> "capture", start |-> Position + 1, open |-> 0, branches |-> br]
      BY <1>7, <2>1, <2>3 DEF Capture, Capturing
    <2>6. mode' \in Modes
      BY <2>4, <2>5 DEF Modes, Branches
    <2>7. mode'.branches = br /\ mode'.open = 0
      BY <2>5
    <2>8. BranchesNest'
      BY <2>2, <2>3, <2>7 DEF BranchesNest
    <2>9. QED BY <1>1, <1>7, <2>6, <2>8 DEF Capture, StacksOK
  <1>8. ASSUME NEW t \in Tokens, EnterInput(t)
        PROVE  StacksOK'
    BY <1>2, <1>8 DEF EnterInput
  <1>9. ASSUME NEW t \in Tokens, FailInput(t)
        PROVE  StacksOK'
    BY <1>2, <1>9 DEF FailInput
  <1>10. ASSUME NEW t \in Tokens, MeetInvalid(t)
         PROVE  StacksOK'
    <2>1. Position + 1 \in Nat
      BY <1>1
    <2>2. QED BY <1>2, <1>10, <2>1, BoundaryStacks DEF MeetInvalid
  <1>11. mode.scan = "skip" => mode \in [scan : {"skip"}, start : Nat, depth : Nat]
    BY ModeFacts DEF Reached
  <1>12. ASSUME NEW t \in Tokens, SkipToken(t)
         PROVE  StacksOK'
    <2>1. mode \in [scan : {"skip"}, start : Nat, depth : Nat] /\ mode.scan = "skip" /\ mode.depth \in Nat
      BY <1>11, <1>12 DEF SkipToken
    <2>2. t.role = "fi" => mode.depth # 0
      BY <1>12 DEF SkipToken, StopsSkip
    <2>3. CASE t.role \in Openers
      <3>1. mode' = [mode EXCEPT !.depth = mode.depth + 1]
        BY <1>12, <2>3 DEF SkipToken, Openers
      <3>2. mode' \in [scan : {"skip"}, start : Nat, depth : Nat]
        BY <2>1, <3>1
      <3>3. QED BY <1>1, <1>12, <3>2 DEF SkipToken, StacksOK, BranchesNest, Modes
    <2>4. CASE t.role = "fi"
      <3>1. mode' = [mode EXCEPT !.depth = mode.depth - 1] /\ mode.depth - 1 \in Nat
        BY <1>12, <2>1, <2>2, <2>4 DEF SkipToken, Openers
      <3>2. mode' \in [scan : {"skip"}, start : Nat, depth : Nat]
        BY <2>1, <3>1
      <3>3. QED BY <1>1, <1>12, <3>2 DEF SkipToken, StacksOK, BranchesNest, Modes
    <2>5. CASE t.role \notin Openers \cup {"fi"}
      <3>1. mode' = mode
        BY <1>12, <2>5 DEF SkipToken
      <3>2. QED BY <1>2, <1>12, <3>1 DEF SkipToken
    <2>6. QED BY <2>3, <2>4, <2>5
  <1>13. ASSUME NEW t \in Tokens, EndSkip(t)
         PROVE  StacksOK'
    <2>1. mode' \in Modes /\ mode'.scan = "pending"
      BY <1>13, StackModes DEF EndSkip
    <2>2. QED BY <1>1, <1>13, <2>1 DEF EndSkip, StacksOK, BranchesNest
  <1>14. ASSUME NEW t \in Tokens, FailSkip(t)
         PROVE  StacksOK'
    <2>1. mode.start \in Nat
      BY <1>11, <1>14 DEF FailSkip
    <2>2. QED BY <1>14, <2>1, BoundaryStacks DEF FailSkip
  <1>15. /\ mode.scan = "capture" =>
              mode \in [scan : {"capture"}, start : Nat, open : Nat, branches : Seq(Branches)]
         /\ BranchesNest
    BY ModeFacts DEF Reached, Branches
  <1>16. ASSUME NEW t \in Tokens, CaptureToken(t)
         PROVE  StacksOK'
    <2>1. /\ mode \in [scan : {"capture"}, start : Nat, open : Nat, branches : Seq(Branches)]
          /\ ~Refuses(t) /\ mode' = Captures(t) /\ Captures(t).branches # <<>>
      BY <1>15, <1>16 DEF CaptureToken
    <2>2. PICK m : m = Captures(t)
      OBVIOUS
    <2>3. m \in [scan : {"capture"}, start : Nat, open : Nat, branches : Seq(Branches)]
      BY <1>15, <2>1, <2>2, CapturesOK
    <2>4. Len(m.branches) # 0
      <3>1. m.branches \in Seq(Branches) /\ m.branches # <<>>
        BY <2>1, <2>2, <2>3
      <3>2. QED BY <3>1, LastOf
    <2>5. /\ \A j, k \in 1..Len(m.branches) : j < k => m.branches[j].base <= m.branches[k].base
          /\ m.branches[Len(m.branches)].base <= m.open
      BY <1>15, <2>1, <2>2, <2>4, CapturesOK
    <2>6. mode' = m /\ mode' \in Modes
      BY <2>1, <2>2, <2>3 DEF Modes, Branches
    <2>7. BranchesNest'
      BY <2>4, <2>5, <2>6 DEF BranchesNest
    <2>8. QED BY <1>1, <1>16, <2>6, <2>7 DEF CaptureToken, StacksOK
  <1>17. ASSUME NEW t \in Tokens, EndCapture(t)
         PROVE  StacksOK'
    <2>1. mode' \in Modes /\ mode'.scan = "none"
      BY <1>17, StackModes DEF EndCapture
    <2>2. QED BY <1>1, <1>17, <2>1 DEF EndCapture, StacksOK, BranchesNest
  <1>18. ASSUME NEW t \in Tokens, FailCapture(t)
         PROVE  StacksOK'
    <2>1. mode.start \in Nat
      BY <1>15, <1>18 DEF FailCapture
    <2>2. QED BY <1>18, <2>1, BoundaryStacks DEF FailCapture
  <1>19. ASSUME RoutePending
         PROVE  StacksOK'
    <2>1. Done \in 0..Position /\ Done = Position - 1
      BY <1>19 DEF RoutePending, Reached, Cursor, Done, Pending
    <2>2. PICK t \in Tokens : t = Last(text[Current])
      <3>1. text[Current] \in Seq(Tokens) /\ Len(text[Current]) = Position
        BY CursorFacts DEF Reached, Placed, Position
      <3>2. Position # 0
        BY <1>1, <2>1
      <3>3. Last(text[Current]) \in Tokens
        BY <3>1, <3>2, LastOf
      <3>4. QED BY <3>3
    <2>3. RouteDelimiter(t, Position)
      BY <1>19, <2>2 DEF RoutePending
    <2>4. QED BY <1>1, <2>3, RouteStacks
  <1>20. ASSUME LeaveInput
         PROVE  StacksOK'
    BY <1>2, <1>20 DEF LeaveInput
  <1>21. ASSUME FailLeaving
         PROVE  StacksOK'
    BY <1>21, RetainStacks DEF FailLeaving
  <1>22. ASSUME EndRoot
         PROVE  StacksOK'
    <2>1. Boundary(Position + 1, "end") /\ Position + 1 \in Nat
      BY <1>1, <1>22 DEF EndRoot, Boundary
    <2>2. QED BY <2>1, BoundaryStacks
  <1>23. ASSUME EndInScan
         PROVE  StacksOK'
    <2>1. mode.start \in Nat
      BY <1>11, <1>15, <1>23 DEF EndInScan
    <2>2. QED BY <1>23, <2>1, BoundaryStacks DEF EndInScan
  <1>24. QED BY <1>3, <1>4, <1>5, <1>6, <1>7, <1>8, <1>9, <1>10, <1>12, <1>13, <1>14, <1>16, <1>17, <1>18,
                <1>19, <1>20, <1>21, <1>22, <1>23 DEF Next

(***************************************************************************)
(* Reading on, leaving, entering and retaining keep the pieces in their    *)
(* place.                                                                  *)
(***************************************************************************)

LEMMA Concatenated ==
  ASSUME NEW S, NEW p \in Seq(S), NEW q \in Seq(S)
  PROVE  /\ p \o q \in Seq(S) /\ Len(p \o q) = Len(p) + Len(q)
         /\ Len(p) \in Nat /\ Len(q) \in Nat
         /\ \A i \in 1..Len(p) : (p \o q)[i] = p[i]
         /\ \A i \in 1..Len(q) : (p \o q)[Len(p) + i] = q[i]
         /\ \A i \in 1..Len(p \o q) : i \in 1..Len(p) \/ (i - Len(p) \in 1..Len(q) /\ (p \o q)[i] = q[i - Len(p)])
OBVIOUS

LEMMA NextReads ==
  ASSUME Next
  PROVE  Reading
BY DEF Next, BeginGroup, EndGroup, OpenConditional, MeetDelimiter, Capture, EnterInput, FailInput, MeetInvalid,
       SkipToken, EndSkip, FailSkip, CaptureToken, EndCapture, FailCapture, RoutePending, LeaveInput,
       FailLeaving, EndRoot, EndInScan, Execute

(* Reading on. *)
LEMMA ReadsOnPlaced ==
  ASSUME Reached, Reading, ReadsOn, StacksOK'
  PROVE  Reached'
PROOF
  <1>1. PICK es : /\ Follow(es, Done + 1) /\ published' = published \o es
                  /\ Done + Len(es) <= Len(text'[Current])
                  /\ \/ Reading' /\ remainder' = remainder /\ Done + Len(es) = Done'
                     \/ ~Reading' /\ AtRoot /\ Done + Len(es) = remainder' - 1
    BY DEF ReadsOn
  <1>2. inputs' = inputs /\ Lengthens /\ Current' = Current
    BY DEF ReadsOn, Current
  <1>3. /\ Len(inputs) \in Nat \ {0} /\ Current \in 1..Len(text) /\ Current = inputs[Len(inputs)].input
        /\ Position \in Nat /\ Done \in 0..Position /\ Len(text) \in Nat /\ Done \in Nat
        /\ InputsNest /\ PiecesWereRead /\ TypeOK /\ published \in Seq(Entries)
    BY CursorFacts DEF Reached, Placed, Cursor, TypeOK
  <1>4. /\ text' \in Seq(Seq(Tokens)) /\ Len(text') = Len(text) /\ Len(text'[Current]) \in Nat
        /\ \A n \in 1..Len(text) : /\ Len(text'[n]) \in Nat /\ Len(text[n]) \in Nat
                                    /\ Len(text[n]) <= Len(text'[n])
                                    /\ n # Current => text'[n] = text[n]
    BY <1>2, <1>3, LongerText
  <1>5. es \in Seq(Entries) /\ published \in Seq(Entries)
    BY <1>1, <1>3 DEF Follow
  <1>6. /\ published' \in Seq(Entries) /\ Len(published') = Len(published) + Len(es)
        /\ Len(published) \in Nat /\ Len(es) \in Nat
        /\ \A i \in 1..Len(published) : published'[i] = published[i]
        /\ \A i \in 1..Len(published') : i \in 1..Len(published) \/
             (i - Len(published) \in 1..Len(es) /\ published'[i] = es[i - Len(published)])
    BY <1>1, <1>5, Concatenated
  <1>7. ASSUME NEW i \in 1..Len(published'), i \notin 1..Len(published)
        PROVE  /\ published'[i].input = Current /\ published'[i].fate # "entered"
               /\ published'[i].at \in 1..Len(text'[Current])
    <2>1. PICK k \in 1..Len(es) : published'[i] = es[k]
      BY <1>6, <1>7
    <2>2. es[k].input = Current /\ es[k].at = (Done + 1) + k - 1 /\ es[k].fate # "entered"
      BY <1>1 DEF Follow
    <2>3. PICK d \in Nat : d = Done
      BY <1>3
    <2>4. PICK n \in Nat : n = Len(text'[Current])
      BY <1>4
    <2>5. d + Len(es) <= n
      BY <1>1, <2>3, <2>4
    <2>6. (d + 1) + k - 1 \in 1..n
      BY <1>6, <2>5
    <2>7. QED BY <2>1, <2>2, <2>3, <2>4, <2>6
  <1>8. InputsNest'
    <2>1. \A k \in 1..Len(inputs) : inputs[k].published \in 0..Len(published')
      <3>1. TAKE k \in 1..Len(inputs)
      <3>2. inputs[k].published \in 0..Len(published)
        BY <1>3 DEF InputsNest
      <3>3. QED BY <1>6, <3>2
    <2>2. QED BY <1>2, <1>3, <1>4, <2>1 DEF InputsNest
  <1>9. PiecesWereRead'
    <2>1. SUFFICES ASSUME NEW i \in 1..Len(published')
                   PROVE  /\ published'[i].input \in 1..Len(text)
                          /\ published'[i].at \in 1..Len(text'[published'[i].input])
                          /\ published'[i].fate = "entered" =>
                               published'[i].child \in (published'[i].input + 1)..Len(text)
      BY <1>4 DEF PiecesWereRead
    <2>2. CASE i \in 1..Len(published)
      <3>1. /\ published'[i] = published[i] /\ published[i].input \in 1..Len(text)
            /\ published[i].at \in 1..Len(text[published[i].input])
            /\ published[i].fate = "entered" =>
                               published[i].child \in (published[i].input + 1)..Len(text)
        BY <1>3, <1>6, <2>2 DEF PiecesWereRead
      <3>2. PICK n \in 1..Len(text) : n = published[i].input
        BY <3>1
      <3>3. published[i].at \in 1..Len(text'[n])
        <4>1. published[i].at \in 1..Len(text[n])
          BY <3>1, <3>2
        <4>2. QED BY <1>2, <1>3, <4>1, LongerText
      <3>4. QED BY <3>1, <3>2, <3>3
    <2>3. CASE i \notin 1..Len(published)
      BY <1>3, <1>7, <2>3
    <2>4. QED BY <2>2, <2>3
  <1>10. ASSUME NEW k \in 2..Len(inputs)
         PROVE  EnteredAt(k)'
    <2>1. EnteredAt(k)
      BY DEF Reached, Placed
    <2>2. PICK p \in 1..Len(published) : p = inputs[k].published + 1
      BY <2>1 DEF EnteredAt
    <2>3. k - 1 \in 1..Len(inputs) /\ k \in 1..Len(inputs) /\ k - 1 < Len(inputs) /\ (k = Len(inputs) \/ k < Len(inputs))
          /\ Len(inputs) \in 1..Len(inputs)
      BY <1>3
    <2>4. /\ inputs[k - 1].input < Current /\ inputs[k - 1].input \in 1..Len(text)
          /\ Current >= inputs[k].input
      <3>1. inputs[k - 1].input \in (k - 1)..Len(text) /\ inputs[k].input \in Int
        BY <1>3, <2>3 DEF InputsNest
      <3>2. inputs[k - 1].input < inputs[Len(inputs)].input
        BY <1>3, <2>3 DEF InputsNest
      <3>3. k = Len(inputs) \/ inputs[k].input < inputs[Len(inputs)].input
        BY <1>3, <2>3 DEF InputsNest
      <3>4. inputs[k - 1].input < Current /\ Current >= inputs[k].input
        BY <1>3, <3>1, <3>2, <3>3
      <3>5. inputs[k - 1].input \in 1..Len(text)
        BY <1>3, <2>3 DEF InputsNest
      <3>6. QED BY <3>4, <3>5
    <2>5. text'[inputs[k - 1].input] = text[inputs[k - 1].input]
      <3>1. PICK n \in 1..Len(text) : n = inputs[k - 1].input
        BY <2>4
      <3>2. n # Current
        BY <1>3, <2>4, <3>1
      <3>3. text'[n] = text[n]
        BY <1>2, <1>3, <3>2, LongerText
      <3>4. QED BY <3>1, <3>3
    <2>6. published'[p] = published[p] /\ p \in 1..Len(published')
      BY <1>6
    <2>7. ASSUME NEW i \in 1..Len(published')
          PROVE  /\ i > p => published'[i].input >= inputs[k].input
                 /\ i < p => /\ published'[i].input < inputs[k].input
                             /\ published'[i].fate = "entered" => published'[i].child < inputs[k].input
      <3>1. CASE i \in 1..Len(published)
        BY <1>6, <2>1, <2>2, <3>1 DEF EnteredAt
      <3>2. CASE i \notin 1..Len(published)
        <4>1. ~(i < p)
          BY <1>6, <3>2
        <4>2. QED BY <1>7, <2>4, <3>2, <4>1
      <3>3. QED BY <3>1, <3>2
    <2>8. QED BY <1>2, <2>1, <2>2, <2>5, <2>6, <2>7 DEF EnteredAt
  <1>11. Placed'
    BY <1>2, <1>8, <1>9, <1>10 DEF Placed
  <1>12. TypeOK'
    BY <1>2, <1>3, <1>4, <1>6 DEF TypeOK, StacksOK
  <1>13. Cursor'
    <2>1. PICK d, m, n \in Nat : d = Done /\ m = Len(es) /\ n = Len(text'[Current])
      BY <1>3, <1>4, <1>6
    <2>2. d + m \in 0..n
      BY <1>1, <2>1
    <2>3. CASE Reading'
      <3>1. remainder' = 0
        BY <1>1, <2>3 DEF Reached, Cursor
      <3>2. Done' \in 0..Position'
        BY <1>1, <1>2, <2>1, <2>2, <2>3 DEF Position
      <3>3. QED BY <2>3, <3>1, <3>2 DEF Cursor
    <2>4. CASE ~Reading'
      <3>1. Len(inputs) = 1 /\ Current = 1
        BY <1>1, <1>3, <2>4 DEF AtRoot, InputsNest
      <3>2. remainder' \in Nat
        BY DEF StacksOK
      <3>3. d + m = remainder' - 1
        BY <1>1, <2>1, <2>4
      <3>4. remainder' \in 1..(n + 1)
        <4>1. PICK r \in Nat : r = remainder'
          BY <3>2
        <4>2. d + m = r - 1 /\ d + m \in 0..n
          BY <2>2, <3>3, <4>1
        <4>3. r \in 1..(n + 1)
          BY <4>2
        <4>4. QED BY <4>1, <4>3
      <3>5. QED BY <1>2, <2>1, <2>4, <3>1, <3>4 DEF Cursor
    <2>5. QED BY <2>3, <2>4
  <1>14. QED BY <1>11, <1>12, <1>13 DEF Reached, StacksOK

LEMMA LeavesPlaced ==
  ASSUME Reached, LeaveInput, StacksOK'
  PROVE  Reached'
PROOF
  <1>1. /\ Reading /\ mode = Executing /\ Len(inputs) # 1 /\ inputs' = Front(inputs)
        /\ UNCHANGED <<text, groups, conditionals, mode, published, remainder, stop>>
    BY DEF LeaveInput, AtRoot
  <1>2. /\ inputs \in Seq(Handoffs) /\ Len(inputs) \in Nat /\ Len(inputs) >= 2 /\ Len(text) \in Nat
        /\ InputsNest /\ PiecesWereRead /\ Len(inputs) <= Len(text) /\ TypeOK
    <2>1. TypeOK /\ InputsNest /\ PiecesWereRead
      BY DEF Reached, Placed
    <2>2. inputs \in Seq(Handoffs) /\ Len(inputs) \in Nat /\ Len(text) \in Nat /\ Len(inputs) \in 1..Len(text)
      BY <2>1 DEF TypeOK
    <2>3. QED BY <1>1, <2>1, <2>2
  <1>3. inputs # <<>>
    BY <1>2
  <1>4. /\ inputs' \in Seq(Handoffs) /\ Len(inputs') = Len(inputs) - 1
        /\ \A k \in 1..(Len(inputs) - 1) : inputs'[k] = inputs[k] /\ k \in 1..Len(inputs)
    BY <1>1, <1>2, <1>3, LastOf
  <1>5. 1 \in 1..(Len(inputs) - 1) /\ Len(inputs') \in 1..Len(text)
    BY <1>2, <1>4
  <1>6. TypeOK'
    BY <1>1, <1>4, <1>5 DEF TypeOK, Reached
  <1>7. InputsNest'
    <2>1. \A k \in 1..Len(inputs') : k \in 1..Len(inputs) /\ inputs'[k] = inputs[k]
      BY <1>4
    <2>2. 1 \in 1..Len(inputs')
      BY <1>4, <1>5
    <2>3. inputs'[1].input = 1 /\ inputs'[1].published = 0
      BY <1>2, <2>1, <2>2 DEF InputsNest
    <2>4. \A k \in 1..Len(inputs') : /\ inputs'[k].input \in k..Len(text)
                                     /\ inputs'[k].published \in 0..Len(published)
      BY <1>2, <2>1 DEF InputsNest
    <2>5. \A j, k \in 1..Len(inputs') :
            j < k => inputs'[j].input < inputs'[k].input /\ inputs'[j].published <= inputs'[k].published
      BY <1>2, <2>1 DEF InputsNest
    <2>6. text' = text /\ published' = published
      BY <1>1
    <2>7. QED BY <2>3, <2>4, <2>5, <2>6 DEF InputsNest
  <1>8. PiecesWereRead'
    BY <1>1, <1>2 DEF PiecesWereRead
  <1>9. ASSUME NEW k \in 2..Len(inputs')
        PROVE  EnteredAt(k)'
    <2>1. k \in 2..Len(inputs) /\ k \in 1..(Len(inputs) - 1) /\ k - 1 \in 1..(Len(inputs) - 1)
      BY <1>2, <1>4
    <2>2. inputs'[k] = inputs[k] /\ inputs'[k - 1] = inputs[k - 1]
      BY <1>4, <2>1
    <2>3. EnteredAt(k)
      BY <2>1 DEF Reached, Placed
    <2>4. QED BY <1>1, <2>2, <2>3 DEF EnteredAt
  <1>10. Placed'
    BY <1>7, <1>8, <1>9 DEF Placed
  <1>11. Cursor'
    <2>1. Reading' /\ remainder' = 0
      BY <1>1 DEF Reading, Reached, Cursor
    <2>2. mode'.scan = "none"
      BY <1>1 DEF Executing
    <2>3. Done' = Position'
      BY <2>2 DEF Done
    <2>4. Position' \in Nat
      <3>1. Current' = inputs[Len(inputs) - 1].input
        <4>1. PICK l \in Nat : l = Len(inputs')
          BY <1>4
        <4>2. l \in 1..l /\ l = Len(inputs) - 1
          BY <1>4, <1>5, <4>1
        <4>3. inputs'[l] = inputs[l]
          BY <1>4, <4>2
        <4>4. Current' = inputs'[l].input
          BY <4>1 DEF Current, Last
        <4>5. QED BY <4>2, <4>3, <4>4
      <3>2. inputs[Len(inputs) - 1].input \in 1..Len(text)
        BY <1>2, <1>7, <1>4 DEF InputsNest
      <3>3. PICK n \in 1..Len(text) : n = inputs[Len(inputs) - 1].input
        BY <3>2
      <3>4. text'[n] \in Seq(Tokens) /\ Current' = n
        BY <1>6, <1>1, <3>1, <3>3 DEF TypeOK
      <3>5. QED BY <3>4 DEF Position
    <2>5. QED BY <2>1, <2>3, <2>4 DEF Cursor
  <1>12. QED BY <1>6, <1>10, <1>11 DEF Reached, StacksOK

(* The last open input, and the command that entered it. *)
LEMMA InputEntered ==
  ASSUME Reached, ~AtRoot, NEW h, h = Last(inputs)
  PROVE  /\ Len(inputs) \in Nat /\ Len(inputs) >= 2 /\ Len(inputs) - 1 \in 1..Len(inputs)
         /\ h = inputs[Len(inputs)] /\ h \in Handoffs /\ h.input = Current
         /\ h.published \in Nat /\ h.published + 1 \in 1..Len(published)
         /\ inputs[Len(inputs) - 1].input \in 1..Len(text)
         /\ inputs[Len(inputs) - 1].input < Current
         /\ Len(text[inputs[Len(inputs) - 1].input]) \in Nat \ {0}
         /\ published[h.published + 1].fate = "entered"
         /\ published[h.published + 1].child = Current
         /\ published[h.published + 1].input = inputs[Len(inputs) - 1].input
         /\ published[h.published + 1].at = Len(text[inputs[Len(inputs) - 1].input])
         /\ \A i \in 1..Len(published) :
              /\ i > h.published + 1 => published[i].input >= Current
              /\ i < h.published + 1 =>
                   /\ published[i].input < Current
                   /\ published[i].fate = "entered" => published[i].child < Current
PROOF
  <1>1. /\ Len(inputs) \in Nat /\ Len(inputs) \in 1..Len(inputs) /\ Len(inputs) # 1 /\ InputsNest /\ PiecesWereRead
        /\ h = inputs[Len(inputs)] /\ h \in Handoffs /\ h.input = Current
    BY CursorFacts DEF Reached, Placed, AtRoot, Current
  <1>2. Len(inputs) >= 2 /\ Len(inputs) - 1 \in 1..Len(inputs) /\ Len(inputs) \in 2..Len(inputs)
    <2>1. PICK n \in Nat : n = Len(inputs)
      BY <1>1
    <2>2. n \in 1..n /\ n # 1
      BY <1>1, <2>1
    <2>3. n >= 2 /\ n - 1 \in 1..n /\ n \in 2..n
      BY <2>2
    <2>4. QED BY <2>1, <2>3
  <1>3. EnteredAt(Len(inputs))
    BY <1>2 DEF Reached, Placed
  <1>4. h.published \in Nat
    BY <1>1 DEF Handoffs
  <1>5. /\ h.published + 1 \in 1..Len(published)
        /\ published[h.published + 1].fate = "entered"
        /\ published[h.published + 1].child = Current
        /\ published[h.published + 1].input = inputs[Len(inputs) - 1].input
        /\ published[h.published + 1].at = Len(text[inputs[Len(inputs) - 1].input])
        /\ \A i \in 1..Len(published) :
              /\ i > h.published + 1 => published[i].input >= Current
              /\ i < h.published + 1 =>
                   /\ published[i].input < Current
                   /\ published[i].fate = "entered" => published[i].child < Current
    BY <1>1, <1>3 DEF EnteredAt
  <1>6. /\ inputs[Len(inputs) - 1].input \in 1..Len(text)
        /\ inputs[Len(inputs) - 1].input < inputs[Len(inputs)].input
    <2>1. inputs[Len(inputs) - 1].input \in (Len(inputs) - 1)..Len(text) /\ Len(inputs) - 1 < Len(inputs)
      BY <1>1, <1>2 DEF InputsNest
    <2>2. QED BY <1>1, <1>2, <2>1 DEF InputsNest
  <1>7. Len(text[inputs[Len(inputs) - 1].input]) \in Nat \ {0}
    <2>1. PICK n \in 1..Len(text) : n = inputs[Len(inputs) - 1].input
      BY <1>6
    <2>2. Len(text[n]) \in Nat
      BY DEF Reached, TypeOK
    <2>3. PICK p \in 1..Len(published) : p = h.published + 1
      BY <1>5
    <2>4. published[p].at \in 1..Len(text[n])
      BY <1>1, <1>5, <2>1, <2>3 DEF PiecesWereRead
    <2>5. QED BY <2>1, <2>2, <2>4
  <1>8. QED BY <1>1, <1>2, <1>4, <1>5, <1>6, <1>7

LEMMA EntersText ==
  ASSUME Reached, NEW t \in Tokens, text' = Append(Moved(t), <<>>)
  PROVE  /\ text' \in Seq(Seq(Tokens)) /\ Len(text') = Len(text) + 1 /\ text'[Len(text) + 1] = <<>>
         /\ \A n \in 1..Len(text) : /\ n # Current => text'[n] = text[n]
                                    /\ Len(text[n]) \in Nat /\ Len(text'[n]) \in Nat
                                    /\ \A a \in 1..Len(text[n]) : a \in 1..Len(text'[n]) /\ text'[n][a] = text[n][a]
         /\ Len(text'[Current]) = Position + 1 /\ text'[Current][Position + 1] = t
PROOF
  <1>1. /\ Current \in 1..Len(text) /\ text[Current] \in Seq(Tokens) /\ text \in Seq(Seq(Tokens))
        /\ Len(text[Current]) = Position /\ Len(text) \in Nat
    BY CursorFacts DEF Reached, Placed, TypeOK, Position
  <1>2. PICK c \in 1..Len(text) : c = Current
    BY <1>1
  <1>3. PICK s \in Seq(Tokens) : s = Append(text[c], t)
    <2>1. text[c] \in Seq(Tokens)
      BY <1>1, <1>2
    <2>2. Append(text[c], t) \in Seq(Tokens)
      BY <2>1
    <2>3. QED BY <2>2
  <1>4. PICK moved \in Seq(Seq(Tokens)) : moved = [text EXCEPT ![c] = s]
    <2>1. [text EXCEPT ![c] = s] \in Seq(Seq(Tokens))
      BY <1>1
    <2>2. QED BY <2>1
  <1>5. Len(moved) = Len(text) /\ moved[c] = s /\ \A n \in 1..Len(text) : n # c => moved[n] = text[n]
    BY <1>1, <1>4
  <1>6. text' = Append(moved, <<>>)
    BY <1>2, <1>3, <1>4 DEF Moved
  <1>7. <<>> \in Seq(Tokens)
    OBVIOUS
  <1>8. /\ text' \in Seq(Seq(Tokens)) /\ Len(text') = Len(moved) + 1 /\ text'[Len(moved) + 1] = <<>>
        /\ \A n \in 1..Len(moved) : text'[n] = moved[n]
    <2>1. PICK none \in Seq(Tokens) : none = <<>>
      BY <1>7
    <2>2. text' = Append(moved, none)
      BY <1>6, <2>1
    <2>3. /\ Append(moved, none) \in Seq(Seq(Tokens)) /\ Len(Append(moved, none)) = Len(moved) + 1
          /\ \A n \in 1..Len(moved) : Append(moved, none)[n] = moved[n]
          /\ Append(moved, none)[Len(moved) + 1] = none
      BY AppendParts
    <2>4. QED BY <2>1, <2>2, <2>3
  <1>9. /\ Len(s) = Position + 1 /\ s[Position + 1] = t
        /\ \A a \in 1..Position : a \in 1..Len(s) /\ s[a] = text[c][a]
    BY <1>1, <1>2, <1>3
  <1>10. ASSUME NEW n \in 1..Len(text)
         PROVE  /\ n # Current => text'[n] = text[n]
                /\ Len(text[n]) \in Nat /\ Len(text'[n]) \in Nat
                /\ \A a \in 1..Len(text[n]) : a \in 1..Len(text'[n]) /\ text'[n][a] = text[n][a]
    <2>1. Len(text[n]) \in Nat /\ text'[n] = moved[n]
      BY <1>1, <1>5, <1>8
    <2>2. CASE n = c
      <3>1. text'[n] = s /\ text[n] = text[c] /\ Len(text[c]) = Position /\ Position \in Nat
        BY <1>1, <1>2, <1>5, <2>1, <2>2
      <3>2. n = Current
        BY <1>2, <2>2
      <3>3. \A a \in 1..Position : a \in 1..Len(s) /\ s[a] = text[c][a]
        BY <1>9
      <3>4. Len(text[n]) = Position /\ text'[n] = s /\ \A a : text[n][a] = text[c][a]
        BY <3>1, <2>2
      <3>5. \A a \in 1..Len(text[n]) : a \in 1..Len(text'[n]) /\ text'[n][a] = text[n][a]
        BY <3>3, <3>4
      <3>6. Len(text[n]) \in Nat /\ Len(text'[n]) \in Nat
        BY <3>4, <3>1
      <3>7. QED BY <3>2, <3>5, <3>6
    <2>3. CASE n # c
      BY <1>2, <1>5, <2>1, <2>3
    <2>4. QED BY <2>2, <2>3
  <1>11. Len(text'[Current]) = Position + 1 /\ text'[Current][Position + 1] = t
    BY <1>2, <1>5, <1>8, <1>9
  <1>12. QED BY <1>5, <1>8, <1>10, <1>11

LEMMA EntersPieces ==
  ASSUME Reached, NEW t \in Tokens, EnterInput(t)
  PROVE  /\ Len(text) + 1 \in Nat /\ Position + 1 \in Nat
         /\ published' \in Seq(Entries) /\ Len(published') = Len(published) + 1 /\ Len(published) \in Nat
         /\ \A i \in 1..Len(published) : published'[i] = published[i]
         /\ published'[Len(published) + 1].input = Current
         /\ published'[Len(published) + 1].at = Position + 1
         /\ published'[Len(published) + 1].fate = "entered"
         /\ published'[Len(published) + 1].child = Len(text) + 1
         /\ inputs' \in Seq(Handoffs) /\ Len(inputs') = Len(inputs) + 1
         /\ \A k \in 1..Len(inputs) : inputs'[k] = inputs[k]
         /\ inputs'[Len(inputs) + 1].input = Len(text) + 1
         /\ inputs'[Len(inputs) + 1].published = Len(published)
         /\ inputs'[Len(inputs) + 1].conditionals = conditionals
         /\ inputs'[Len(inputs) + 1].groups = groups
PROOF
  <1>1. /\ Len(text) + 1 \in Nat /\ Position + 1 \in Nat /\ Current \in Nat /\ Len(published) \in Nat
        /\ published \in Seq(Entries) /\ inputs \in Seq(Handoffs) /\ Len(inputs) \in Nat
        /\ groups \in Seq(GroupKinds) /\ conditionals \in Seq(Conditionals)
    BY CursorFacts DEF Reached, Placed, TypeOK
  <1>2. PICK e \in Entries : e = [input |-> Current, at |-> Position + 1, fate |-> "entered", child |-> Len(text) + 1]
    <2>1. "entered" \in Fates
      BY DEF Fates
    <2>2. [input |-> Current, at |-> Position + 1, fate |-> "entered", child |-> Len(text) + 1] \in Entries
      BY <1>1, <2>1 DEF Entries
    <2>3. QED BY <2>2
  <1>3. published' = published \o <<e>>
    BY <1>2 DEF EnterInput, Publish, Entry
  <1>4. <<e>> \in Seq(Entries) /\ Len(<<e>>) = 1 /\ <<e>>[1] = e
    OBVIOUS
  <1>5. PICK es \in Seq(Entries) : es = <<e>>
    BY <1>4
  <1>6. /\ published' \in Seq(Entries) /\ Len(published') = Len(published) + 1
        /\ \A i \in 1..Len(published) : published'[i] = published[i]
        /\ published'[Len(published) + 1] = e
    <2>1. /\ published \o es \in Seq(Entries) /\ Len(published \o es) = Len(published) + Len(es)
          /\ \A i \in 1..Len(published) : (published \o es)[i] = published[i]
          /\ \A i \in 1..Len(es) : (published \o es)[Len(published) + i] = es[i]
      BY <1>1, Concatenated
    <2>2. published' = published \o es /\ Len(es) = 1 /\ es[1] = e /\ 1 \in 1..Len(es)
      BY <1>3, <1>4, <1>5
    <2>3. QED BY <2>1, <2>2
  <1>7. PICK h \in Handoffs : h = [input |-> Len(text) + 1, groups |-> groups, conditionals |-> conditionals,
                                   published |-> Len(published)]
    <2>1. [input |-> Len(text) + 1, groups |-> groups, conditionals |-> conditionals,
           published |-> Len(published)] \in Handoffs
      BY <1>1 DEF Handoffs
    <2>2. QED BY <2>1
  <1>8. inputs' = Append(inputs, h)
    BY <1>7 DEF EnterInput, Handoff
  <1>9. /\ inputs' \in Seq(Handoffs) /\ Len(inputs') = Len(inputs) + 1 /\ inputs'[Len(inputs) + 1] = h
        /\ \A k \in 1..Len(inputs) : inputs'[k] = inputs[k]
    BY <1>1, <1>8, AppendParts
  <1>10. QED BY <1>1, <1>2, <1>6, <1>7, <1>9

LEMMA EntersPlaced ==
  ASSUME Reached, NEW t \in Tokens, EnterInput(t), StacksOK'
  PROVE  Reached'
PROOF
  <1> DEFINE N == Len(text)
             K == Len(inputs)
             P == Len(published)
  <1>1. /\ text' = Append(Moved(t), <<>>) /\ mode = Executing /\ mode' = mode /\ stop' = stop /\ remainder' = remainder
        /\ Reading /\ N < MaxInputs
    BY DEF EnterInput
  <1>2. /\ K \in Nat \ {0} /\ K \in 1..K /\ N \in Nat /\ P \in Nat /\ Current \in 1..N /\ Current = inputs[K].input
        /\ Position \in Nat /\ InputsNest /\ PiecesWereRead /\ K <= N
    BY CursorFacts DEF Reached, Placed, TypeOK
  <1>3. /\ text' \in Seq(Seq(Tokens)) /\ Len(text') = N + 1 /\ text'[N + 1] = <<>>
        /\ \A n \in 1..N : /\ n # Current => text'[n] = text[n]
                                    /\ Len(text[n]) \in Nat /\ Len(text'[n]) \in Nat
                                    /\ \A a \in 1..Len(text[n]) : a \in 1..Len(text'[n])
        /\ Len(text'[Current]) = Position + 1
    BY <1>1, EntersText
  <1>4. /\ published' \in Seq(Entries) /\ Len(published') = P + 1
        /\ \A i \in 1..P : published'[i] = published[i]
        /\ published'[P + 1].input = Current /\ published'[P + 1].at = Position + 1
        /\ published'[P + 1].fate = "entered" /\ published'[P + 1].child = N + 1
    BY EntersPieces
  <1>5. /\ inputs' \in Seq(Handoffs) /\ Len(inputs') = K + 1
        /\ \A k \in 1..K : inputs'[k] = inputs[k]
        /\ inputs'[K + 1].input = N + 1 /\ inputs'[K + 1].published = P
    BY EntersPieces
  <1>6. TypeOK'
    <2>1. Len(text') \in 1..MaxInputs
      <3>1. MaxInputs \in Nat
        BY DispatcherAssumption
      <3>2. N + 1 \in 1..MaxInputs
        BY <1>1, <1>2, <3>1
      <3>3. QED BY <1>3, <3>2
    <2>2. Len(inputs') \in 1..Len(text')
      BY <1>2, <1>3, <1>5
    <2>3. QED BY <1>3, <1>4, <1>5, <2>1, <2>2 DEF TypeOK, StacksOK
  <1>7. \A k \in 1..K : /\ inputs[k].input \in k..N /\ inputs[k].published \in 0..P
    BY <1>2 DEF InputsNest
  <1>8. \A k \in 1..(K + 1) : k \in 1..K \/ k = K + 1
    BY <1>2
  <1>9. InputsNest'
    <2>1. inputs'[1].input = 1 /\ inputs'[1].published = 0
      BY <1>2, <1>5 DEF InputsNest
    <2>2. \A k \in 1..(K + 1) : inputs'[k].input \in k..(N + 1) /\ inputs'[k].published \in 0..(P + 1)
      <3>1. TAKE k \in 1..(K + 1)
      <3>2. CASE k \in 1..K
        <4>1. inputs[k].input \in k..N /\ inputs[k].published \in 0..P /\ inputs'[k] = inputs[k]
          BY <1>5, <1>7, <3>2
        <4>2. \A a \in k..N : a \in k..(N + 1)
          BY <1>2
        <4>3. \A a \in 0..P : a \in 0..(P + 1)
          BY <1>2
        <4>4. QED BY <4>1, <4>2, <4>3
      <3>3. CASE k = K + 1
        BY <1>2, <1>5, <3>3
      <3>4. QED BY <1>8, <3>2, <3>3
    <2>3. ASSUME NEW j \in 1..(K + 1), NEW k \in 1..(K + 1), j < k
          PROVE  inputs'[j].input < inputs'[k].input /\ inputs'[j].published <= inputs'[k].published
      <3>1. j \in 1..K
        BY <1>2, <2>3
      <3>2. inputs[j].input \in j..N /\ inputs[j].published \in 0..P /\ inputs'[j] = inputs[j]
        BY <1>5, <1>7, <3>1
      <3>3. CASE k \in 1..K
        BY <1>2, <1>5, <2>3, <3>1, <3>2, <3>3 DEF InputsNest
      <3>4. CASE k = K + 1
        BY <1>2, <1>5, <3>2, <3>4
      <3>5. QED BY <1>8, <3>3, <3>4
    <2> HIDE DEF N, K, P
    <2>4. QED BY <1>3, <1>4, <1>5, <2>1, <2>2, <2>3 DEF InputsNest
  <1>10. \A i \in 1..(P + 1) : i \in 1..P \/ i = P + 1
    BY <1>2
  <1>11. ASSUME NEW i \in 1..P
         PROVE  /\ published'[i] = published[i] /\ published[i].input \in 1..N
                /\ published[i].at \in 1..Len(text'[published[i].input])
                /\ published[i].fate = "entered" => published[i].child \in (published[i].input + 1)..N
    <2>1. /\ published[i].input \in 1..N /\ published[i].at \in 1..Len(text[published[i].input])
          /\ published[i].fate = "entered" => published[i].child \in (published[i].input + 1)..N
      BY <1>2 DEF PiecesWereRead
    <2>2. PICK n \in 1..N : n = published[i].input
      BY <2>1
    <2>3. published[i].at \in 1..Len(text'[n])
      <3>1. published[i].at \in 1..Len(text[n])
        BY <2>1, <2>2
      <3>2. QED BY <1>1, <3>1, EntersText
    <2>4. QED BY <1>4, <2>1, <2>2, <2>3
  <1>12. PiecesWereRead'
    <2>1. ASSUME NEW i \in 1..(P + 1)
          PROVE  /\ published'[i].input \in 1..(N + 1)
                 /\ published'[i].at \in 1..Len(text'[published'[i].input])
                 /\ published'[i].fate = "entered" => published'[i].child \in (published'[i].input + 1)..(N + 1)
      <3>1. CASE i \in 1..P
        <4>1. /\ published'[i] = published[i] /\ published[i].input \in 1..N
              /\ published[i].at \in 1..Len(text'[published[i].input])
              /\ published[i].fate = "entered" => published[i].child \in (published[i].input + 1)..N
          BY <1>11, <3>1
        <4>2. \A a \in 1..N : a \in 1..(N + 1) /\ \A b \in (a + 1)..N : b \in (a + 1)..(N + 1)
          BY <1>2
        <4>3. QED BY <4>1, <4>2
      <3>2. CASE i = P + 1
        <4>1. Current + 1 <= N + 1 /\ N + 1 \in Nat /\ Current \in Nat
          BY <1>2
        <4>2. published'[i].input \in 1..(N + 1) /\ published'[i].at \in 1..Len(text'[published'[i].input])
          <5>1. published'[i].input = Current /\ published'[i].at = Position + 1
            BY <1>4, <3>2
          <5>2. Len(text'[Current]) = Position + 1 /\ Position + 1 \in 1..(Position + 1)
            BY <1>2, <1>3
          <5>3. QED BY <1>2, <4>1, <5>1, <5>2
        <4>3. N + 1 \in (Current + 1)..(N + 1)
          BY <1>2, <4>1
        <4>4. QED BY <1>4, <3>2, <4>2, <4>3
      <3>3. QED BY <1>10, <3>1, <3>2
    <2> HIDE DEF N, K, P
    <2>2. QED BY <1>3, <1>4, <2>1 DEF PiecesWereRead
  <1>13. ASSUME NEW k \in 2..(K + 1)
         PROVE  EnteredAt(k)'
    <2>1. CASE k = K + 1
      <3>1. /\ inputs'[k - 1] = inputs[K] /\ inputs'[k].input = N + 1 /\ inputs'[k].published = P
        BY <1>2, <1>5, <2>1
      <3>2. \A i \in 1..(P + 1) : ~(i > P + 1)
        BY <1>2
      <3>3. ASSUME NEW i \in 1..(P + 1), i < P + 1
            PROVE  /\ published'[i].input < N + 1
                   /\ published'[i].fate = "entered" => published'[i].child < N + 1
        <4>1. i \in 1..P
          BY <1>2, <3>3
        <4>2. /\ published'[i] = published[i] /\ published[i].input \in 1..N
              /\ published[i].fate = "entered" => published[i].child \in (published[i].input + 1)..N
          BY <1>11, <4>1
        <4>3. \A a \in 1..N : a < N + 1 /\ \A b \in (a + 1)..N : b < N + 1
          BY <1>2
        <4>4. QED BY <4>2, <4>3
      <3>4. P + 1 \in 1..(P + 1)
        BY <1>2
      <3> HIDE DEF N, K, P
      <3>5. QED BY <1>2, <1>3, <1>4, <3>1, <3>2, <3>3, <3>4 DEF EnteredAt
    <2>2. CASE k \in 2..K
      <3>1. k \in 1..K /\ k - 1 \in 1..K
        BY <1>2, <2>2
      <3>2. EnteredAt(k)
        BY <2>2 DEF Reached, Placed
      <3>3. PICK p \in 1..P : p = inputs[k].published + 1
        BY <3>2 DEF EnteredAt
      <3>4. inputs'[k] = inputs[k] /\ inputs'[k - 1] = inputs[k - 1]
        BY <1>5, <3>1
      <3>5. inputs[k - 1].input # Current /\ inputs[k - 1].input \in 1..N /\ Current >= inputs[k].input
        <4>1. inputs[k - 1].input \in (k - 1)..N /\ inputs[k].input \in k..N /\ k - 1 < K
          BY <1>2, <1>7, <2>2, <3>1
        <4>2. inputs[k - 1].input < inputs[K].input
          BY <1>2, <3>1, <4>1 DEF InputsNest
        <4>3. k = K \/ (k < K /\ inputs[k].input < inputs[K].input)
          BY <1>2, <3>1 DEF InputsNest
        <4>4. QED BY <1>2, <3>1, <4>1, <4>2, <4>3
      <3>6. text'[inputs[k - 1].input] = text[inputs[k - 1].input]
        <4>1. PICK n \in 1..N : n = inputs[k - 1].input
          BY <3>5
        <4>2. QED BY <1>3, <3>5, <4>1
      <3>7. ASSUME NEW i \in 1..(P + 1)
            PROVE  /\ i > p => published'[i].input >= inputs[k].input
                   /\ i < p => /\ published'[i].input < inputs[k].input
                               /\ published'[i].fate = "entered" => published'[i].child < inputs[k].input
        <4>1. CASE i \in 1..P
          BY <1>4, <3>2, <3>3, <4>1 DEF EnteredAt
        <4>2. CASE i = P + 1
          <5>1. ~(i < p)
            BY <1>2, <4>2
          <5>2. QED BY <1>4, <3>5, <4>2, <5>1
        <4>3. QED BY <1>10, <4>1, <4>2
      <3>8. published'[p] = published[p] /\ p \in 1..(P + 1)
        BY <1>2, <1>4
      <3> HIDE DEF N, K, P
      <3>9. QED BY <1>4, <3>2, <3>3, <3>4, <3>6, <3>7, <3>8 DEF EnteredAt
    <2>3. QED BY <1>2, <2>1, <2>2
  <1>14. Placed'
    <2> HIDE DEF N, K, P
    <2>1. QED BY <1>5, <1>9, <1>12, <1>13 DEF Placed
  <1>15. Cursor'
    <2>1. Reading' /\ remainder' = 0 /\ mode'.scan = "none"
      BY <1>1 DEF Reading, Reached, Cursor, Executing
    <2>2. Last(inputs') = inputs'[Len(inputs')]
      BY DEF Last
    <2>3. Current' = N + 1
      BY <1>5, <2>2 DEF Current
    <2>4. Position' = 0
      BY <1>3, <2>3 DEF Position
    <2>5. Done' = 0
      BY <2>1, <2>4 DEF Done
    <2>6. QED BY <2>1, <2>4, <2>5 DEF Cursor
  <1>16. QED BY <1>6, <1>14, <1>15 DEF Reached, StacksOK

(* The pieces of a retained input are withdrawn; one piece stands for it. *)
LEMMA RetainsPieces ==
  ASSUME Reached, ~AtRoot, RetainInput, NEW h, h = Last(inputs),
         NEW c, c = inputs[Len(inputs) - 1].input
  PROVE  /\ published' \in Seq(Entries) /\ Len(published') = h.published + 1
         /\ h.published \in Nat /\ h.published < Len(published)
         /\ \A i \in 1..h.published : i \in 1..Len(published) /\ published'[i] = published[i]
         /\ published'[h.published + 1].input = c
         /\ published'[h.published + 1].at = Len(text[c])
         /\ published'[h.published + 1].fate = "retained"
         /\ inputs' \in Seq(Handoffs) /\ Len(inputs') = Len(inputs) - 1
         /\ \A k \in 1..(Len(inputs) - 1) : inputs'[k] = inputs[k]
         /\ Current' = c
PROOF
  <1>1. /\ Len(inputs) \in Nat /\ Len(inputs) >= 2 /\ h.published \in Nat /\ h.published + 1 \in 1..Len(published)
        /\ c \in 1..Len(text) /\ Len(text[c]) \in Nat \ {0} /\ h.input = Current
    BY InputEntered
  <1>2. /\ published \in Seq(Entries) /\ inputs \in Seq(Handoffs) /\ Len(published) \in Nat
        /\ Current \in Nat /\ Len(text) \in Nat
    BY CursorFacts DEF Reached, Placed, TypeOK
  <1>3. PICK e \in Entries : e = [input |-> c, at |-> Len(text[c]), fate |-> "retained", child |-> h.input]
    <2>1. c \in Nat /\ Len(text[c]) \in Nat /\ h.input \in Nat /\ "retained" \in Fates
      BY <1>1, <1>2 DEF Fates
    <2>2. [input |-> c, at |-> Len(text[c]), fate |-> "retained", child |-> h.input] \in Entries
      BY <2>1 DEF Entries
    <2>3. QED BY <2>2
  <1>4. PICK m \in Nat : m = h.published
    BY <1>1
  <1>5. m \in 0..Len(published) /\ m < Len(published)
    BY <1>1, <1>2, <1>4
  <1>6. PICK prefix \in Seq(Entries) : prefix = SubSeq(published, 1, m)
    BY <1>2, <1>5, SubTop
  <1>7. Len(prefix) = m /\ \A i \in 1..m : prefix[i] = published[i] /\ i \in 1..Len(published)
    BY <1>2, <1>5, <1>6, SubTop
  <1>8. published' = Append(prefix, e)
    BY <1>3, <1>4, <1>6 DEF RetainInput
  <1>9. /\ published' \in Seq(Entries) /\ Len(published') = m + 1 /\ published'[m + 1] = e
        /\ \A i \in 1..m : published'[i] = published[i]
    BY <1>7, <1>8, AppendParts
  <1>10. inputs' = Front(inputs) /\ inputs # <<>>
    BY <1>1 DEF RetainInput
  <1>11. /\ inputs' \in Seq(Handoffs) /\ Len(inputs') = Len(inputs) - 1
         /\ \A k \in 1..(Len(inputs) - 1) : inputs'[k] = inputs[k]
    BY <1>2, <1>10, LastOf
  <1>12. Current' = c
    <2>1. Last(inputs') = inputs'[Len(inputs) - 1]
      BY <1>11 DEF Last
    <2>2. Len(inputs) - 1 \in 1..(Len(inputs) - 1)
      BY <1>1
    <2>3. QED BY <1>11, <2>1, <2>2 DEF Current
  <1>13. QED BY <1>3, <1>4, <1>5, <1>7, <1>9, <1>11, <1>12

LEMMA RetainsPlaced ==
  ASSUME Reached, Reading, Retains, StacksOK'
  PROVE  Reached'
PROOF
  <1> DEFINE h == Last(inputs)
             c == inputs[Len(inputs) - 1].input
             m == h.published
             K == Len(inputs)
  <1>1. Lengthens /\ ~AtRoot /\ RetainInput /\ InputsNest /\ PiecesWereRead /\ TypeOK
    BY DEF Retains, Reached, Placed
  <1>2. /\ K \in Nat /\ K >= 2 /\ K - 1 \in 1..K /\ K \in 1..K /\ h = inputs[K] /\ m \in Nat /\ m + 1 \in 1..Len(published)
        /\ c \in 1..Len(text) /\ c < Current /\ Len(text[c]) \in Nat \ {0} /\ h.input = Current
        /\ published[m + 1].fate = "entered" /\ published[m + 1].child = Current
    BY <1>1, InputEntered
  <1>3. /\ published' \in Seq(Entries) /\ Len(published') = m + 1 /\ m < Len(published)
        /\ \A i \in 1..m : i \in 1..Len(published) /\ published'[i] = published[i]
        /\ published'[m + 1].input = c /\ published'[m + 1].at = Len(text[c]) /\ published'[m + 1].fate = "retained"
        /\ inputs' \in Seq(Handoffs) /\ Len(inputs') = K - 1
        /\ \A k \in 1..(K - 1) : inputs'[k] = inputs[k]
        /\ Current' = c
    BY <1>1, RetainsPieces
  <1>4. /\ text' \in Seq(Seq(Tokens)) /\ Len(text') = Len(text) /\ Len(text) \in Nat
        /\ \A n \in 1..Len(text) : n # Current => text'[n] = text[n]
        /\ \A n \in 1..Len(text) : \A a \in 1..Len(text[n]) : a \in 1..Len(text'[n])
    BY <1>1, CursorFacts, LongerText
  <1>5. TypeOK'
    <2>1. Len(inputs') \in 1..Len(text')
      <3>1. K \in 1..Len(text)
        BY <1>1 DEF TypeOK
      <3>2. QED BY <1>2, <1>3, <1>4, <3>1
    <2>2. Len(text') \in 1..MaxInputs
      BY <1>1, <1>4 DEF TypeOK
    <2> HIDE DEF K, h, c, m
    <2>3. QED BY <1>3, <1>4, <2>1, <2>2 DEF TypeOK, StacksOK
  <1>6. \A k \in 1..(K - 1) : k \in 1..K /\ k < K
    BY <1>2
  <1>7. \A i \in 1..(m + 1) : i \in 1..m \/ i = m + 1
    BY <1>2
  <1>8. InputsNest'
    <2>1. \A k \in 1..(K - 1) : inputs[k].input \in k..Len(text) /\ inputs[k].published \in 0..(m + 1)
      <3>1. TAKE k \in 1..(K - 1)
      <3>2. inputs[k].input \in k..Len(text) /\ inputs[k].published \in 0..Len(published)
        BY <1>1, <1>6 DEF InputsNest
      <3>3. inputs[k].published <= inputs[K].published
        BY <1>1, <1>2, <1>6 DEF InputsNest
      <3>4. QED BY <1>2, <3>2, <3>3
    <2>2. inputs'[1] = inputs[1]
      <3>1. 1 \in 1..(K - 1)
        BY <1>2
      <3>2. QED BY <1>3, <3>1
    <2>3. \A j, k \in 1..(K - 1) : j < k => /\ inputs[j].input < inputs[k].input
                                            /\ inputs[j].published <= inputs[k].published
      BY <1>1, <1>6 DEF InputsNest
    <2>4. inputs[1].input = 1 /\ inputs[1].published = 0
      BY <1>1 DEF InputsNest
    <2> HIDE DEF K, h, c, m
    <2>5. QED BY <1>3, <1>4, <2>1, <2>2, <2>3, <2>4 DEF InputsNest
  <1>9. PiecesWereRead'
    <2>1. ASSUME NEW i \in 1..(m + 1)
          PROVE  /\ published'[i].input \in 1..Len(text)
                 /\ published'[i].at \in 1..Len(text'[published'[i].input])
                 /\ published'[i].fate = "entered" => published'[i].child \in (published'[i].input + 1)..Len(text)
      <3>1. CASE i \in 1..m
        <4>1. published'[i] = published[i] /\ i \in 1..Len(published)
          BY <1>3, <3>1
        <4>2. /\ published[i].input \in 1..Len(text)
              /\ published[i].at \in 1..Len(text[published[i].input])
              /\ published[i].fate = "entered" => published[i].child \in (published[i].input + 1)..Len(text)
          BY <1>1, <4>1 DEF PiecesWereRead
        <4>3. PICK n \in 1..Len(text) : n = published[i].input
          BY <4>2
        <4>4. published[i].at \in 1..Len(text'[n])
          BY <1>4, <4>2, <4>3
        <4>5. QED BY <4>1, <4>2, <4>3, <4>4
      <3>2. CASE i = m + 1
        <4>1. Len(text[c]) \in 1..Len(text[c])
          BY <1>2
        <4>2. Len(text[c]) \in 1..Len(text'[c])
          BY <1>2, <1>4, <4>1
        <4>3. QED BY <1>2, <1>3, <3>2, <4>2
      <3>3. QED BY <1>7, <3>1, <3>2
    <2> HIDE DEF K, h, c, m
    <2>2. QED BY <1>3, <1>4, <2>1 DEF PiecesWereRead
  <1>10. ASSUME NEW k \in 2..(K - 1)
         PROVE  EnteredAt(k)'
    <2>1. k \in 2..K /\ k \in 1..(K - 1) /\ k - 1 \in 1..(K - 1) /\ k \in 1..K /\ k - 1 \in 1..K /\ k < K
          /\ k - 1 < K
      <3>1. PICK l \in Nat : l = K
        BY <1>2
      <3>2. k \in 2..(l - 1)
        BY <3>1
      <3>3. k \in 2..l /\ k \in 1..(l - 1) /\ k - 1 \in 1..(l - 1) /\ k \in 1..l /\ k - 1 \in 1..l /\ k < l
            /\ k - 1 < l
        BY <3>1, <3>2
      <3>4. QED BY <3>1, <3>3
    <2>2. EnteredAt(k)
      BY <2>1 DEF Reached, Placed
    <2>3. PICK p \in 1..Len(published) : p = inputs[k].published + 1
      BY <2>2 DEF EnteredAt
    <2>4. inputs'[k] = inputs[k] /\ inputs'[k - 1] = inputs[k - 1]
      BY <1>3, <2>1
    <2>5. inputs[k].input < Current /\ inputs[k].input <= c /\ inputs[k].published <= m
      <3>1. inputs[k].input < inputs[K].input /\ inputs[k].published <= inputs[K].published
        BY <1>1, <1>2, <2>1 DEF InputsNest
      <3>2. k = K - 1 \/ k < K - 1
        BY <1>2, <2>1
      <3>3. inputs[k].input \in k..Len(text)
        BY <1>1, <2>1 DEF InputsNest
      <3>4. CASE k < K - 1
        <4>1. inputs[k].input < inputs[K - 1].input
          BY <1>1, <1>2, <2>1, <3>4 DEF InputsNest
        <4>2. inputs[K - 1].input = c /\ c \in 1..Len(text)
          BY <1>2
        <4>3. PICK x, y \in Int : x = inputs[k].input /\ y = c
          <5>1. inputs[k].input \in Int
            BY <1>4, <3>3
          <5>2. c \in Int
            BY <4>2
          <5>3. QED BY <5>1, <5>2
        <4>4. x <= y
          BY <4>1, <4>2, <4>3
        <4>5. QED BY <1>2, <3>1, <4>3, <4>4
      <3>5. CASE k = K - 1
        BY <1>2, <3>1, <3>3, <3>5
      <3>6. QED BY <3>2, <3>4, <3>5
    <2>6. p \in 1..m
      <3>1. published[p].child = inputs[k].input
        BY <2>2, <2>3 DEF EnteredAt
      <3>2. inputs[k].input # Current
        <4>1. inputs[k].input \in k..Len(text)
          BY <1>1, <2>1 DEF InputsNest
        <4>2. QED BY <2>5, <4>1
      <3>3. p # m + 1
        BY <1>2, <3>1, <3>2
      <3>4. inputs[k].published \in Nat
        BY <2>1, <1>1 DEF InputsNest
      <3>5. PICK q, n \in Nat : q = inputs[k].published /\ n = m
        BY <1>2, <3>4
      <3>6. q <= n /\ p = q + 1 /\ p # n + 1
        BY <2>3, <2>5, <3>3, <3>5
      <3>7. p \in 1..n
        BY <3>6
      <3>8. QED BY <3>5, <3>7
    <2>7. published'[p] = published[p] /\ p \in 1..(m + 1)
      BY <1>2, <1>3, <2>6
    <2>8. text'[inputs[k - 1].input] = text[inputs[k - 1].input]
      <3>1. inputs[k - 1].input \in (k - 1)..Len(text) /\ inputs[k - 1].input < inputs[K].input
        BY <1>1, <1>2, <2>1 DEF InputsNest
      <3>2. PICK n \in 1..Len(text) : n = inputs[k - 1].input
        BY <2>1, <3>1
      <3>3. n # Current
        BY <1>2, <3>1, <3>2
      <3>4. QED BY <1>4, <3>2, <3>3
    <2>9. ASSUME NEW i \in 1..(m + 1)
          PROVE  /\ i > p => published'[i].input >= inputs[k].input
                 /\ i < p => /\ published'[i].input < inputs[k].input
                             /\ published'[i].fate = "entered" => published'[i].child < inputs[k].input
      <3>1. CASE i \in 1..m
        <4>1. i \in 1..Len(published) /\ published'[i] = published[i]
          BY <1>3, <3>1
        <4>2. QED BY <2>2, <2>3, <4>1 DEF EnteredAt
      <3>2. CASE i = m + 1
        <4>1. ~(i < p)
          BY <1>2, <2>6, <3>2
        <4>2. c >= inputs[k].input
          <5>1. inputs[k].input \in k..Len(text)
            BY <1>1, <2>1 DEF InputsNest
          <5>2. QED BY <1>2, <2>5, <5>1
        <4>3. QED BY <1>3, <3>2, <4>1, <4>2
      <3>3. QED BY <1>7, <3>1, <3>2
    <2> HIDE DEF K, h, c, m
    <2>10. QED BY <1>3, <2>2, <2>3, <2>4, <2>7, <2>8, <2>9 DEF EnteredAt
  <1>11. Placed'
    <2> HIDE DEF K, h, c, m
    <2>1. QED BY <1>3, <1>8, <1>9, <1>10 DEF Placed
  <1>12. Cursor'
    <2>1. Reading' /\ remainder' = 0 /\ mode'.scan = "none"
      BY <1>1 DEF Reading, Reached, Cursor, Executing, RetainInput
    <2>2. Done' = Position'
      BY <2>1 DEF Done
    <2>3. Position' \in Nat
      <3>1. PICK n \in 1..Len(text') : n = c
        BY <1>2, <1>4
      <3>2. Len(text'[n]) \in Nat
        BY <1>4
      <3>3. QED BY <1>3, <3>1, <3>2 DEF Position
    <2>4. QED BY <2>1, <2>2, <2>3 DEF Cursor
  <1>13. QED BY <1>5, <1>11, <1>12 DEF Reached, StacksOK

LEMMA ReachedStep ==
  ASSUME Reached, Next
  PROVE  Reached'
BY NextReads, StepReads, StepStacks, ReadsOnPlaced, RetainsPlaced, EntersPlaced, LeavesPlaced

LEMMA ReachedInit == Init => Reached
PROOF
  <1> SUFFICES ASSUME Init PROVE Reached
    OBVIOUS
  <1>1. PICK none \in Seq(Tokens) : none = <<>>
    <2>1. <<>> \in Seq(Tokens)
      OBVIOUS
    <2>2. QED BY <2>1
  <1>2. PICK h \in Handoffs : h = [input |-> 1, groups |-> <<>>, conditionals |-> <<>>, published |-> 0]
    <2>1. [input |-> 1, groups |-> <<>>, conditionals |-> <<>>, published |-> 0] \in Handoffs
      BY DEF Handoffs
    <2>2. QED BY <2>1
  <1>3. /\ text = <<none>> /\ inputs = <<h>> /\ groups = <<>> /\ conditionals = <<>> /\ mode = Executing
        /\ published = <<>> /\ remainder = 0 /\ stop = "no"
    BY <1>1, <1>2 DEF Init
  <1>4. text \in Seq(Seq(Tokens)) /\ Len(text) = 1 /\ inputs \in Seq(Handoffs) /\ Len(inputs) = 1 /\ inputs[1] = h
        /\ text[1] = none /\ Len(none) = 0
    BY <1>1, <1>3
  <1>5. TypeOK
    <2>1. 1 \in 1..MaxInputs
      BY DispatcherAssumption
    <2>2. published \in Seq(Entries) /\ groups \in Seq(GroupKinds) /\ conditionals \in Seq(Conditionals)
      BY <1>3
    <2>3. QED BY <1>3, <1>4, <2>1, <2>2, StackModes DEF TypeOK
  <1>6. Placed
    <2>1. h.input = 1 /\ h.published = 0 /\ Len(published) = 0
      BY <1>2, <1>3
    <2>2. QED BY <1>4, <2>1 DEF Placed, InputsNest, PiecesWereRead
  <1>7. Cursor /\ BranchesNest
    <2>1. mode.scan = "none" /\ Reading
      BY <1>3 DEF Executing, Reading
    <2>2. Current = 1
      BY <1>2, <1>4 DEF Current, Last
    <2>3. Position = 0
      BY <1>4, <2>2 DEF Position
    <2>4. QED BY <1>3, <2>1, <2>3 DEF Cursor, BranchesNest, Done
  <1>8. QED BY <1>5, <1>6, <1>7 DEF Reached

LEMMA ReachedStutters ==
  ASSUME Reached, UNCHANGED vars
  PROVE  Reached'
BY DEF vars, Reached, TypeOK, Placed, Cursor, BranchesNest, InputsNest, PiecesWereRead, EnteredAt,
       Reading, Done, Position, Current

(* Every variable stays in its type: the tokens of each input, the stacks,  *)
(* the scan, the pieces, and where reading has stopped.                     *)
THEOREM DispatcherType == Spec => []TypeOK
PROOF
  <1>1. Reached /\ [Next]_vars => Reached'
    BY ReachedStep, ReachedStutters
  <1>2. Reached => TypeOK
    BY DEF Reached
  <1>3. QED BY <1>1, <1>2, ReachedInit, PTL DEF Spec

(***************************************************************************)
(* What the pieces spell.                                                  *)
(***************************************************************************)
StreamOf(x, p) == [i \in DOMAIN p |-> x[p[i].input][p[i].at]]

LEMMA TextOf ==
  ASSUME NEW s \in Seq(Tokens)
  PROVE  IsText(s)
PROOF
  <1>1. Len(s) \in Nat /\ DOMAIN s = 1..Len(s) /\ \A i \in 1..Len(s) : s[i] \in Tokens
    OBVIOUS
  <1>2. QED BY <1>1, TokenFacts DEF IsText

LEMMA StreamOfType ==
  ASSUME NEW x \in Seq(Seq(Tokens)), NEW p \in Seq(Entries),
         \A i \in 1..Len(p) : p[i].input \in 1..Len(x) /\ p[i].at \in 1..Len(x[p[i].input])
  PROVE  /\ StreamOf(x, p) \in Seq(Tokens) /\ Len(StreamOf(x, p)) = Len(p) /\ Len(p) \in Nat
         /\ IsText(StreamOf(x, p))
         /\ \A i \in 1..Len(p) : StreamOf(x, p)[i] = x[p[i].input][p[i].at]
PROOF
  <1>1. Len(p) \in Nat /\ DOMAIN p = 1..Len(p)
    OBVIOUS
  <1>2. \A i \in 1..Len(p) : x[p[i].input][p[i].at] \in Tokens
    <2>1. TAKE i \in 1..Len(p)
    <2>2. PICK n \in 1..Len(x) : n = p[i].input
      OBVIOUS
    <2>3. x[n] \in Seq(Tokens) /\ p[i].at \in 1..Len(x[n])
      BY <2>2
    <2>4. x[n][p[i].at] \in Tokens
      BY <2>3
    <2>5. QED BY <2>2, <2>4
  <1>3. StreamOf(x, p) \in [1..Len(p) -> Tokens] /\ \A i \in 1..Len(p) : StreamOf(x, p)[i] = x[p[i].input][p[i].at]
    BY <1>1, <1>2 DEF StreamOf
  <1>4. StreamOf(x, p) \in Seq(Tokens) /\ Len(StreamOf(x, p)) = Len(p)
    <2>1. PICK m \in Nat : m = Len(p)
      BY <1>1
    <2>2. PICK f \in [1..m -> Tokens] : f = StreamOf(x, p)
      BY <1>3, <2>1
    <2>3. f \in Seq(Tokens) /\ Len(f) = m
      OBVIOUS
    <2>4. QED BY <2>1, <2>2, <2>3
  <1>5. QED BY <1>1, <1>3, <1>4, TextOf

LEMMA StreamType ==
  ASSUME Reached
  PROVE  /\ Stream \in Seq(Tokens) /\ Len(Stream) = Len(published) /\ Len(published) \in Nat /\ IsText(Stream)
         /\ \A i \in 1..Len(published) : Stream[i] = text[published[i].input][published[i].at]
PROOF
  <1>1. Stream = StreamOf(text, published)
    BY DEF Stream, StreamOf
  <1>2. text \in Seq(Seq(Tokens)) /\ published \in Seq(Entries)
    BY DEF Reached, TypeOK
  <1>3. \A i \in 1..Len(published) : /\ published[i].input \in 1..Len(text)
                                     /\ published[i].at \in 1..Len(text[published[i].input])
    BY DEF Reached, Placed, PiecesWereRead
  <1>4. QED BY <1>1, <1>2, <1>3, StreamOfType

LEMMA StreamTypeNext ==
  ASSUME Reached'
  PROVE  /\ Stream' \in Seq(Tokens) /\ Len(Stream') = Len(published') /\ Len(published') \in Nat /\ IsText(Stream')
         /\ \A i \in 1..Len(published') : Stream'[i] = text'[published'[i].input][published'[i].at]
PROOF
  <1>1. Stream' = StreamOf(text', published')
    BY DEF Stream, StreamOf
  <1>2. text' \in Seq(Seq(Tokens)) /\ published' \in Seq(Entries)
    BY DEF Reached, TypeOK
  <1>3. \A i \in 1..Len(published') : /\ published'[i].input \in 1..Len(text')
                                      /\ published'[i].at \in 1..Len(text'[published'[i].input])
    BY DEF Reached, Placed, PiecesWereRead
  <1>4. QED BY <1>1, <1>2, <1>3, StreamOfType

(* What was read stays. *)
Extends ==
  \A n \in 1..Len(text) : \A a \in 1..Len(text[n]) : text'[n][a] = text[n][a]

LEMMA StreamKept ==
  ASSUME Reached, Reached', Extends, NEW i \in 1..Len(published), i \in 1..Len(published'),
         published'[i] = published[i]
  PROVE  Stream'[i] = Stream[i]
PROOF
  <1>1. Stream[i] = text[published[i].input][published[i].at]
    BY StreamType
  <1>2. Stream'[i] = text'[published[i].input][published[i].at]
    BY StreamTypeNext
  <1>3. published[i].input \in 1..Len(text) /\ published[i].at \in 1..Len(text[published[i].input])
    BY DEF Reached, Placed, PiecesWereRead
  <1>4. PICK n \in 1..Len(text) : n = published[i].input
    BY <1>3
  <1>5. text'[n][published[i].at] = text[n][published[i].at]
    BY <1>3, <1>4 DEF Extends
  <1>6. QED BY <1>1, <1>2, <1>4, <1>5

LEMMA StreamSame ==
  ASSUME Reached, Reached', Extends, published' = published
  PROVE  Stream' = Stream
PROOF
  <1>1. Stream \in Seq(Tokens) /\ Stream' \in Seq(Tokens) /\ Len(Stream) = Len(published) /\ Len(Stream') = Len(published)
    BY StreamType, StreamTypeNext
  <1>2. \A i \in 1..Len(Stream) : Stream[i] = Stream'[i]
    <2>1. TAKE i \in 1..Len(Stream)
    <2>2. i \in 1..Len(published) /\ i \in 1..Len(published') /\ published'[i] = published[i]
      BY <1>1
    <2>3. QED BY <2>2, StreamKept
  <1>3. PICK s, u \in Seq(Tokens) : s = Stream /\ u = Stream'
    BY <1>1
  <1>4. s = u
    BY <1>1, <1>2, <1>3, SeqEqual
  <1>5. QED BY <1>3, <1>4

LEMMA StreamGrows ==
  ASSUME Reached, Reached', Extends, Len(published') = Len(published) + 1,
         \A i \in 1..Len(published) : published'[i] = published[i],
         NEW t, t = text'[published'[Len(published) + 1].input][published'[Len(published) + 1].at]
  PROVE  Grows(Stream', Stream, t)
PROOF
  <1>1. /\ IsText(Stream) /\ IsText(Stream') /\ Len(Stream) = Len(published) /\ Len(Stream') = Len(published) + 1
        /\ Len(published) \in Nat
    BY StreamType, StreamTypeNext
  <1>2. \A i \in 1..Len(Stream) : Stream'[i] = Stream[i]
    <2>1. TAKE i \in 1..Len(Stream)
    <2>2. i \in 1..Len(published) /\ i \in 1..Len(published') /\ published'[i] = published[i]
      BY <1>1
    <2>3. QED BY <2>2, StreamKept
  <1>3. Stream'[Len(Stream) + 1] = t
    <2>1. Len(published) + 1 \in 1..Len(published')
      BY <1>1
    <2>2. QED BY <1>1, <2>1, StreamTypeNext
  <1>4. QED BY <1>1, <1>2, <1>3 DEF Grows, Continues

(* The text a scan has read: the pieces and what lies ahead of them. *)
LEMMA AheadFacts ==
  ASSUME NEW s \in Seq(Tokens), NEW x \in Seq(Tokens), NEW from \in 1..(Len(x) + 1)
  PROVE  /\ s \o SubSeq(x, from, Len(x)) \in Seq(Tokens)
         /\ Len(s \o SubSeq(x, from, Len(x))) = Len(s) + (Len(x) + 1 - from)
         /\ \A i \in 1..Len(s) : (s \o SubSeq(x, from, Len(x)))[i] = s[i]
         /\ \A i \in 1..(Len(x) + 1 - from) : (s \o SubSeq(x, from, Len(x)))[Len(s) + i] = x[from + i - 1]
PROOF
  <1>1. /\ SubSeq(x, from, Len(x)) \in Seq(Tokens) /\ Len(SubSeq(x, from, Len(x))) = Len(x) + 1 - from
        /\ \A i \in 1..(Len(x) + 1 - from) : SubSeq(x, from, Len(x))[i] = x[from + i - 1]
    <2>1. Len(x) \in Nat /\ from \in Nat
      OBVIOUS
    <2>2. \A i \in from..Len(x) : x[i] \in Tokens
      BY <2>1
    <2>3. QED BY <2>1, <2>2
  <1>2. PICK y \in Seq(Tokens) : y = SubSeq(x, from, Len(x))
    BY <1>1
  <1>3. /\ s \o y \in Seq(Tokens) /\ Len(s \o y) = Len(s) + Len(y)
        /\ \A i \in 1..Len(s) : (s \o y)[i] = s[i]
        /\ \A i \in 1..Len(y) : (s \o y)[Len(s) + i] = y[i]
    BY Concatenated
  <1>4. QED BY <1>1, <1>2, <1>3

LEMMA AheadGrows ==
  ASSUME NEW s \in Seq(Tokens), NEW x \in Seq(Tokens), NEW x2 \in Seq(Tokens), NEW from \in 1..(Len(x) + 1),
         Len(x2) = Len(x) + 1, \A a \in 1..Len(x) : x2[a] = x[a]
  PROVE  Grows(s \o SubSeq(x2, from, Len(x2)), s \o SubSeq(x, from, Len(x)), x2[Len(x) + 1])
PROOF
  <1>1. Len(x) \in Nat /\ Len(s) \in Nat /\ from \in 1..(Len(x2) + 1) /\ from \in Nat
    OBVIOUS
  <1>2. PICK u \in Seq(Tokens) : u = s \o SubSeq(x2, from, Len(x2))
    BY <1>1, AheadFacts
  <1>3. PICK v \in Seq(Tokens) : v = s \o SubSeq(x, from, Len(x))
    BY <1>1, AheadFacts
  <1>4. /\ Len(u) = Len(s) + ((Len(x) + 1) + 1 - from)
        /\ \A i \in 1..Len(s) : u[i] = s[i]
        /\ \A i \in 1..((Len(x) + 1) + 1 - from) : u[Len(s) + i] = x2[from + i - 1]
    <2>1. /\ Len(u) = Len(s) + (Len(x2) + 1 - from)
          /\ \A i \in 1..Len(s) : u[i] = s[i]
          /\ \A i \in 1..(Len(x2) + 1 - from) : u[Len(s) + i] = x2[from + i - 1]
      <3>1. from \in 1..(Len(x2) + 1)
        BY <1>1
      <3>2. /\ Len(s \o SubSeq(x2, from, Len(x2))) = Len(s) + (Len(x2) + 1 - from)
            /\ \A i \in 1..Len(s) : (s \o SubSeq(x2, from, Len(x2)))[i] = s[i]
            /\ \A i \in 1..(Len(x2) + 1 - from) :
                 (s \o SubSeq(x2, from, Len(x2)))[Len(s) + i] = x2[from + i - 1]
        BY <3>1, AheadFacts, ZenonT(30)
      <3>3. QED BY <1>2, <3>2
    <2>2. QED BY <2>1
  <1>5. /\ Len(v) = Len(s) + (Len(x) + 1 - from)
        /\ \A i \in 1..Len(s) : v[i] = s[i]
        /\ \A i \in 1..(Len(x) + 1 - from) : v[Len(s) + i] = x[from + i - 1]
    <2>1. /\ Len(s \o SubSeq(x, from, Len(x))) = Len(s) + (Len(x) + 1 - from)
          /\ \A i \in 1..Len(s) : (s \o SubSeq(x, from, Len(x)))[i] = s[i]
          /\ \A i \in 1..(Len(x) + 1 - from) : (s \o SubSeq(x, from, Len(x)))[Len(s) + i] = x[from + i - 1]
      BY AheadFacts, ZenonT(30)
    <2>2. QED BY <1>3, <2>1
  <1>6. Len(u) = Len(v) + 1 /\ Len(v) \in Nat
    BY <1>1, <1>4, <1>5
  <1>7. \A i \in 1..Len(v) : u[i] = v[i]
    <2>1. TAKE i \in 1..Len(v)
    <2>2. CASE i <= Len(s)
      BY <1>1, <1>4, <1>5, <2>2
    <2>3. CASE i > Len(s)
      <3>1. PICK j \in 1..(Len(x) + 1 - from) : i = Len(s) + j
        <4>1. i - Len(s) \in 1..(Len(x) + 1 - from) /\ i = Len(s) + (i - Len(s))
          BY <1>1, <1>5, <2>3
        <4>2. QED BY <4>1
      <3>2. j \in 1..((Len(x) + 1) + 1 - from) /\ from + j - 1 \in 1..Len(x)
        <4>1. PICK n, a \in Nat : n = Len(x) /\ a = from
          BY <1>1
        <4>2. a \in 1..(n + 1) /\ j \in 1..(n + 1 - a)
          BY <4>1
        <4>3. j \in 1..((n + 1) + 1 - a) /\ a + j - 1 \in 1..n
          BY <4>2
        <4>4. QED BY <4>1, <4>3
      <3>3. u[i] = x2[from + j - 1] /\ v[i] = x[from + j - 1]
        BY <1>4, <1>5, <3>1, <3>2
      <3>4. QED BY <3>2, <3>3
    <2>4. QED BY <1>1, <2>2, <2>3
  <1>8. u[Len(v) + 1] = x2[Len(x) + 1]
    <2>1. PICK n, a, l \in Nat : n = Len(x) /\ a = from /\ l = Len(s)
      BY <1>1
    <2>4. a \in 1..(n + 1)
      BY <2>1
    <2>5. PICK j \in 1..((n + 1) + 1 - a) : j = (n + 1) + 1 - a
      <3>1. (n + 1) + 1 - a \in 1..((n + 1) + 1 - a)
        BY <2>4
      <3>2. QED BY <3>1
    <2>6. l + (n + 1 - a) + 1 = l + j /\ a + j - 1 = n + 1
      BY <2>4, <2>5
    <2>2. j \in 1..((Len(x) + 1) + 1 - from) /\ Len(v) + 1 = Len(s) + j /\ from + j - 1 = Len(x) + 1
      BY <1>5, <2>1, <2>5, <2>6
    <2>3. QED BY <1>4, <2>2
  <1>9. Grows(u, v, x2[Len(x) + 1])
    BY <1>6, <1>7, <1>8, TextOf DEF Grows, Continues
  <1>10. QED BY <1>2, <1>3, <1>9

LEMMA AheadNone ==
  ASSUME NEW s \in Seq(Tokens), NEW x \in Seq(Tokens), NEW from, from = Len(x) + 1
  PROVE  s \o SubSeq(x, from, Len(x)) = s
PROOF
  <1>1. from \in 1..(Len(x) + 1) /\ Len(x) \in Nat /\ Len(s) \in Nat /\ Len(x) + 1 - from = 0
    OBVIOUS
  <1>2. PICK v \in Seq(Tokens) : v = s \o SubSeq(x, from, Len(x))
    BY <1>1, AheadFacts
  <1>3. Len(v) = Len(s) + (Len(x) + 1 - from) /\ \A i \in 1..Len(s) : v[i] = s[i]
    BY <1>1, <1>2, AheadFacts
  <1>4. Len(v) = Len(s)
    BY <1>1, <1>3
  <1>5. v = s
    BY <1>3, <1>4, SeqEqual
  <1>6. QED BY <1>2, <1>5

(***************************************************************************)
(* The reader's structure is the structure of what it has read.            *)
(***************************************************************************)
ReadText ==
  IF mode.scan \in {"skip", "capture"}
    THEN Stream \o SubSeq(text[Current], mode.start, Len(text[Current])) ELSE Stream

Top == conditionals[Len(conditionals)]

PublishedSound == Sound(Stream, conditionals, groups)

SkipSound ==
  /\ Len(conditionals) # 0 /\ ~Executes(Top)
  /\ SkipRegion(ReadText, Len(Stream), conditionals, groups, mode.depth)

PendingSound ==
  /\ Len(conditionals) # 0 /\ ~Executes(Top)
  /\ Position # 0
  /\ text[Current][Position].role \in Routes
  /\ text[Current][Position].role = "fi" \/ ~Top.inAlternative

CaptureSound ==
  /\ AllExecute(conditionals)
  /\ CaptureRegion(ReadText, Len(Stream), conditionals, groups, mode.open, mode.branches)

ScanSound ==
  /\ mode.scan = "none" => AllExecute(conditionals)
  /\ mode.scan = "skip" => SkipSound
  /\ mode.scan = "pending" => PendingSound
  /\ mode.scan = "capture" => CaptureSound

(* What an input found when it was entered. *)
HandedSound(k) ==
  LET caller == inputs[k - 1].input
  IN  /\ Sound(SubSeq(Stream, 1, inputs[k].published), inputs[k].conditionals, inputs[k].groups)
      /\ AllExecute(inputs[k].conditionals)
      /\ text[caller][Len(text[caller])].role = "input"

FateTrue(s, piece, i) ==
  /\ Fate(s, i) = IF piece.fate \in {"skipped", "captured"} THEN piece.fate ELSE "executed"
  /\ Refused(s, i) => piece.fate = "discarded"

FatesTrue == \A i \in 1..Len(published) : FateTrue(Stream, published[i], i)

Caused(read, start, where, end) ==
  /\ where = "token" => Refused(read, Len(read))
  /\ where = "end" /\ start <= end => Enclosing(read, Len(read) + 1) # {}

StoppedForCause ==
  ~Reading =>
    Caused(Stream \o SubSeq(text[1], remainder, Len(text[1])), remainder, stop, Len(text[1]))

Structure ==
  /\ PublishedSound /\ FatesTrue /\ StoppedForCause
  /\ Reading => ScanSound
  /\ \A k \in 2..Len(inputs) : HandedSound(k)

LEMMA LengthensExtends ==
  ASSUME Reached, Lengthens
  PROVE  Extends
BY LongerText DEF Reached, Placed, Extends

LEMMA FateTrueSame ==
  ASSUME NEW s, NEW u, IsText(s), IsText(u), Continues(u, s), NEW i \in 1..Len(s), NEW piece
  PROVE  FateTrue(u, piece, i) <=> FateTrue(s, piece, i)
BY FateSame, RefusedSame DEF FateTrue

LEMMA FatesGrow ==
  ASSUME Reached, Reached', Continues(Stream', Stream), FatesTrue,
         \A i \in 1..Len(published) : published'[i] = published[i],
         \A i \in (Len(published) + 1)..Len(published') : FateTrue(Stream', published'[i], i)
  PROVE  FatesTrue'
PROOF
  <1>1. /\ IsText(Stream) /\ IsText(Stream') /\ Len(Stream) = Len(published) /\ Len(published) \in Nat
        /\ Len(published') \in Nat
    BY StreamType, StreamTypeNext
  <1>2. ASSUME NEW i \in 1..Len(published')
        PROVE  FateTrue(Stream', published'[i], i)
    <2>1. CASE i \in 1..Len(published)
      BY <1>1, <2>1, FateTrueSame DEF FatesTrue
    <2>2. CASE i \notin 1..Len(published)
      <3>1. i \in (Len(published) + 1)..Len(published')
        BY <1>1, <2>2
      <3>2. QED BY <3>1
    <2>3. QED BY <2>1, <2>2
  <1>3. QED BY <1>2 DEF FatesTrue

(* One piece more. *)
LEMMA AddsGrows ==
  ASSUME Reached, Reached', Lengthens, inputs' = inputs, NEW at, NEW fate, NEW t,
         published' = published \o <<Entry(at, fate, 0)>>, text'[Current][at] = t
  PROVE  /\ Grows(Stream', Stream, t)
         /\ Len(published') = Len(published) + 1 /\ Len(published) \in Nat /\ Len(Stream) = Len(published)
         /\ \A i \in 1..Len(published) : published'[i] = published[i]
         /\ published'[Len(published) + 1].fate = fate
PROOF
  <1>1. PICK e : e = Entry(at, fate, 0)
    OBVIOUS
  <1>2. e.input = Current /\ e.at = at /\ e.fate = fate
    BY <1>1 DEF Entry
  <1>3. published \in Seq(Entries) /\ published' = published \o <<e>>
    BY <1>1 DEF Reached, TypeOK
  <1>4. PICK q : q = published'
    OBVIOUS
  <1>5. Len(q) = Len(published) + 1 /\ q[Len(published) + 1] = e /\ Len(published) \in Nat
        /\ \A i \in 1..Len(published) : q[i] = published[i]
    BY <1>3, <1>4
  <1>6. t = text'[published'[Len(published) + 1].input][published'[Len(published) + 1].at]
    BY <1>2, <1>4, <1>5
  <1>7. Grows(Stream', Stream, t)
    BY <1>4, <1>5, <1>6, LengthensExtends, StreamGrows
  <1>8. QED BY <1>2, <1>4, <1>5, <1>7, StreamType

LEMMA AddsFates ==
  ASSUME Reached, Reached', Lengthens, inputs' = inputs, NEW at, NEW fate, NEW t,
         published' = published \o <<Entry(at, fate, 0)>>, text'[Current][at] = t,
         FatesTrue, Fate(Stream', Len(Stream) + 1) = "executed", fate \notin {"skipped", "captured"},
         Refused(Stream', Len(Stream) + 1) => fate = "discarded"
  PROVE  FatesTrue'
PROOF
  <1>1. /\ Grows(Stream', Stream, t)
        /\ Len(published') = Len(published) + 1 /\ Len(published) \in Nat /\ Len(Stream) = Len(published)
        /\ \A i \in 1..Len(published) : published'[i] = published[i]
        /\ published'[Len(published) + 1].fate = fate
    BY AddsGrows
  <1>2. \A i \in (Len(published) + 1)..Len(published') : i = Len(published) + 1
    BY <1>1
  <1>3. FateTrue(Stream', published'[Len(published) + 1], Len(published) + 1)
    BY <1>1 DEF FateTrue
  <1>4. Continues(Stream', Stream)
    BY <1>1 DEF Grows
  <1>5. QED BY <1>1, <1>2, <1>3, <1>4, FatesGrow

(* A region. *)
LEMMA RegionRead ==
  ASSUME Reached, Reached', Lengthens, inputs' = inputs, NEW x \in Seq(Tokens), NEW from \in 1..(Len(x) + 1),
         NEW fate \in Fates, fate # "entered", published' = published \o Region(from, Len(x), fate),
         \A a \in 1..Len(x) : text'[Current][a] = x[a]
  PROVE  /\ Stream' = Stream \o SubSeq(x, from, Len(x)) /\ Continues(Stream', Stream)
         /\ \A i \in 1..Len(published) : published'[i] = published[i]
         /\ \A i \in (Len(published) + 1)..Len(published') : published'[i].fate = fate
PROOF
  <1> DEFINE es == Region(from, Len(x), fate)
  <1>1. from \in Nat /\ Len(x) \in Nat /\ from <= Len(x) + 1
    OBVIOUS
  <1>2. PICK n, l \in Nat : n = Len(published) /\ l = Len(x) + 1 - from
    <2>1. Len(x) + 1 - from \in Nat
      BY <1>1
    <2>2. QED BY <2>1, StreamType
  <1>3. Follow(es, from) /\ Len(es) = l
    BY <1>1, <1>2, FollowRegion DEF Reached, Placed
  <1>4. es \in Seq(Entries) /\ published \in Seq(Entries)
    BY <1>3 DEF Follow, Reached, TypeOK
  <1> HIDE DEF es
  <1>5. /\ Len(published') = n + l /\ \A i \in 1..n : published'[i] = published[i]
        /\ \A i \in 1..l : published'[n + i] = es[i]
    <2>1. published' = published \o es
      BY DEF es
    <2>2. PICK p, q \in Seq(Entries) : p = published /\ q = es
      BY <1>4
    <2>3. /\ Len(p \o q) = Len(p) + Len(q) /\ \A i \in 1..Len(p) : (p \o q)[i] = p[i]
          /\ \A i \in 1..Len(q) : (p \o q)[Len(p) + i] = q[i]
      BY Concatenated
    <2>4. published' = p \o q /\ Len(p) = n /\ Len(q) = l
      BY <1>2, <1>3, <2>1, <2>2
    <2>5. QED BY <2>2, <2>3, <2>4
  <1>6. \A i \in 1..l : /\ published'[n + i].input = Current /\ published'[n + i].at = from + i - 1
                        /\ published'[n + i].fate = Entry(from + i - 1, fate, 0).fate
    <2>1. \A i \in 1..l : es[i].input = Current /\ es[i].at = from + i - 1
      BY <1>3 DEF Follow
    <2>2. \A i \in 1..l : es[i] = Entry(from + i - 1, fate, 0)
      BY <1>1, <1>2 DEF es, Region
    <2>3. QED BY <1>5, <2>1, <2>2
  <1>7. \A i \in (n + 1)..(n + l) : published'[i].fate = fate
    <2>1. TAKE i \in (n + 1)..(n + l)
    <2>2. PICK j \in 1..l : i = n + j
      <3>1. i - n \in 1..l /\ i = n + (i - n)
        OBVIOUS
      <3>2. QED BY <3>1
    <2>3. QED BY <1>6, <2>2 DEF Entry
  <1>8. /\ Stream \in Seq(Tokens) /\ Len(Stream) = n /\ Stream' \in Seq(Tokens) /\ Len(Stream') = n + l
        /\ IsText(Stream) /\ IsText(Stream')
    BY <1>2, <1>5, StreamType, StreamTypeNext
  <1>9. \A i \in 1..n : Stream'[i] = Stream[i]
    <2>1. TAKE i \in 1..n
    <2>2. i \in 1..Len(published) /\ i \in 1..Len(published') /\ published'[i] = published[i]
      BY <1>2, <1>5
    <2>3. QED BY <2>2, LengthensExtends, StreamKept
  <1>10. \A i \in 1..l : Stream'[n + i] = x[from + i - 1]
    <2>1. TAKE i \in 1..l
    <2>2. n + i \in 1..Len(published')
      BY <1>5
    <2>3. Stream'[n + i] = text'[published'[n + i].input][published'[n + i].at]
      BY <2>2, StreamTypeNext
    <2>4. from + i - 1 \in 1..Len(x)
      BY <1>1, <1>2
    <2>5. QED BY <1>6, <2>3, <2>4
  <1>11. PICK v \in Seq(Tokens) : v = Stream \o SubSeq(x, from, Len(x))
    BY <1>8, AheadFacts
  <1>12. /\ Len(v) = n + l /\ \A i \in 1..n : v[i] = Stream[i]
         /\ \A i \in 1..l : v[n + i] = x[from + i - 1]
    <2>1. /\ Len(v) = Len(Stream) + (Len(x) + 1 - from)
          /\ \A i \in 1..Len(Stream) : v[i] = Stream[i]
          /\ \A i \in 1..(Len(x) + 1 - from) : v[Len(Stream) + i] = x[from + i - 1]
      <3>1. PICK s \in Seq(Tokens) : s = Stream
        BY <1>8
      <3>2. /\ Len(s \o SubSeq(x, from, Len(x))) = Len(s) + (Len(x) + 1 - from)
            /\ \A i \in 1..Len(s) : (s \o SubSeq(x, from, Len(x)))[i] = s[i]
            /\ \A i \in 1..(Len(x) + 1 - from) : (s \o SubSeq(x, from, Len(x)))[Len(s) + i] = x[from + i - 1]
        BY AheadFacts
      <3>3. v = s \o SubSeq(x, from, Len(x))
        BY <1>11, <3>1
      <3>4. QED BY <3>1, <3>2, <3>3
    <2>2. QED BY <1>2, <1>8, <2>1
  <1>13. PICK u \in Seq(Tokens) : u = Stream'
    BY <1>8
  <1>14. \A i \in 1..Len(u) : u[i] = v[i]
    <2>1. TAKE i \in 1..Len(u)
    <2>2. CASE i \in 1..n
      BY <1>9, <1>12, <1>13, <2>2
    <2>3. CASE i \notin 1..n
      <3>1. PICK j \in 1..l : i = n + j
        <4>1. i - n \in 1..l /\ i = n + (i - n)
          BY <1>8, <1>13, <2>3
        <4>2. QED BY <4>1
      <3>2. QED BY <1>10, <1>12, <1>13, <3>1
    <2>4. QED BY <2>2, <2>3
  <1>15. u = v
    BY <1>8, <1>12, <1>13, <1>14, SeqEqual
  <1>16. Continues(Stream', Stream)
    BY <1>8, <1>9 DEF Continues
  <1>17. QED BY <1>2, <1>5, <1>7, <1>11, <1>13, <1>15, <1>16

(***************************************************************************)
(* A step that publishes nothing, and the inputs whose callers wait.       *)
(***************************************************************************)

(* The part of the prepared document that an input found stays. *)
LEMMA PrefixKept ==
  ASSUME Reached, Reached', Extends, NEW m \in 0..Len(published), m <= Len(published'),
         \A i \in 1..m : published'[i] = published[i]
  PROVE  SubSeq(Stream', 1, m) = SubSeq(Stream, 1, m)
PROOF
  <1>1. /\ Stream \in Seq(Tokens) /\ Stream' \in Seq(Tokens) /\ Len(Stream) = Len(published)
        /\ Len(Stream') = Len(published') /\ Len(published) \in Nat /\ Len(published') \in Nat
    BY StreamType, StreamTypeNext
  <1>2. m \in 0..Len(Stream) /\ m \in 0..Len(Stream')
    BY <1>1
  <1>3. PICK s, u \in Seq(Tokens) : s = SubSeq(Stream, 1, m) /\ u = SubSeq(Stream', 1, m)
    BY <1>1, <1>2, SubTop
  <1>4. Len(s) = m /\ Len(u) = m /\ \A i \in 1..m : s[i] = Stream[i] /\ u[i] = Stream'[i]
    BY <1>1, <1>2, <1>3, SubTop
  <1>5. \A i \in 1..m : Stream'[i] = Stream[i]
    <2>1. TAKE i \in 1..m
    <2>2. i \in 1..Len(published) /\ i \in 1..Len(published') /\ published'[i] = published[i]
      BY <1>1
    <2>3. QED BY <2>2, StreamKept
  <1>6. s = u
    BY <1>4, <1>5, SeqEqual
  <1>7. QED BY <1>3, <1>6

LEMMA HandedStays ==
  ASSUME Reached, Reached', Extends, NEW k \in 2..Len(inputs), HandedSound(k),
         inputs'[k] = inputs[k], inputs'[k - 1] = inputs[k - 1],
         text'[inputs[k - 1].input] = text[inputs[k - 1].input],
         inputs[k].published <= Len(published'),
         \A i \in 1..inputs[k].published : published'[i] = published[i]
  PROVE  HandedSound(k)'
PROOF
  <1>1. inputs[k].published \in 0..Len(published)
    <2>1. k \in 1..Len(inputs)
      BY CursorFacts DEF Reached, Placed
    <2>2. QED BY <2>1 DEF Reached, Placed, InputsNest
  <1>2. PICK m \in 0..Len(published) : m = inputs[k].published
    BY <1>1
  <1>3. SubSeq(Stream', 1, m) = SubSeq(Stream, 1, m)
    BY <1>2, PrefixKept
  <1>4. QED BY <1>2, <1>3 DEF HandedSound

(* The callers of the current input have read nothing more. *)
LEMMA CallersWait ==
  ASSUME Reached, Lengthens, NEW k \in 2..Len(inputs)
  PROVE  /\ text'[inputs[k - 1].input] = text[inputs[k - 1].input]
         /\ k \in 1..Len(inputs) /\ k - 1 \in 1..Len(inputs)
         /\ inputs[k].published \in 0..Len(published)
         /\ inputs[k - 1].input \in 1..Len(text) /\ inputs[k - 1].input # Current
PROOF
  <1>1. /\ Len(inputs) \in Nat /\ Current = inputs[Len(inputs)].input /\ InputsNest /\ TypeOK /\ Len(inputs) \in 1..Len(inputs)
        /\ Current \in 1..Len(text) /\ Len(text) \in Nat
    BY CursorFacts DEF Reached, Placed
  <1>2. k \in 1..Len(inputs) /\ k - 1 \in 1..Len(inputs) /\ k - 1 < Len(inputs)
    BY <1>1
  <1>3. inputs[k - 1].input \in (k - 1)..Len(text) /\ inputs[k - 1].input < inputs[Len(inputs)].input
    BY <1>1, <1>2 DEF InputsNest
  <1>4. PICK n \in 1..Len(text) : n = inputs[k - 1].input
    BY <1>1, <1>2, <1>3
  <1>5. n # Current
    BY <1>1, <1>3, <1>4
  <1>6. text'[n] = text[n]
    BY <1>1, <1>5, LongerText
  <1>7. inputs[k].published \in 0..Len(published)
    BY <1>1, <1>2 DEF InputsNest
  <1>8. QED BY <1>2, <1>4, <1>5, <1>6, <1>7

LEMMA HandedOn ==
  ASSUME Reached, Reached', Lengthens, inputs' = inputs, Len(published) <= Len(published'),
         \A i \in 1..Len(published) : published'[i] = published[i],
         \A k \in 2..Len(inputs) : HandedSound(k)
  PROVE  (\A k \in 2..Len(inputs) : HandedSound(k))'
PROOF
  <1>1. ASSUME NEW k \in 2..Len(inputs)
        PROVE  HandedSound(k)'
    <2>1. /\ text'[inputs[k - 1].input] = text[inputs[k - 1].input]
          /\ inputs[k].published \in 0..Len(published)
      BY CallersWait
    <2>2. inputs[k].published <= Len(published')
      BY <2>1, StreamType, StreamTypeNext
    <2>3. \A i \in 1..inputs[k].published : published'[i] = published[i]
      <3>1. TAKE i \in 1..inputs[k].published
      <3>2. i \in 1..Len(published)
        BY <2>1, StreamType
      <3>3. QED BY <3>2
    <2>4. QED BY <2>1, <2>2, <2>3, LengthensExtends, HandedStays
  <1>2. QED BY <1>1

(* Nothing is published. *)
LEMMA StructureWaits ==
  ASSUME Reached, Reached', Structure, Lengthens, inputs' = inputs, published' = published,
         groups' = groups, conditionals' = conditionals
  PROVE  /\ Stream' = Stream /\ PublishedSound' /\ FatesTrue'
         /\ (\A k \in 2..Len(inputs) : HandedSound(k))'
PROOF
  <1>1. Extends
    BY LengthensExtends
  <1>2. Stream' = Stream
    BY <1>1, StreamSame
  <1>3. PublishedSound' /\ FatesTrue'
    BY <1>2 DEF Structure, PublishedSound, FatesTrue
  <1>4. (\A k \in 2..Len(inputs) : HandedSound(k))'
    BY HandedOn, StreamType DEF Structure
  <1>5. QED BY <1>2, <1>3, <1>4

(* Reading stops at the root. *)
LEMMA StructureStops ==
  ASSUME Reached, Reached', Structure, Lengthens, AtRoot, NEW start, NEW where,
         remainder' = start, stop' = where, where # "no",
         UNCHANGED <<inputs, groups, conditionals, mode, published>>,
         Caused(Stream \o SubSeq(text'[Current], start, Len(text'[Current])), start, where, Len(text'[Current]))
  PROVE  Structure'
PROOF
  <1>1. /\ Stream' = Stream /\ PublishedSound' /\ FatesTrue' /\ (\A k \in 2..Len(inputs) : HandedSound(k))'
    BY StructureWaits
  <1>2. ~Reading'
    BY DEF Reading
  <1>3. Current = 1
    BY CursorFacts DEF AtRoot, Reached, Placed, InputsNest
  <1>4. StoppedForCause'
    BY <1>1, <1>3 DEF StoppedForCause
  <1>5. QED BY <1>1, <1>2, <1>4 DEF Structure

(* An input is retained: its caller is as it was when it was entered. *)
LEMMA StructureRetains ==
  ASSUME Reached, Reached', Structure, Reading, Retains
  PROVE  Structure'
PROOF
  <1> DEFINE c == inputs[Len(inputs) - 1].input
  <1>1. PICK h : h = Last(inputs)
    OBVIOUS
  <1>2. Lengthens /\ ~AtRoot /\ RetainInput /\ Extends
    BY LengthensExtends DEF Retains
  <1>3. /\ Len(inputs) \in Nat /\ Len(inputs) >= 2 /\ h = inputs[Len(inputs)] /\ h.published \in Nat
        /\ h.published + 1 \in 1..Len(published) /\ c \in 1..Len(text) /\ Len(text[c]) \in Nat \ {0} /\ c < Current
    BY <1>1, <1>2, InputEntered
  <1>4. /\ Len(published') = h.published + 1 /\ h.published < Len(published)
        /\ \A i \in 1..h.published : i \in 1..Len(published) /\ published'[i] = published[i]
        /\ published'[h.published + 1].input = c /\ published'[h.published + 1].at = Len(text[c])
        /\ published'[h.published + 1].fate = "retained"
        /\ Len(inputs') = Len(inputs) - 1
        /\ \A k \in 1..(Len(inputs) - 1) : inputs'[k] = inputs[k]
    BY <1>1, <1>2, RetainsPieces
  <1>5. Len(inputs) \in 2..Len(inputs)
    BY <1>3
  <1>6. PICK m \in 0..Len(published) : m = h.published
    BY <1>3, <1>4, StreamType
  <1>7. /\ Sound(SubSeq(Stream, 1, m), h.conditionals, h.groups) /\ AllExecute(h.conditionals)
        /\ text[c][Len(text[c])].role = "input"
    BY <1>3, <1>5, <1>6 DEF Structure, HandedSound
  <1>8. PICK P : P = SubSeq(Stream, 1, m)
    OBVIOUS
  <1>9. /\ IsText(P) /\ Len(P) = m /\ IsText(Stream) /\ IsText(Stream') /\ Len(Stream') = m + 1 /\ m \in Nat
        /\ Len(Stream) = Len(published)
        /\ Continues(Stream, P) /\ Continues(Stream', P)
    <2>1. /\ Stream \in Seq(Tokens) /\ Stream' \in Seq(Tokens) /\ Len(Stream) = Len(published)
          /\ Len(Stream') = m + 1 /\ IsText(Stream) /\ IsText(Stream') /\ Len(published) \in Nat
      BY <1>4, <1>6, StreamType, StreamTypeNext
    <2>2. P \in Seq(Tokens) /\ Len(P) = m /\ \A i \in 1..m : P[i] = Stream[i]
      BY <1>8, <2>1, SubTop
    <2>3. P = SubSeq(Stream', 1, m)
      <3>1. m <= Len(published')
        BY <1>4, <1>6
      <3>2. \A i \in 1..m : published'[i] = published[i]
        BY <1>4, <1>6
      <3>3. QED BY <1>2, <1>8, <3>1, <3>2, PrefixKept
    <2>4. m \in 0..Len(Stream')
      BY <2>1
    <2>5. \A i \in 1..m : P[i] = Stream'[i]
      BY <2>1, <2>3, <2>4, SubTop
    <2>6. QED BY <2>1, <2>2, <2>5, TextOf DEF Continues
  <1>10. Stream'[m + 1].role = "input"
    <2>1. Stream'[m + 1] = text'[c][Len(text[c])]
      <3>1. m + 1 \in 1..Len(published')
        BY <1>4, <1>6
      <3>2. QED BY <1>4, <1>6, <3>1, StreamTypeNext
    <2>2. Len(text[c]) \in 1..Len(text[c])
      BY <1>3
    <2>3. text'[c][Len(text[c])] = text[c][Len(text[c])]
      BY <1>2, <1>3, <2>2 DEF Extends
    <2>4. QED BY <1>7, <2>1, <2>3
  <1>11. PICK t : t = Stream'[m + 1]
    OBVIOUS
  <1>12. Grows(Stream', P, t)
    BY <1>9, <1>11 DEF Grows
  <1>13. t.role \notin Routes \cup Openers \cup {"open", "close"} /\ t.role # "invalid"
    BY <1>10, <1>11 DEF Routes, Delimiters, Openers
  <1>14. /\ Sound(Stream', h.conditionals, h.groups) /\ Fate(Stream', m + 1) = "executed"
         /\ ~Refused(Stream', m + 1)
    BY <1>7, <1>8, <1>9, <1>12, <1>13, SoundPlain
  <1>15. conditionals' = h.conditionals /\ groups' = h.groups /\ mode' = Executing
    BY <1>1, <1>2 DEF RetainInput
  <1>16. PublishedSound'
    BY <1>14, <1>15 DEF PublishedSound
  <1>17. mode'.scan = "none"
    BY <1>15 DEF Executing
  <1>18. ScanSound'
    BY <1>7, <1>15, <1>17 DEF ScanSound
  <1>19. FatesTrue'
    <2>1. ASSUME NEW i \in 1..Len(published')
          PROVE  FateTrue(Stream', published'[i], i)
      <3>1. i \in 1..m \/ i = m + 1
        BY <1>4, <1>6, <1>9
      <3>2. CASE i \in 1..m
        <4>1. i \in 1..Len(published) /\ published'[i] = published[i]
          BY <1>4, <1>6, <3>2
        <4>2. FateTrue(Stream, published[i], i)
          BY <4>1 DEF Structure, FatesTrue
        <4>3. i \in 1..Len(P)
          BY <1>9, <3>2
        <4>4. FateTrue(P, published[i], i)
          BY <1>9, <4>2, <4>3, FateTrueSame
        <4>5. QED BY <1>9, <4>1, <4>3, <4>4, FateTrueSame
      <3>3. CASE i = m + 1
        BY <1>4, <1>6, <1>14, <3>3 DEF FateTrue
      <3>4. QED BY <3>1, <3>2, <3>3
    <2>2. QED BY <2>1 DEF FatesTrue
  <1>20. Reading'
    BY <1>2 DEF Reading, RetainInput
  <1>21. ASSUME NEW k \in 2..Len(inputs')
         PROVE  HandedSound(k)'
    <2>1. k \in 2..Len(inputs) /\ k \in 1..(Len(inputs) - 1) /\ k - 1 \in 1..(Len(inputs) - 1) /\ k < Len(inputs)
          /\ k \in 1..Len(inputs) /\ Len(inputs) \in 1..Len(inputs)
      <3>1. PICK l \in Nat : l = Len(inputs) /\ l >= 2
        BY <1>3
      <3>2. Len(inputs') = l - 1
        BY <1>4, <3>1
      <3>3. k \in 2..(l - 1)
        BY <3>2
      <3>4. k \in 2..l /\ k \in 1..(l - 1) /\ k - 1 \in 1..(l - 1) /\ k < l /\ k \in 1..l /\ l \in 1..l
        BY <3>1, <3>3
      <3>5. QED BY <3>1, <3>4
    <2>2. inputs'[k] = inputs[k] /\ inputs'[k - 1] = inputs[k - 1]
      BY <1>4, <2>1
    <2>3. text'[inputs[k - 1].input] = text[inputs[k - 1].input] /\ inputs[k].published \in 0..Len(published)
      BY <1>2, <2>1, CallersWait
    <2>4. inputs[k].published <= m
      BY <1>3, <1>6, <2>1 DEF Reached, Placed, InputsNest
    <2>5. inputs[k].published <= Len(published') /\ \A i \in 1..inputs[k].published : i \in 1..m
      <3>1. PICK p \in Nat : p = inputs[k].published
        BY <2>3
      <3>2. p <= m /\ m \in Nat /\ Len(published') = m + 1
        BY <1>4, <1>6, <2>4, <3>1
      <3>3. p <= m + 1 /\ \A i \in 1..p : i \in 1..m
        BY <3>2
      <3>4. QED BY <3>1, <3>2, <3>3
    <2>6. \A i \in 1..inputs[k].published : published'[i] = published[i]
      BY <1>4, <1>6, <2>5
    <2>7. HandedSound(k)
      BY <2>1 DEF Structure
    <2>8. QED BY <1>2, <2>1, <2>2, <2>3, <2>5, <2>6, <2>7, HandedStays
  <1>22. StoppedForCause'
    BY <1>20 DEF StoppedForCause
  <1>23. QED BY <1>16, <1>18, <1>19, <1>21, <1>22 DEF Structure

(***************************************************************************)
(* What each kind of step does to the structure.                           *)
(***************************************************************************)

LEMMA StructureBoundary ==
  ASSUME Reached, Reached', Structure, Reading, Lengthens, NEW start, NEW where \in {"token", "end"},
         Boundary(start, where),
         Caused(Stream \o SubSeq(text'[Current], start, Len(text'[Current])), start, where, Len(text'[Current]))
  PROVE  Structure'
PROOF
  <1>1. CASE ~AtRoot /\ RetainInput
    BY <1>1, StructureRetains DEF Retains
  <1>2. CASE AtRoot /\ remainder' = start /\ stop' = where /\ UNCHANGED <<inputs, groups, conditionals, mode, published>>
    BY <1>2, StructureStops
  <1>3. QED BY <1>1, <1>2 DEF Boundary

LEMMA StructureLeaves ==
  ASSUME Reached, Reached', Structure, LeaveInput
  PROVE  Structure'
PROOF
  <1>1. /\ Lengthens /\ Extends /\ text' = text /\ published' = published /\ groups' = groups /\ mode' = mode
        /\ conditionals' = conditionals /\ inputs' = Front(inputs) /\ Reading /\ Reading' /\ mode = Executing
        /\ Len(inputs) # 1
    BY LengthensExtends DEF LeaveInput, Lengthens, Reading, AtRoot
  <1>2. Stream' = Stream
    BY <1>1, StreamSame
  <1>3. PublishedSound' /\ FatesTrue' /\ StoppedForCause'
    BY <1>1, <1>2 DEF Structure, PublishedSound, FatesTrue, StoppedForCause
  <1>4. ScanSound'
    BY <1>1 DEF Structure, ScanSound, Executing
  <1>5. inputs \in Seq(Handoffs) /\ Len(inputs) \in Nat /\ inputs # <<>>
    <2>1. TypeOK
      BY DEF Reached
    <2>2. inputs \in Seq(Handoffs) /\ Len(inputs) \in 1..Len(text)
      BY <2>1 DEF TypeOK
    <2>3. QED BY <2>2
  <1>6. Len(inputs') = Len(inputs) - 1 /\ \A k \in 1..(Len(inputs) - 1) : inputs'[k] = inputs[k]
    BY <1>1, <1>5, LastOf
  <1>7. ASSUME NEW k \in 2..Len(inputs')
        PROVE  HandedSound(k)'
    <2>1. k \in 2..Len(inputs) /\ k \in 1..(Len(inputs) - 1) /\ k - 1 \in 1..(Len(inputs) - 1)
      BY <1>5, <1>6
    <2>2. inputs'[k] = inputs[k] /\ inputs'[k - 1] = inputs[k - 1]
      BY <1>6, <2>1
    <2>3. QED BY <1>1, <1>2, <2>1, <2>2 DEF HandedSound, Structure
  <1>8. QED BY <1>3, <1>4, <1>7 DEF Structure

LEMMA StructureEnters ==
  ASSUME Reached, Reached', Structure, NEW t \in Tokens, EnterInput(t)
  PROVE  Structure'
PROOF
  <1> DEFINE N == Len(text)
             K == Len(inputs)
             P == Len(published)
  <1>1. /\ text' = Append(Moved(t), <<>>) /\ mode = Executing /\ mode' = mode /\ stop' = stop
        /\ Reading /\ Reading' /\ t.role = "input" /\ conditionals' = conditionals /\ groups' = groups
    BY DEF EnterInput, Reading
  <1>2. /\ K \in Nat \ {0} /\ K \in 1..K /\ P \in Nat /\ Current \in 1..N /\ Current = inputs[K].input
        /\ N \in Nat /\ Position \in Nat
    BY CursorFacts DEF Reached, Placed
  <1>3. /\ Len(text'[Current]) = Position + 1 /\ text'[Current][Position + 1] = t
        /\ \A n \in 1..N : n # Current => text'[n] = text[n]
        /\ \A n \in 1..N : \A a \in 1..Len(text[n]) : text'[n][a] = text[n][a]
    BY <1>1, EntersText
  <1>4. Extends
    BY <1>3 DEF Extends
  <1>5. /\ Len(published') = P + 1 /\ \A i \in 1..P : published'[i] = published[i]
        /\ published'[P + 1].input = Current /\ published'[P + 1].at = Position + 1
        /\ published'[P + 1].fate = "entered"
        /\ Len(inputs') = K + 1 /\ \A k \in 1..K : inputs'[k] = inputs[k]
        /\ inputs'[K + 1].published = P /\ inputs'[K + 1].conditionals = conditionals
        /\ inputs'[K + 1].groups = groups
    BY EntersPieces
  <1>6. t = text'[published'[P + 1].input][published'[P + 1].at]
    BY <1>3, <1>5
  <1>7. Grows(Stream', Stream, t)
    BY <1>4, <1>5, <1>6, StreamGrows
  <1>8. AllExecute(conditionals)
    BY <1>1 DEF Structure, ScanSound, Executing
  <1>9. t.role \notin Routes \cup Openers \cup {"open", "close"} /\ t.role # "invalid"
    BY <1>1 DEF Routes, Delimiters, Openers
  <1>10. /\ Sound(Stream', conditionals, groups) /\ Fate(Stream', Len(Stream) + 1) = "executed"
         /\ ~Refused(Stream', Len(Stream) + 1)
    BY <1>7, <1>8, <1>9, SoundPlain DEF Structure, PublishedSound
  <1>11. PublishedSound'
    BY <1>1, <1>10 DEF PublishedSound
  <1>12. FatesTrue'
    <2>1. Len(Stream) = P
      BY StreamType
    <2>2. FateTrue(Stream', published'[P + 1], P + 1)
      BY <1>5, <1>10, <2>1 DEF FateTrue
    <2>3. \A i \in (P + 1)..Len(published') : i = P + 1
      BY <1>2, <1>5
    <2>4. Continues(Stream', Stream) /\ FatesTrue
      BY <1>7 DEF Grows, Structure
    <2>5. QED BY <1>5, <2>2, <2>3, <2>4, FatesGrow
  <1>13. ScanSound' /\ StoppedForCause'
    BY <1>1, <1>8 DEF ScanSound, StoppedForCause, Executing
  <1>14. ASSUME NEW k \in 2..Len(inputs')
         PROVE  HandedSound(k)'
    <2>1. CASE k = K + 1
      <3>1. inputs'[k - 1] = inputs[K] /\ inputs'[k - 1].input = Current
        BY <1>2, <1>5, <2>1
      <3>2. SubSeq(Stream', 1, P) = Stream
        <4>1. P \in 0..Len(published) /\ P <= Len(published')
          BY <1>2, <1>5
        <4>2. SubSeq(Stream', 1, P) = SubSeq(Stream, 1, P)
          BY <1>4, <1>5, <4>1, PrefixKept
        <4>3. Stream \in Seq(Tokens) /\ Len(Stream) = P
          BY StreamType
        <4>4. PICK s \in Seq(Tokens) : s = Stream
          BY <4>3
        <4>5. SubSeq(s, 1, Len(s)) = s
          <5>1. Len(s) \in 0..Len(s)
            OBVIOUS
          <5>2. PICK v \in Seq(Tokens) : v = SubSeq(s, 1, Len(s))
            BY <5>1, SubTop
          <5>3. Len(v) = Len(s) /\ \A i \in 1..Len(v) : v[i] = s[i]
            BY <5>1, <5>2, SubTop
          <5>4. v = s
            BY <5>3, SeqEqual
          <5>5. QED BY <5>2, <5>4
        <4>6. QED BY <4>2, <4>3, <4>4, <4>5
      <3>3. Sound(SubSeq(Stream', 1, inputs'[k].published), inputs'[k].conditionals, inputs'[k].groups)
        BY <1>5, <2>1, <3>2 DEF Structure, PublishedSound
      <3>4. AllExecute(inputs'[k].conditionals)
        BY <1>5, <1>8, <2>1
      <3>5. text'[inputs'[k - 1].input][Len(text'[inputs'[k - 1].input])].role = "input"
        BY <1>1, <1>3, <3>1
      <3>6. QED BY <3>3, <3>4, <3>5 DEF HandedSound
    <2>2. CASE k \in 2..K
      <3>1. k \in 1..K /\ k - 1 \in 1..K /\ k - 1 < K
        BY <1>2, <2>2
      <3>2. inputs'[k] = inputs[k] /\ inputs'[k - 1] = inputs[k - 1]
        BY <1>5, <3>1
      <3>3. inputs[k].published \in 0..P /\ inputs[k - 1].input \in 1..N /\ inputs[k - 1].input # Current
        <4>1. inputs[k].published \in 0..P /\ inputs[k - 1].input \in (k - 1)..N
          BY <3>1 DEF Reached, Placed, InputsNest
        <4>2. inputs[k - 1].input < inputs[K].input
          BY <1>2, <3>1 DEF Reached, Placed, InputsNest
        <4>3. PICK n \in 1..N : n = inputs[k - 1].input
          BY <1>2, <3>1, <4>1
        <4>4. n < Current
          BY <1>2, <4>2, <4>3
        <4>5. n # Current
          BY <1>2, <4>4
        <4>6. QED BY <4>1, <4>3, <4>5
      <3>4. text'[inputs[k - 1].input] = text[inputs[k - 1].input]
        BY <1>3, <3>3
      <3>5. inputs[k].published <= Len(published') /\ \A i \in 1..inputs[k].published : i \in 1..P
        <4>1. PICK p, q \in Nat : p = inputs[k].published /\ q = P
          BY <1>2, <3>3
        <4>2. p <= q /\ Len(published') = q + 1
          BY <1>5, <3>3, <4>1
        <4>3. p <= q + 1 /\ \A i \in 1..p : i \in 1..q
          BY <4>2
        <4>4. QED BY <4>1, <4>2, <4>3
      <3>6. \A i \in 1..inputs[k].published : published'[i] = published[i]
        BY <1>5, <3>5
      <3>7. QED BY <1>4, <2>2, <3>2, <3>4, <3>5, <3>6, HandedStays DEF Structure
    <2>3. k \in 2..K \/ k = K + 1
      BY <1>2, <1>5
    <2>4. QED BY <2>1, <2>2, <2>3
  <1>15. QED BY <1>11, <1>12, <1>13, <1>14 DEF Structure

(* A token that is executed: what is left to show is what it does to the   *)
(* stacks.                                                                 *)
LEMMA StructureAdds ==
  ASSUME Reached, Reached', Structure, Reading, Reading', Lengthens, inputs' = inputs,
         NEW at, NEW fate, NEW t,
         published' = published \o <<Entry(at, fate, 0)>>, text'[Current][at] = t,
         fate \notin {"skipped", "captured"},
         Fate(Stream', Len(Stream) + 1) = "executed",
         Refused(Stream', Len(Stream) + 1) => fate = "discarded",
         Sound(Stream', conditionals', groups'), ScanSound'
  PROVE  Structure'
PROOF
  <1>1. FatesTrue'
    BY AddsFates DEF Structure
  <1>2. PublishedSound' /\ StoppedForCause'
    BY DEF PublishedSound, StoppedForCause
  <1>3. (\A k \in 2..Len(inputs) : HandedSound(k))'
    <2>1. Len(published') = Len(published) + 1 /\ Len(published) \in Nat
          /\ \A i \in 1..Len(published) : published'[i] = published[i]
      BY AddsGrows
    <2>2. Len(published) <= Len(published')
      BY <2>1
    <2>3. QED BY <2>1, <2>2, HandedOn DEF Structure
  <1>4. QED BY <1>1, <1>2, <1>3 DEF Structure

(* A region the scan has read. *)
LEMMA StructureScanned ==
  ASSUME Reached, Reached', Structure, Reading, Reading', Lengthens, inputs' = inputs,
         NEW x \in Seq(Tokens), NEW from \in 1..(Len(x) + 1), NEW fate \in {"skipped", "captured"},
         published' = published \o Region(from, Len(x), fate),
         \A a \in 1..Len(x) : text'[Current][a] = x[a],
         Fated(Stream \o SubSeq(x, from, Len(x)), Len(Stream), fate),
         Sound(Stream \o SubSeq(x, from, Len(x)), conditionals', groups'), ScanSound'
  PROVE  Structure'
PROOF
  <1>1. fate \in Fates /\ fate # "entered"
    BY DEF Fates
  <1>2. /\ Stream' = Stream \o SubSeq(x, from, Len(x)) /\ Continues(Stream', Stream)
        /\ \A i \in 1..Len(published) : published'[i] = published[i]
        /\ \A i \in (Len(published) + 1)..Len(published') : published'[i].fate = fate
    BY <1>1, RegionRead
  <1>3. /\ Len(Stream') = Len(published') /\ Len(Stream) = Len(published) /\ Len(published) <= Len(published')
    BY <1>2, StreamType, StreamTypeNext DEF Continues
  <1>4. \A i \in (Len(published) + 1)..Len(published') : FateTrue(Stream', published'[i], i)
    BY <1>2, <1>3 DEF Fated, FateTrue
  <1>5. FatesTrue'
    BY <1>2, <1>4, FatesGrow DEF Structure
  <1>6. PublishedSound' /\ StoppedForCause'
    BY <1>2 DEF PublishedSound, StoppedForCause
  <1>7. (\A k \in 2..Len(inputs) : HandedSound(k))'
    BY <1>2, <1>3, HandedOn DEF Structure
  <1>8. QED BY <1>5, <1>6, <1>7 DEF Structure

(***************************************************************************)
(* The text a token adds to, in the current input or in a scan.            *)
(***************************************************************************)

(* What a token adds to the text read from a position of the current input. *)
LEMMA AheadRead ==
  ASSUME Reached, NEW t \in Tokens, text' = Moved(t), NEW from \in 1..(Position + 1)
  PROVE  Grows(Stream \o SubSeq(text'[Current], from, Len(text'[Current])),
               Stream \o SubSeq(text[Current], from, Len(text[Current])), t)
<1>1. TypeOK /\ InputsNest
  BY DEF Reached, Placed
<1>2. text[Current] \in Seq(Tokens) /\ Current \in 1..Len(text)
  BY <1>1, CursorFacts
<1>3. /\ text' \in Seq(Seq(Tokens)) /\ Len(text') = Len(text) /\ Len(text'[Current]) = Position + 1
      /\ text'[Current][Position + 1] = t /\ \A a \in 1..Position : text'[Current][a] = text[Current][a]
  BY <1>1, MovedText
<1>4. text'[Current] \in Seq(Tokens)
  BY <1>2, <1>3
<1>5. Stream \in Seq(Tokens)
  BY StreamType
<1> DEFINE x == text[Current]
           x2 == text'[Current]
<1>6. from \in 1..(Len(x) + 1) /\ Len(x2) = Len(x) + 1 /\ x2[Len(x) + 1] = t
      /\ \A a \in 1..Len(x) : x2[a] = x[a]
  BY <1>3 DEF Position
<1>7. x \in Seq(Tokens) /\ x2 \in Seq(Tokens)
  BY <1>2, <1>4
<1> HIDE DEF x, x2
<1>8. Grows(Stream \o SubSeq(x2, from, Len(x2)), Stream \o SubSeq(x, from, Len(x)), x2[Len(x) + 1])
  BY <1>5, <1>6, <1>7, AheadGrows
<1> QED
  BY <1>6, <1>8 DEF x, x2

(* The token at the cursor, after the prepared document. *)
LEMMA NextRead ==
  ASSUME Reached, NEW t \in Tokens, text' = Moved(t)
  PROVE  Grows(Stream \o SubSeq(text'[Current], Position + 1, Len(text'[Current])), Stream, t)
<1>1. Position \in Nat /\ Stream \in Seq(Tokens) /\ text[Current] \in Seq(Tokens)
  BY CursorFacts, StreamType DEF Reached, Placed
<1>2. Position + 1 \in 1..(Position + 1)
  BY <1>1
<1>3. Grows(Stream \o SubSeq(text'[Current], Position + 1, Len(text'[Current])),
            Stream \o SubSeq(text[Current], Position + 1, Len(text[Current])), t)
  BY <1>2, AheadRead
<1>4. Stream \o SubSeq(text[Current], Position + 1, Len(text[Current])) = Stream
  BY <1>1, AheadNone DEF Position
<1> QED
  BY <1>3, <1>4

LEMMA ScanFrom ==
  ASSUME Reached, Reading, mode.scan \in {"skip", "capture"}
  PROVE  mode.start \in 1..(Position + 1) /\ Position \in Nat
<1>1. Position \in Nat
  BY CursorFacts DEF Reached, Placed
<1>2. mode.start \in Nat
  BY ModeFacts DEF Reached
<1>3. mode.start - 1 \in 0..Position
  BY DEF Reached, Cursor, Done
<1> QED
  BY <1>1, <1>2, <1>3

(* A token read inside a scan. *)
LEMMA ScanGrows ==
  ASSUME Reached, Reading, mode.scan \in {"skip", "capture"}, NEW t \in Tokens, text' = Moved(t)
  PROVE  Grows(Stream \o SubSeq(text'[Current], mode.start, Len(text'[Current])), ReadText, t)
BY ScanFrom, AheadRead DEF ReadText

LEMMA NoScan ==
  ASSUME mode' = Executing, AllExecute(conditionals')
  PROVE  ScanSound'
BY DEF ScanSound, Executing, AllExecute

LEMMA ScanText ==
  ASSUME inputs' = inputs, mode'.scan \in {"skip", "capture"}
  PROVE  ReadText' = Stream' \o SubSeq(text'[Current], mode'.start, Len(text'[Current]))
<1>1. Current' = Current
  BY DEF Current
<1> QED
  BY <1>1 DEF ReadText

(* A scan that begins at the cursor has read nothing. *)
LEMMA ReadNothing ==
  ASSUME Reached, Reached', Lengthens, inputs' = inputs, mode'.scan \in {"skip", "capture"},
         mode'.start = Len(text'[Current]) + 1
  PROVE  ReadText' = Stream'
<1>1. Stream' \in Seq(Tokens)
  BY StreamTypeNext
<1>2. text' \in Seq(Seq(Tokens)) /\ Len(text') = Len(text) /\ Current \in 1..Len(text)
  BY LongerText, CursorFacts DEF Reached, Placed
<1>3. text'[Current] \in Seq(Tokens)
  BY <1>2
<1> DEFINE x == text'[Current]
<1> HIDE DEF x
<1>4. Stream' \o SubSeq(x, mode'.start, Len(x)) = Stream'
  BY <1>1, <1>3, AheadNone DEF x
<1> QED
  BY <1>4, ScanText DEF x

(* A branch is skipped from the cursor on. *)
LEMMA SkipStarts ==
  ASSUME Reached, Reached', Lengthens, inputs' = inputs,
         NEW start, mode' = Skipping(start, 0), start = Len(text'[Current]) + 1,
         Sound(Stream', conditionals', groups'),
         Len(conditionals') # 0, ~Executes(conditionals'[Len(conditionals')])
  PROVE  ScanSound'
<1>1. mode'.scan = "skip" /\ mode'.start = start /\ mode'.depth = 0
  BY DEF Skipping
<1>2. ReadText' = Stream'
  BY <1>1, ReadNothing
<1>3. IsText(Stream')
  BY StreamTypeNext
<1>4. SkipRegion(Stream', Len(Stream'), conditionals', groups', 0)
  BY <1>3, SkipBegins
<1>5. Executes(Top)' <=> Executes(conditionals'[Len(conditionals')])
  BY DEF Executes, Top
<1>6. SkipRegion(ReadText, Len(Stream), conditionals, groups, mode.depth)'
        <=> SkipRegion(ReadText', Len(Stream'), conditionals', groups', mode'.depth)
  BY DEF SkipRegion, Structured, IfStack, Grouped, Fated
<1>7. SkipSound'
  BY <1>1, <1>2, <1>4, <1>5, <1>6 DEF SkipSound
<1> QED
  BY <1>1, <1>7 DEF ScanSound

(***************************************************************************)
(* Tokens that are executed: groups, conditionals, commands and            *)
(* characters.                                                             *)
(***************************************************************************)

LEMMA ExecuteFacts ==
  ASSUME Reached, Structure, NEW t \in Tokens, Execute(t)
  PROVE  /\ Reading /\ Lengthens /\ text' = Moved(t) /\ text'[Current][Position + 1] = t
         /\ Len(text'[Current]) = Position + 1
         /\ mode = Executing /\ AllExecute(conditionals) /\ Sound(Stream, conditionals, groups)
<1>1. Reading /\ mode = Executing /\ text' = Moved(t)
  BY DEF Execute, Consume
<1>2. text'[Current][Position + 1] = t /\ Len(text'[Current]) = Position + 1
  BY <1>1, MovedText DEF Reached, Placed
<1>3. Lengthens
  BY <1>1 DEF Lengthens
<1>4. AllExecute(conditionals)
  BY <1>1 DEF Structure, ScanSound, Executing
<1> QED
  BY <1>1, <1>2, <1>3, <1>4 DEF Structure, PublishedSound

(* A token executed where reading goes on. *)
LEMMA StructureExecutes ==
  ASSUME Reached, Reached', Structure, NEW t \in Tokens, Execute(t), inputs' = inputs, stop' = stop,
         NEW fate, fate \notin {"skipped", "captured"}, PublishNext(fate),
         Grows(Stream', Stream, t) =>
           /\ Fate(Stream', Len(Stream) + 1) = "executed"
           /\ Refused(Stream', Len(Stream) + 1) => fate = "discarded"
           /\ Sound(Stream', conditionals', groups'),
         Sound(Stream', conditionals', groups') => ScanSound'
  PROVE  Structure'
<1>1. /\ Reading /\ Lengthens /\ text'[Current][Position + 1] = t
  BY ExecuteFacts
<1>2. Reading'
  BY <1>1 DEF Reading
<1>3. published' = published \o <<Entry(Position + 1, fate, 0)>>
  BY DEF PublishNext, Publish
<1>4. Grows(Stream', Stream, t)
  BY <1>1, <1>3, AddsGrows
<1> QED
  BY <1>1, <1>2, <1>3, <1>4, StructureAdds

LEMMA StructureBegins ==
  ASSUME Reached, Reached', Structure, NEW t \in Tokens, BeginGroup(t)
  PROVE  Structure'
<1>1. /\ t.role = "open" /\ Execute(t) /\ groups' = Append(groups, t.kind)
      /\ PublishNext("executed") /\ inputs' = inputs /\ stop' = stop
      /\ conditionals' = conditionals /\ mode' = mode
  BY DEF BeginGroup
<1>2. groups \in Seq(GroupKinds) /\ t.kind \in GroupKinds
  BY <1>1, TokenFacts DEF Reached, TypeOK
<1>3. mode = Executing /\ AllExecute(conditionals) /\ Sound(Stream, conditionals, groups)
  BY <1>1, ExecuteFacts
<1>4. ASSUME Grows(Stream', Stream, t)
      PROVE  /\ Fate(Stream', Len(Stream) + 1) = "executed" /\ ~Refused(Stream', Len(Stream) + 1)
             /\ Sound(Stream', conditionals', groups')
  BY <1>1, <1>2, <1>3, <1>4, SoundBegun
<1>5. ScanSound'
  BY <1>1, <1>3, NoScan
<1> QED
  BY <1>1, <1>4, <1>5, StructureExecutes

(* The structure when reading stops at the token at the cursor. *)
LEMMA StructureRefuses ==
  ASSUME Reached, Reached', Structure, Reading, NEW t \in Tokens, text' = Moved(t),
         Boundary(Position + 1, "token"),
         \A u : Grows(u, Stream, t) => Refused(u, Len(Stream) + 1)
  PROVE  Structure'
<1> DEFINE u == Stream \o SubSeq(text'[Current], Position + 1, Len(text'[Current]))
<1>1. Grows(u, Stream, t)
  BY NextRead
<1>2. Lengthens
  BY DEF Lengthens
<1>3. Len(u) = Len(Stream) + 1
  BY <1>1 DEF Grows
<1>4. Refused(u, Len(u))
  BY <1>1, <1>3
<1>5. Caused(u, Position + 1, "token", Len(text'[Current]))
  BY <1>4 DEF Caused
<1> HIDE DEF u
<1> QED
  BY <1>2, <1>5, StructureBoundary DEF u

LEMMA StructureCloses ==
  ASSUME Reached, Reached', Structure, NEW t \in Tokens, EndGroup(t)
  PROVE  Structure'
<1>1. t.role = "close" /\ Execute(t)
  BY DEF EndGroup
<1>2. groups \in Seq(GroupKinds)
  BY DEF Reached, TypeOK
<1>3. /\ mode = Executing /\ AllExecute(conditionals) /\ Sound(Stream, conditionals, groups)
      /\ Reading /\ text' = Moved(t)
  BY <1>1, ExecuteFacts
<1>4. /\ Len(groups) \in Nat
      /\ groups # <<>> <=> Len(groups) # 0
      /\ groups # <<>> => Last(groups) = groups[Len(groups)] /\ Front(groups) = SubSeq(groups, 1, Len(groups) - 1)
  BY <1>2, LastOf
<1>5. CASE groups # <<>> /\ Last(groups) = t.kind
  <2>1. /\ groups' = Front(groups) /\ PublishNext("executed") /\ inputs' = inputs /\ stop' = stop
        /\ conditionals' = conditionals /\ mode' = mode
    BY <1>5 DEF EndGroup
  <2>2. Len(groups) # 0 /\ groups[Len(groups)] = t.kind /\ groups' = SubSeq(groups, 1, Len(groups) - 1)
    BY <1>4, <1>5, <2>1
  <2>3. ASSUME Grows(Stream', Stream, t)
        PROVE  /\ Fate(Stream', Len(Stream) + 1) = "executed" /\ ~Refused(Stream', Len(Stream) + 1)
               /\ Sound(Stream', conditionals', groups')
    BY <1>1, <1>2, <1>3, <2>1, <2>2, <2>3, SoundEnded
  <2>4. ScanSound'
    BY <1>3, <2>1, NoScan
  <2> QED
    BY <1>1, <2>1, <2>3, <2>4, StructureExecutes
<1>6. CASE ~(groups # <<>> /\ Last(groups) = t.kind)
  <2>1. Boundary(Position + 1, "token")
    BY <1>6 DEF EndGroup
  <2>2. ~(Len(groups) # 0 /\ groups[Len(groups)] = t.kind)
    BY <1>4, <1>6
  <2>3. \A u : Grows(u, Stream, t) => Refused(u, Len(Stream) + 1)
    BY <1>1, <1>2, <1>3, <2>2, SoundEnded
  <2> QED
    BY <1>3, <2>1, <2>3, StructureRefuses
<1> QED
  BY <1>5, <1>6

LEMMA StructureOpens ==
  ASSUME Reached, Reached', Structure, NEW t \in Tokens, OpenConditional(t)
  PROVE  Structure'
<1> DEFINE truth == t.role # "iffalse" /\ t.index = 0
           f == [truth |-> truth, inAlternative |-> FALSE, isCase |-> t.role = "ifcase",
                 remaining |-> t.index]
<1>1. /\ t.role \in Known /\ Execute(t) /\ PublishNext("executed") /\ inputs' = inputs /\ stop' = stop
      /\ groups' = groups /\ conditionals' = Append(conditionals, f)
      /\ mode' = IF truth THEN Executing ELSE Skipping(Position + 2, 0)
  BY DEF OpenConditional, Known
<1>2. /\ conditionals \in Seq(Conditionals) /\ t.index \in Int
      /\ t.role # "ifcase" => t.index = 0
  BY TokenFacts DEF Reached, TypeOK
<1>3. f \in Conditionals
  BY <1>2 DEF Conditionals
<1>4. /\ mode = Executing /\ AllExecute(conditionals) /\ Sound(Stream, conditionals, groups)
      /\ Lengthens /\ Len(text'[Current]) = Position + 1
  BY <1>1, ExecuteFacts
<1>5. /\ f.truth = truth /\ f.inAlternative = FALSE
      /\ f.isCase = (t.role = "ifcase") /\ f.remaining = t.index
  OBVIOUS
<1> HIDE DEF f
<1>6. ASSUME Grows(Stream', Stream, t)
      PROVE  /\ Fate(Stream', Len(Stream) + 1) = "executed" /\ ~Refused(Stream', Len(Stream) + 1)
             /\ Sound(Stream', conditionals', groups')
  BY <1>1, <1>2, <1>3, <1>4, <1>5, <1>6, SoundOpened
<1>7. /\ Len(conditionals') = Len(conditionals) + 1 /\ Len(conditionals) \in Nat
      /\ conditionals'[Len(conditionals) + 1] = f
      /\ \A k \in 1..Len(conditionals) : conditionals'[k] = conditionals[k]
  BY <1>1, <1>2, <1>3, AppendParts
<1>8. Position \in Nat
  BY CursorFacts DEF Reached, Placed
<1>9. ASSUME Sound(Stream', conditionals', groups')
      PROVE  ScanSound'
  <2>1. CASE truth
    <3>1. Executes(f)
      BY <1>5, <2>1 DEF Executes
    <3>2. AllExecute(conditionals')
      BY <1>4, <1>7, <3>1 DEF AllExecute, Executes
    <3> QED
      BY <1>1, <2>1, <3>2, NoScan
  <2>2. CASE ~truth
    <3>1. ~Executes(f)
      BY <1>5, <2>2 DEF Executes
    <3>2. Len(conditionals') # 0 /\ ~Executes(conditionals'[Len(conditionals')])
      BY <1>7, <3>1
    <3>3. mode' = Skipping(Position + 2, 0) /\ Position + 2 = Len(text'[Current]) + 1
      BY <1>1, <1>4, <1>8, <2>2
    <3> QED
      BY <1>1, <1>4, <1>9, <3>2, <3>3, SkipStarts
  <2> QED
    BY <2>1, <2>2
<1> QED
  BY <1>1, <1>6, <1>9, StructureExecutes

LEMMA StructurePasses ==
  ASSUME Reached, Reached', Structure, NEW t \in Tokens, Execute(t), NEW fate,
         t.role \notin Routes \cup Openers \cup {"open", "close"}, fate \notin {"skipped", "captured"},
         t.role = "invalid" => fate = "discarded",
         PublishNext(fate), UNCHANGED <<inputs, groups, conditionals, mode, remainder, stop>>
  PROVE  Structure'
<1>1. mode = Executing /\ AllExecute(conditionals) /\ Sound(Stream, conditionals, groups)
  BY ExecuteFacts
<1>2. inputs' = inputs /\ groups' = groups /\ conditionals' = conditionals /\ mode' = mode /\ stop' = stop
  OBVIOUS
<1>3. ASSUME Grows(Stream', Stream, t)
      PROVE  /\ Fate(Stream', Len(Stream) + 1) = "executed"
             /\ Refused(Stream', Len(Stream) + 1) => t.role = "invalid"
             /\ Sound(Stream', conditionals', groups')
  BY <1>1, <1>2, <1>3, SoundPlain
<1>4. ScanSound'
  BY <1>1, <1>2, NoScan
<1> QED
  BY <1>2, <1>3, <1>4, StructureExecutes

LEMMA StructureMeets ==
  ASSUME Reached, Reached', Structure, NEW t \in Tokens, MeetInvalid(t)
  PROVE  Structure'
<1>1. t.role = "invalid" /\ Execute(t)
  BY DEF MeetInvalid
<1>2. Reading /\ text' = Moved(t)
  BY <1>1, ExecuteFacts
<1>3. CASE Boundary(Position + 1, "token")
  <2>1. \A u : Grows(u, Stream, t) => Refused(u, Len(Stream) + 1)
    BY <1>1 DEF Grows, Refused
  <2> QED
    BY <1>2, <1>3, <2>1, StructureRefuses
<1>4. CASE PublishNext("discarded") /\ UNCHANGED <<inputs, groups, conditionals, mode, remainder, stop>>
  <2>1. t.role \notin Routes \cup Openers \cup {"open", "close"}
    BY <1>1 DEF Routes, Openers, Delimiters
  <2> QED
    BY <1>1, <1>4, <2>1, StructurePasses
<1> QED
  BY <1>3, <1>4 DEF MeetInvalid

LEMMA StructureFails ==
  ASSUME Reached, Reached', Structure, NEW t \in Tokens, FailInput(t)
  PROVE  Structure'
<1>1. /\ t.role = "input" /\ Execute(t) /\ PublishNext("failed")
      /\ UNCHANGED <<inputs, groups, conditionals, mode, remainder, stop>>
  BY DEF FailInput
<1>2. t.role \notin Routes \cup Openers \cup {"open", "close"} /\ t.role # "invalid"
  BY <1>1 DEF Routes, Openers, Delimiters
<1> QED
  BY <1>1, <1>2, StructurePasses

(***************************************************************************)
(* Delimiters: route_conditional.                                          *)
(***************************************************************************)

LEMMA AheadOne ==
  ASSUME NEW s \in Seq(Tokens), NEW x \in Seq(Tokens), NEW at \in Nat, at = Len(x), at # 0
  PROVE  Grows(s \o SubSeq(x, at, Len(x)), s, x[at])
<1> DEFINE u == s \o SubSeq(x, at, Len(x))
<1>1. at \in 1..(Len(x) + 1)
  OBVIOUS
<1>2. u \in Seq(Tokens) /\ Len(u) = Len(s) + (Len(x) + 1 - at)
      /\ (\A i \in 1..Len(s) : u[i] = s[i])
      /\ (\A i \in 1..(Len(x) + 1 - at) : u[Len(s) + i] = x[at + i - 1])
  BY <1>1, AheadFacts
<1> HIDE DEF u
<1>3. Len(s) \in Nat /\ IsText(u) /\ IsText(s)
  BY <1>2, TextOf
<1>4. Len(u) = Len(s) + 1
  BY <1>2, <1>3
<1>5. 1 \in 1..(Len(x) + 1 - at) /\ at + 1 - 1 = at
  OBVIOUS
<1>6. u[Len(s) + 1] = x[at]
  BY <1>2, <1>5
<1>7. Continues(u, s)
  BY <1>2, <1>3, <1>4 DEF Continues
<1>8. Grows(u, s, x[at])
  BY <1>3, <1>4, <1>6, <1>7 DEF Grows
<1> QED
  BY <1>8 DEF u

(* A delimiter is met while its conditional executes, or ends a skip. *)
Meets(t) ==
  \/ AllExecute(conditionals)
  \/ /\ Len(conditionals) # 0 /\ ~Executes(Top)
     /\ t.role = "fi" \/ ~Top.inAlternative

LEMMA RoutedTop ==
  ASSUME conditionals \in Seq(Conditionals), NEW role \in Delimiters, Routable(role)
  PROVE  /\ Len(conditionals) \in Nat \ {0} /\ Frame = Top /\ Top \in Conditionals
         /\ ~Top.inAlternative
         /\ role = "or" => Top.isCase
         /\ Len(Routed(role)) = Len(conditionals)
         /\ \A k \in 1..(Len(conditionals) - 1) : Routed(role)[k] = conditionals[k]
         /\ Routed(role)[Len(conditionals)] =
              IF role = "or" /\ ~Top.truth THEN NextCase ELSE [Top EXCEPT !.inAlternative = TRUE]
<1>1. conditionals # <<>>
  BY DEF Routable
<1>2. Len(conditionals) \in Nat \ {0} /\ Frame = Top /\ Top \in Conditionals
  BY <1>1, LastOf DEF Frame, Top
<1>3. ~Top.inAlternative /\ (role = "or" => Top.isCase)
  BY <1>2 DEF Routable, Delimiters
<1>4. CASE role = "or" /\ ~Top.truth
  <2>1. Routed(role) = [conditionals EXCEPT ![Len(conditionals)] = NextCase]
    BY <1>2, <1>4 DEF Routed
  <2> QED
    BY <1>2, <1>3, <1>4, <2>1
<1>5. CASE ~(role = "or" /\ ~Top.truth)
  <2>1. Routed(role) = [conditionals EXCEPT ![Len(conditionals)].inAlternative = TRUE]
    BY <1>2, <1>5 DEF Routed, Delimiters
  <2>2. /\ Len(Routed(role)) = Len(conditionals)
        /\ \A k \in 1..(Len(conditionals) - 1) : Routed(role)[k] = conditionals[k]
        /\ Routed(role)[Len(conditionals)] = [conditionals[Len(conditionals)] EXCEPT !.inAlternative = TRUE]
    <3>1. PICK n \in Nat \ {0} : n = Len(conditionals)
      BY <1>2
    <3>2. Routed(role) = [conditionals EXCEPT ![n] = [conditionals[n] EXCEPT !.inAlternative = TRUE]]
      BY <2>1, <3>1
    <3>3. DOMAIN Routed(role) = 1..n /\ \A k \in 1..(n - 1) : Routed(role)[k] = conditionals[k]
      BY <3>1, <3>2
    <3>5. Routed(role) \in Seq(Conditionals)
      BY RoutedOK
    <3>6. Len(Routed(role)) = n
      BY <3>1, <3>3, <3>5
    <3>4. Routed(role)[n] = [conditionals[n] EXCEPT !.inAlternative = TRUE]
      <4>1. n \in DOMAIN conditionals
        BY <3>1
      <4> HIDE <3>1
      <4> QED
        BY <3>2, <4>1
    <3> QED
      BY <3>1, <3>3, <3>4, <3>6
  <2> QED
    BY <1>2, <1>3, <1>5, <2>2 DEF Top
<1> QED
  BY <1>4, <1>5

LEMMA AllButLast ==
  ASSUME NEW s, NEW conds, NEW gs, Sound(s, conds, gs), Len(conds) \in Nat \ {0}, Executes(conds[Len(conds)])
  PROVE  AllExecute(conds)
BY DEF Sound, AllExecute

LEMMA RouteRefused ==
  ASSUME Reached, NEW t \in Tokens, t.role \in Routes, Sound(Stream, conditionals, groups),
         Meets(t), ~Routable(t.role), NEW u, Grows(u, Stream, t)
  PROVE  Refused(u, Len(Stream) + 1)
<1>1. conditionals \in Seq(Conditionals)
  BY DEF Reached, TypeOK
<1>2. /\ Len(conditionals) \in Nat
      /\ conditionals # <<>> <=> Len(conditionals) # 0
      /\ conditionals # <<>> => Frame = Top /\ Top \in Conditionals
  BY <1>1, LastOf DEF Frame, Top
<1>3. \/ Len(conditionals) = 0
      \/ t.role \in Delimiters /\ Top.inAlternative
      \/ t.role = "or" /\ ~Top.isCase
  BY <1>2 DEF Routable, Delimiters
<1>4. \/ t.role = "fi"
      \/ Len(conditionals) # 0 => ~(Top.truth /\ Top.inAlternative)
  <2>1. CASE AllExecute(conditionals)
    <3>1. ASSUME Len(conditionals) # 0
          PROVE  Top.truth # Top.inAlternative /\ Top.truth \in BOOLEAN /\ Top.inAlternative \in BOOLEAN
      BY <1>2, <2>1, <3>1 DEF AllExecute, Executes, Top, Conditionals
    <3> QED
      BY <3>1
  <2>2. CASE ~AllExecute(conditionals)
    BY <2>2 DEF Meets
  <2> QED
    BY <2>1, <2>2
<1> QED
  BY <1>3, <1>4, RefusedRoute DEF Top

(* \else and \or: the next part of the conditional. *)
LEMMA RoutesOn ==
  ASSUME Reached, Reached', Lengthens, inputs' = inputs, NEW t \in Tokens, t.role \in Delimiters,
         Routable(t.role), Sound(Stream, conditionals, groups), Grows(Stream', Stream, t),
         conditionals' = Routed(t.role), groups' = groups,
         NEW at, at = Len(text'[Current]),
         mode' = IF SkipsAfter(t.role) THEN Skipping(at + 1, 0) ELSE Executing
  PROVE  /\ Sound(Stream', conditionals', groups') /\ ScanSound'
         /\ Fate(Stream', Len(Stream) + 1) = "executed" /\ ~Refused(Stream', Len(Stream) + 1)
<1>1. conditionals \in Seq(Conditionals)
  BY DEF Reached, TypeOK
<1> DEFINE g == conditionals'[Len(conditionals)]
<1>2. /\ Len(conditionals) \in Nat \ {0} /\ Frame = Top /\ Top \in Conditionals /\ ~Top.inAlternative
      /\ t.role = "or" => Top.isCase
      /\ Len(conditionals') = Len(conditionals)
      /\ \A k \in 1..(Len(conditionals) - 1) : conditionals'[k] = conditionals[k]
      /\ g = IF t.role = "or" /\ ~Top.truth THEN NextCase ELSE [Top EXCEPT !.inAlternative = TRUE]
  BY <1>1, RoutedTop
<1> HIDE DEF g
<1>3. t.role = "else" \/ t.role = "or"
  BY DEF Delimiters
<1>4. Delimits(t, Top, g)
  BY <1>2, <1>3 DEF NextCase, Conditionals, Delimits
<1>5. Sound(Stream', conditionals', groups) /\ Fate(Stream', Len(Stream) + 1) = "executed"
      /\ ~Refused(Stream', Len(Stream) + 1)
  <2>1. Delimits(t, conditionals[Len(conditionals)], conditionals'[Len(conditionals)])
    BY <1>4 DEF Top, g
  <2> QED
    BY <1>1, <1>2, <2>1, SoundDelimited
<1>6. SkipsAfter(t.role) <=> ~Executes(g)
  BY <1>2, <1>3, <1>4 DEF SkipsAfter, Executes, NextCase, Conditionals, Delimits
<1>7. CASE Executes(g)
  <2>1. AllExecute(conditionals')
    BY <1>2, <1>5, <1>7, AllButLast DEF g
  <2> QED
    BY <1>5, <1>6, <1>7, <2>1, NoScan
<1>8. CASE ~Executes(g)
  <2>1. Len(conditionals') # 0 /\ ~Executes(conditionals'[Len(conditionals')])
    BY <1>2, <1>8 DEF g
  <2>2. mode' = Skipping(at + 1, 0)
    BY <1>6, <1>8
  <2> QED
    BY <1>5, <2>1, <2>2, SkipStarts
<1> QED
  BY <1>7, <1>8

LEMMA RoutesOut ==
  ASSUME Reached, NEW t \in Tokens, t.role = "fi",
         Routable(t.role), Sound(Stream, conditionals, groups), Grows(Stream', Stream, t),
         conditionals' = Routed(t.role), groups' = groups, NEW at,
         mode' = IF SkipsAfter(t.role) THEN Skipping(at + 1, 0) ELSE Executing
  PROVE  /\ Sound(Stream', conditionals', groups') /\ ScanSound'
         /\ Fate(Stream', Len(Stream) + 1) = "executed" /\ ~Refused(Stream', Len(Stream) + 1)
<1>1. conditionals \in Seq(Conditionals)
  BY DEF Reached, TypeOK
<1>2. Len(conditionals) # 0 /\ conditionals' = SubSeq(conditionals, 1, Len(conditionals) - 1)
  BY <1>1, LastOf DEF Routable, Routed
<1>3. mode' = Executing
  BY DEF SkipsAfter
<1>4. /\ Sound(Stream', conditionals', groups') /\ AllExecute(conditionals')
      /\ Fate(Stream', Len(Stream) + 1) = "executed" /\ ~Refused(Stream', Len(Stream) + 1)
  BY <1>1, <1>2, SoundClosed
<1> QED
  BY <1>3, <1>4, NoScan

LEMMA StructureRoutes ==
  ASSUME Reached, Reached', Structure, Reading, Lengthens, NEW t \in Tokens, t.role \in Routes,
         NEW at \in Nat, at # 0, at = Len(text'[Current]), text'[Current][at] = t, Meets(t),
         RouteDelimiter(t, at)
  PROVE  Structure'
<1>1. Sound(Stream, conditionals, groups)
  BY DEF Structure, PublishedSound
<1>2. CASE Routable(t.role)
  <2>1. /\ conditionals' = Routed(t.role)
        /\ mode' = IF SkipsAfter(t.role) THEN Skipping(at + 1, 0) ELSE Executing
        /\ published' = published \o <<Entry(at, "executed", 0)>>
        /\ inputs' = inputs /\ groups' = groups /\ stop' = stop
    BY <1>2 DEF RouteDelimiter, Publish
  <2>2. Reading'
    BY <2>1 DEF Reading
  <2>3. Grows(Stream', Stream, t)
    BY <2>1, AddsGrows
  <2>4. /\ Sound(Stream', conditionals', groups') /\ ScanSound'
        /\ Fate(Stream', Len(Stream) + 1) = "executed" /\ ~Refused(Stream', Len(Stream) + 1)
    <3>1. CASE t.role \in Delimiters
      BY <1>1, <1>2, <2>1, <2>3, <3>1, RoutesOn
    <3>2. CASE t.role = "fi"
      BY <1>1, <1>2, <2>1, <2>3, <3>2, RoutesOut
    <3> QED
      BY <3>1, <3>2 DEF Routes
  <2> QED
    BY <2>1, <2>2, <2>4, StructureAdds
<1>3. CASE ~Routable(t.role)
  <2>1. Boundary(at, "token")
    BY <1>3 DEF RouteDelimiter
  <2>2. text' \in Seq(Seq(Tokens)) /\ Len(text') = Len(text) /\ Current \in 1..Len(text)
    BY LongerText, CursorFacts DEF Reached, Placed
  <2>3. text'[Current] \in Seq(Tokens)
    BY <2>2
  <2>4. Stream \in Seq(Tokens)
    BY StreamType
  <2> DEFINE x == text'[Current]
             u == Stream \o SubSeq(x, at, Len(x))
  <2>5. Grows(u, Stream, t)
    BY <2>3, <2>4, AheadOne
  <2>6. Refused(u, Len(u))
    BY <1>1, <1>3, <2>5, RouteRefused DEF Grows
  <2>7. Caused(u, at, "token", Len(x))
    BY <2>6 DEF Caused
  <2> HIDE DEF u
  <2> QED
    BY <2>1, <2>7, StructureBoundary DEF u
<1> QED
  BY <1>2, <1>3

LEMMA StructureDelimits ==
  ASSUME Reached, Reached', Structure, NEW t \in Tokens, MeetDelimiter(t)
  PROVE  Structure'
<1>1. t.role \in Routes /\ Execute(t) /\ RouteDelimiter(t, Position + 1)
  BY DEF MeetDelimiter, Routes, Delimiters
<1>2. /\ Reading /\ Lengthens /\ text'[Current][Position + 1] = t /\ Len(text'[Current]) = Position + 1
      /\ AllExecute(conditionals)
  BY <1>1, ExecuteFacts
<1>3. Position + 1 \in Nat /\ Position + 1 # 0
  BY CursorFacts DEF Reached, Placed
<1>4. Meets(t)
  BY <1>2 DEF Meets
<1> QED
  BY <1>1, <1>2, <1>3, <1>4, StructureRoutes

LEMMA StructurePending ==
  ASSUME Reached, Reached', Structure, RoutePending
  PROVE  Structure'
<1>1. Reading /\ mode.scan = "pending" /\ text' = text /\ RouteDelimiter(Last(text[Current]), Position)
  BY DEF RoutePending, Pending
<1>2. PendingSound
  BY <1>1 DEF Structure, ScanSound
<1>3. text[Current] \in Seq(Tokens) /\ Position \in Nat
  BY CursorFacts DEF Reached, Placed
<1>4. Position # 0 /\ Last(text[Current]) = text[Current][Position] /\ text[Current][Position] \in Tokens
  BY <1>2, <1>3 DEF PendingSound, Position, Last
<1> DEFINE t == text[Current][Position]
<1>5. t.role \in Routes /\ Meets(t)
  BY <1>2 DEF PendingSound, Meets
<1>6. Position = Len(text'[Current]) /\ text'[Current][Position] = t
  BY <1>1 DEF Position
<1>7. Lengthens
  BY <1>1 DEF Lengthens
<1>8. RouteDelimiter(t, Position) /\ t \in Tokens
  BY <1>1, <1>4
<1> HIDE DEF t
<1> QED
  BY <1>1, <1>3, <1>4, <1>5, <1>6, <1>7, <1>8, StructureRoutes

(***************************************************************************)
(* Skipped branches.                                                       *)
(***************************************************************************)

(* The parts of the structure that a token read in a scan leaves alone. *)
LEMMA StructureHeld ==
  ASSUME Reached, Reached', Structure, Reading, Lengthens,
         UNCHANGED <<inputs, groups, conditionals, published, remainder, stop>>, ScanSound'
  PROVE  Structure'
<1>1. inputs' = inputs /\ published' = published /\ groups' = groups /\ conditionals' = conditionals /\ stop' = stop
  OBVIOUS
<1>2. PublishedSound' /\ FatesTrue' /\ (\A k \in 2..Len(inputs) : HandedSound(k))'
  BY <1>1, StructureWaits
<1>3. StoppedForCause'
  BY <1>1 DEF StoppedForCause, Reading
<1> QED
  BY <1>2, <1>3 DEF Structure

LEMMA StreamWaits ==
  ASSUME Reached, Reached', Structure, Lengthens,
         UNCHANGED <<inputs, groups, conditionals, published, remainder, stop>>
  PROVE  Stream' = Stream /\ inputs' = inputs /\ groups' = groups /\ conditionals' = conditionals
<1>1. inputs' = inputs /\ published' = published /\ groups' = groups /\ conditionals' = conditionals
  OBVIOUS
<1> QED
  BY <1>1, StructureWaits

(* A scan goes on: what it has read grows by the token. *)
LEMMA ScanReads ==
  ASSUME Reached, Reached', Structure, Reading, NEW t \in Tokens, text' = Moved(t),
         mode.scan \in {"skip", "capture"}, mode'.scan \in {"skip", "capture"}, mode'.start = mode.start,
         UNCHANGED <<inputs, groups, conditionals, published, remainder, stop>>
  PROVE  /\ Grows(ReadText', ReadText, t) /\ Lengthens /\ Stream' = Stream
         /\ groups' = groups /\ conditionals' = conditionals
<1>1. Lengthens
  BY DEF Lengthens
<1>2. Stream' = Stream /\ inputs' = inputs /\ groups' = groups /\ conditionals' = conditionals
  BY <1>1, StreamWaits
<1>3. ReadText' = Stream \o SubSeq(text'[Current], mode.start, Len(text'[Current]))
  BY <1>2, ScanText
<1>4. Grows(Stream \o SubSeq(text'[Current], mode.start, Len(text'[Current])), ReadText, t)
  BY ScanGrows
<1> QED
  BY <1>1, <1>2, <1>3, <1>4

LEMMA SkipScan ==
  ASSUME mode'.scan = "skip", Len(conditionals') # 0, ~Executes(conditionals'[Len(conditionals')]),
         SkipRegion(ReadText', Len(Stream'), conditionals', groups', mode'.depth)
  PROVE  ScanSound'
<1>1. Executes(Top)' <=> Executes(conditionals'[Len(conditionals')])
  BY DEF Executes, Top
<1>2. SkipRegion(ReadText, Len(Stream), conditionals, groups, mode.depth)'
        <=> SkipRegion(ReadText', Len(Stream'), conditionals', groups', mode'.depth)
  BY DEF SkipRegion, Structured, IfStack, Grouped, Fated
<1>3. SkipSound'
  BY <1>1, <1>2 DEF SkipSound
<1> QED
  BY <1>3 DEF ScanSound

LEMMA CaptureScan ==
  ASSUME mode'.scan = "capture", AllExecute(conditionals'),
         CaptureRegion(ReadText', Len(Stream'), conditionals', groups', mode'.open, mode'.branches)
  PROVE  ScanSound'
<1>1. AllExecute(conditionals)' <=> AllExecute(conditionals')
  BY DEF AllExecute
<1>2. CaptureRegion(ReadText, Len(Stream), conditionals, groups, mode.open, mode.branches)'
        <=> CaptureRegion(ReadText', Len(Stream'), conditionals', groups', mode'.open, mode'.branches)
  BY DEF CaptureRegion, CaptureStack, Structured, IfStack, Grouped, Fated, Ascending, BranchIsTrue
<1>3. CaptureSound'
  BY <1>1, <1>2 DEF CaptureSound
<1> QED
  BY <1>3 DEF ScanSound

LEMMA StructureCaptures ==
  ASSUME Reached, Reached', Structure, NEW t \in Tokens, Capture(t)
  PROVE  Structure'
<1> DEFINE branches == <<[base |-> 0, alternative |-> FALSE]>>
<1>1. /\ t.role = "ifunknown" /\ Execute(t) /\ mode' = Capturing(Position + 1, 0, branches)
      /\ UNCHANGED <<inputs, groups, conditionals, published, remainder, stop>>
  BY DEF Capture
<1>2. /\ mode'.scan = "capture" /\ mode'.start = Position + 1 /\ mode'.open = 0 /\ mode'.branches = branches
  BY <1>1 DEF Capturing
<1> HIDE DEF branches
<1>3. /\ Reading /\ Lengthens /\ text' = Moved(t) /\ AllExecute(conditionals)
      /\ Sound(Stream, conditionals, groups)
  BY <1>1, ExecuteFacts
<1>4. Stream' = Stream /\ inputs' = inputs /\ groups' = groups /\ conditionals' = conditionals
  BY <1>1, <1>3, StreamWaits
<1>5. ReadText' = Stream \o SubSeq(text'[Current], Position + 1, Len(text'[Current]))
  BY <1>2, <1>4, ScanText
<1>6. Grows(ReadText', Stream, t)
  BY <1>3, <1>5, NextRead
<1>7. CaptureRegion(ReadText', Len(Stream), conditionals, groups, 0, branches)
  BY <1>1, <1>3, <1>6, CaptureBegins DEF branches
<1>8. ScanSound'
  BY <1>2, <1>3, <1>4, <1>7, CaptureScan
<1> QED
  BY <1>1, <1>3, <1>8, StructureHeld

LEMMA SkipFacts ==
  ASSUME Reached, Structure, Reading, mode.scan = "skip"
  PROVE  /\ Len(conditionals) \in Nat \ {0} /\ ~Executes(Top) /\ Frame = Top /\ Top \in Conditionals
         /\ SkipRegion(ReadText, Len(Stream), conditionals, groups, mode.depth)
         /\ mode.depth \in Nat /\ mode \in [scan : {"skip"}, start : Nat, depth : Nat]
<1>1. SkipSound
  BY DEF Structure, ScanSound
<1>2. conditionals \in Seq(Conditionals)
  BY DEF Reached, TypeOK
<1>3. /\ Len(conditionals) \in Nat \ {0} /\ Frame = Top /\ Top \in Conditionals
  BY <1>1, <1>2, LastOf DEF Frame, Top, SkipSound
<1>4. mode \in [scan : {"skip"}, start : Nat, depth : Nat]
  BY ModeFacts DEF Reached
<1> QED
  BY <1>1, <1>3, <1>4 DEF SkipSound

LEMMA StructureSkips ==
  ASSUME Reached, Reached', Structure, NEW t \in Tokens, SkipToken(t)
  PROVE  Structure'
<1>1. /\ Reading /\ mode.scan = "skip" /\ text' = Moved(t) /\ t.role # "invalid" /\ ~StopsSkip(t)
      /\ mode' = CASE t.role \in Openers -> [mode EXCEPT !.depth = @ + 1]
                   [] t.role = "fi" -> [mode EXCEPT !.depth = @ - 1]
                   [] OTHER -> mode
      /\ UNCHANGED <<inputs, groups, conditionals, published, remainder, stop>>
  BY DEF SkipToken, Consume
<1>2. /\ Len(conditionals) \in Nat \ {0} /\ ~Executes(Top) /\ Frame = Top /\ Top \in Conditionals
      /\ SkipRegion(ReadText, Len(Stream), conditionals, groups, mode.depth)
      /\ mode.depth \in Nat /\ mode \in [scan : {"skip"}, start : Nat, depth : Nat]
  BY <1>1, SkipFacts
<1>3. /\ mode'.scan = "skip" /\ mode'.start = mode.start
      /\ t.role \in Openers => mode'.depth = mode.depth + 1
      /\ t.role = "fi" => mode'.depth = mode.depth - 1
      /\ t.role \notin Openers \cup {"fi"} => mode'.depth = mode.depth
  <2>1. CASE t.role \in Openers
    BY <1>1, <1>2, <2>1 DEF Openers
  <2>2. CASE t.role = "fi"
    <3>1. mode' = [mode EXCEPT !.depth = @ - 1]
      BY <1>1, <2>2 DEF Openers
    <3> QED
      BY <1>2, <2>2, <3>1 DEF Openers
  <2>3. CASE t.role \notin Openers \cup {"fi"}
    <3>1. mode' = mode
      BY <1>1, <2>3
    <3> QED
      BY <1>1, <2>3, <3>1
  <2> QED
    BY <2>1, <2>2, <2>3
<1>4. /\ Grows(ReadText', ReadText, t) /\ Lengthens /\ Stream' = Stream
      /\ groups' = groups /\ conditionals' = conditionals
  BY <1>1, <1>3, ScanReads
<1>5. t.role \in Routes /\ mode.depth = 0 => t.role # "fi" /\ Top.inAlternative
  BY <1>1, <1>2 DEF StopsSkip, Routes, Delimiters
<1>6. /\ t.role \in Openers => SkipRegion(ReadText', Len(Stream), conditionals, groups, mode.depth + 1)
      /\ t.role = "fi" => SkipRegion(ReadText', Len(Stream), conditionals, groups, mode.depth - 1)
      /\ t.role \notin Openers \cup {"fi"} => SkipRegion(ReadText', Len(Stream), conditionals, groups, mode.depth)
  <2>1. /\ Len(conditionals) # 0 /\ ~Executes(conditionals[Len(conditionals)])
        /\ t.role \in Routes /\ mode.depth = 0 => t.role # "fi" /\ conditionals[Len(conditionals)].inAlternative
    BY <1>2, <1>5 DEF Top
  <2> QED
    BY <1>1, <1>2, <1>4, <2>1, SkipGrows
<1>7. SkipRegion(ReadText', Len(Stream'), conditionals', groups', mode'.depth)
  BY <1>3, <1>4, <1>6
<1>8. ScanSound'
  BY <1>2, <1>3, <1>4, <1>7, SkipScan DEF Top
<1> QED
  BY <1>1, <1>4, <1>8, StructureHeld

(***************************************************************************)
(* Scans that end or fail, and captures.                                   *)
(***************************************************************************)

(* The structure when a scan stops at the token it has read. *)
LEMMA ScanRefuses ==
  ASSUME Reached, Reached', Structure, Reading, NEW t \in Tokens, text' = Moved(t),
         mode.scan \in {"skip", "capture"}, Boundary(mode.start, "token"),
         \A u : Grows(u, ReadText, t) => Refused(u, Len(ReadText) + 1)
  PROVE  Structure'
<1> DEFINE u == Stream \o SubSeq(text'[Current], mode.start, Len(text'[Current]))
<1>1. Grows(u, ReadText, t)
  BY ScanGrows
<1>2. Lengthens
  BY DEF Lengthens
<1>3. Refused(u, Len(u))
  BY <1>1 DEF Grows
<1>4. Caused(u, mode.start, "token", Len(text'[Current]))
  BY <1>3 DEF Caused
<1> HIDE DEF u
<1> QED
  BY <1>2, <1>4, StructureBoundary DEF u

LEMMA StructureSkipFails ==
  ASSUME Reached, Reached', Structure, NEW t \in Tokens, FailSkip(t)
  PROVE  Structure'
<1>1. /\ Reading /\ mode.scan = "skip" /\ text' = Moved(t) /\ t.role = "invalid"
      /\ Boundary(mode.start, "token")
  BY DEF FailSkip, Consume
<1>2. \A u : Grows(u, ReadText, t) => Refused(u, Len(ReadText) + 1)
  BY <1>1 DEF Grows, Refused
<1> QED
  BY <1>1, <1>2, ScanRefuses

LEMMA PendingScan ==
  ASSUME mode' = Pending, Len(conditionals') # 0, ~Executes(conditionals'[Len(conditionals')]),
         inputs' = inputs, NEW n, n = Len(text'[Current]), n # 0, text'[Current][n].role \in Routes,
         text'[Current][n].role = "fi" \/ ~conditionals'[Len(conditionals')].inAlternative
  PROVE  ScanSound'
<1>1. Current' = Current
  BY DEF Current
<1>2. Position' = n
  BY <1>1 DEF Position
<1>3. Executes(Top)' <=> Executes(conditionals'[Len(conditionals')])
  BY DEF Executes, Top
<1>4. PendingSound'
  BY <1>1, <1>2, <1>3 DEF PendingSound, Top
<1> QED
  BY <1>4 DEF ScanSound, Pending

LEMMA StructureSkipEnds ==
  ASSUME Reached, Reached', Structure, NEW t \in Tokens, EndSkip(t)
  PROVE  Structure'
<1>1. /\ Reading /\ mode.scan = "skip" /\ text' = Moved(t) /\ StopsSkip(t)
      /\ published' = published \o Region(mode.start, Position, "skipped")
      /\ mode' = Pending /\ inputs' = inputs /\ groups' = groups /\ conditionals' = conditionals /\ stop' = stop
  BY DEF EndSkip, Consume, Publish
<1>2. /\ Len(conditionals) \in Nat \ {0} /\ ~Executes(Top) /\ Frame = Top
      /\ SkipRegion(ReadText, Len(Stream), conditionals, groups, mode.depth)
  BY <1>1, SkipFacts
<1>3. mode.depth = 0 /\ t.role \in Routes /\ (t.role = "fi" \/ ~Top.inAlternative)
  BY <1>1, <1>2 DEF StopsSkip, Routes, Delimiters
<1>4. Sound(ReadText, conditionals, groups) /\ Fated(ReadText, Len(Stream), "skipped")
  <2>1. \A k \in 1..(Len(conditionals) - 1) : Executes(conditionals[k])
    BY DEF Structure, PublishedSound, Sound
  <2> QED
    BY <1>2, <1>3, <2>1, SkipEnds DEF SkipRegion
<1>5. /\ text[Current] \in Seq(Tokens) /\ Position = Len(text[Current]) /\ Position \in Nat
  BY CursorFacts DEF Reached, Placed, Position
<1>6. mode.start \in 1..(Position + 1)
  BY <1>1, ScanFrom
<1>7. /\ Len(text'[Current]) = Position + 1 /\ text'[Current][Position + 1] = t
      /\ \A a \in 1..Position : text'[Current][a] = text[Current][a]
  BY <1>1, MovedText DEF Reached, Placed
<1>8. Lengthens /\ Reading'
  BY <1>1 DEF Lengthens, Reading
<1>9. ReadText = Stream \o SubSeq(text[Current], mode.start, Len(text[Current]))
  BY <1>1 DEF ReadText
<1>10. ScanSound'
  <2>1. /\ Len(conditionals') # 0 /\ ~Executes(conditionals'[Len(conditionals')])
        /\ t.role = "fi" \/ ~conditionals'[Len(conditionals')].inAlternative
    BY <1>1, <1>2, <1>3 DEF Top
  <2> QED
    BY <1>1, <1>3, <1>5, <1>7, <2>1, PendingScan
<1>11. Sound(ReadText, conditionals', groups')
  BY <1>1, <1>4
<1> DEFINE x == text[Current]
           from == mode.start
<1>12. /\ x \in Seq(Tokens) /\ from \in 1..(Len(x) + 1) /\ published' = published \o Region(from, Len(x), "skipped")
       /\ \A a \in 1..Len(x) : text'[Current][a] = x[a]
       /\ Fated(Stream \o SubSeq(x, from, Len(x)), Len(Stream), "skipped")
       /\ Sound(Stream \o SubSeq(x, from, Len(x)), conditionals', groups')
  BY <1>1, <1>4, <1>5, <1>6, <1>7, <1>9, <1>11
<1> HIDE DEF x, from
<1> QED
  BY <1>1, <1>8, <1>10, <1>12, StructureScanned

LEMMA CaptureScanFacts ==
  ASSUME Reached, Structure, Reading, mode.scan = "capture"
  PROVE  /\ AllExecute(conditionals)
         /\ CaptureRegion(ReadText, Len(Stream), conditionals, groups, mode.open, mode.branches)
         /\ mode \in [scan : {"capture"}, start : Nat, open : Nat, branches : Seq(Branches)]
         /\ mode.branches \in Seq(Branches) /\ Len(mode.branches) \in Nat \ {0}
         /\ Branch = mode.branches[Len(mode.branches)] /\ Branch \in Branches /\ mode.open \in Nat
         /\ \A t : Refuses(t) <=> Uncapturable(t, mode.branches[Len(mode.branches)], mode.open)
<1>1. CaptureSound
  BY DEF Structure, ScanSound
<1>2. mode \in [scan : {"capture"}, start : Nat, open : Nat, branches : Seq(Branches)]
  BY ModeFacts DEF Reached, Branches
<1>3. mode.branches \in Seq(Branches) /\ mode.open \in Nat
  BY <1>2
<1>4. Len(mode.branches) # 0
  BY DEF Reached, BranchesNest
<1>5. Len(mode.branches) \in Nat \ {0} /\ Branch = mode.branches[Len(mode.branches)] /\ Branch \in Branches
  BY <1>3, <1>4, LastOf DEF Branch
<1>6. \A t : Refuses(t) <=> Uncapturable(t, Branch, mode.open)
  BY DEF Refuses, Uncapturable, Routes, Delimiters
<1> QED
  BY <1>1, <1>2, <1>3, <1>5, <1>6 DEF CaptureSound

LEMMA StructureCaptureFails ==
  ASSUME Reached, Reached', Structure, NEW t \in Tokens, FailCapture(t)
  PROVE  Structure'
<1>1. /\ Reading /\ mode.scan = "capture" /\ text' = Moved(t) /\ Refuses(t)
      /\ Boundary(mode.start, "token")
  BY DEF FailCapture, Consume
<1>2. /\ CaptureRegion(ReadText, Len(Stream), conditionals, groups, mode.open, mode.branches)
      /\ Uncapturable(t, mode.branches[Len(mode.branches)], mode.open)
  BY <1>1, CaptureScanFacts
<1>3. \A u : Grows(u, ReadText, t) => Refused(u, Len(ReadText) + 1)
  BY <1>2, CaptureVerdict
<1> QED
  BY <1>1, <1>3, ScanRefuses

LEMMA CapturesCases ==
  ASSUME NEW t, mode \in [scan : {"capture"}, start : Nat, open : Nat, branches : Seq(Branches)],
         Len(mode.branches) \in Nat \ {0}
  PROVE  /\ Captures(t).scan = "capture" /\ Captures(t).start = mode.start
         /\ t.role \in Openers =>
              /\ Captures(t).open = mode.open
              /\ Captures(t).branches = Append(mode.branches, [base |-> mode.open, alternative |-> FALSE])
         /\ t.role = "fi" =>
              /\ Captures(t).open = mode.open
              /\ Captures(t).branches = SubSeq(mode.branches, 1, Len(mode.branches) - 1)
         /\ t.role = "open" => Captures(t).open = mode.open + 1 /\ Captures(t).branches = mode.branches
         /\ t.role = "close" => Captures(t).open = mode.open - 1 /\ Captures(t).branches = mode.branches
         /\ t.role \in Delimiters =>
              /\ Captures(t).open = mode.open
              /\ Captures(t).branches = [mode.branches EXCEPT ![Len(mode.branches)].alternative = t.role = "else"]
         /\ t.role \notin Openers \cup Delimiters \cup {"fi", "open", "close"} =>
              Captures(t).open = mode.open /\ Captures(t).branches = mode.branches
<1>1. mode.scan = "capture"
  OBVIOUS
<1>2. CASE t.role \in Openers
  <2>1. Captures(t) = [mode EXCEPT !.branches = Append(@, [base |-> mode.open, alternative |-> FALSE])]
    BY <1>2 DEF Captures, Openers
  <2> QED
    BY <1>1, <1>2, <2>1 DEF Openers, Delimiters
<1>3. CASE t.role = "fi"
  <2>1. Captures(t) = [mode EXCEPT !.branches = Front(@)]
    BY <1>3 DEF Captures, Openers
  <2>2. Front(mode.branches) = SubSeq(mode.branches, 1, Len(mode.branches) - 1)
    BY LastOf
  <2> QED
    BY <1>1, <1>3, <2>1, <2>2 DEF Openers, Delimiters
<1>4. CASE t.role = "open"
  <2>1. Captures(t) = [mode EXCEPT !.open = @ + 1]
    BY <1>4 DEF Captures, Openers
  <2> QED
    BY <1>1, <1>4, <2>1 DEF Openers, Delimiters
<1>5. CASE t.role = "close"
  <2>1. Captures(t) = [mode EXCEPT !.open = @ - 1]
    BY <1>5 DEF Captures, Openers
  <2> QED
    BY <1>1, <1>5, <2>1 DEF Openers, Delimiters
<1>6. CASE t.role \in Delimiters
  <2>1. Captures(t) = [mode EXCEPT !.branches[Len(mode.branches)].alternative = t.role = "else"]
    BY <1>6 DEF Captures, Openers, Delimiters
  <2> QED
    BY <1>1, <1>6, <2>1 DEF Openers, Delimiters
<1>7. CASE t.role \notin Openers \cup Delimiters \cup {"fi", "open", "close"}
  <2>1. Captures(t) = mode
    BY <1>7 DEF Captures, Delimiters
  <2> QED
    BY <1>1, <1>7, <2>1
<1> QED
  BY <1>2, <1>3, <1>4, <1>5, <1>6, <1>7

(* The branches when a delimiter sets the alternative of the last one. *)
LEMMA AlternativeSet ==
  ASSUME NEW branches \in Seq(Branches), NEW n \in Nat \ {0}, n = Len(branches), NEW v \in BOOLEAN,
         NEW branches2, branches2 = [branches EXCEPT ![n].alternative = v]
  PROVE  /\ Len(branches2) = n /\ \A k \in 1..(n - 1) : branches2[k] = branches[k]
         /\ branches2[n].base = branches[n].base /\ branches2[n].alternative = v
<1>1. n \in DOMAIN branches /\ branches[n] \in Branches
  OBVIOUS
<1>2. branches2 = [branches EXCEPT ![n] = [branches[n] EXCEPT !.alternative = v]]
  OBVIOUS
<1>3. [branches[n] EXCEPT !.alternative = v] \in Branches
  BY <1>1 DEF Branches
<1>4. branches2 \in Seq(Branches) /\ DOMAIN branches2 = 1..n
  BY <1>1, <1>2, <1>3
<1>5. Len(branches2) = n
  BY <1>4
<1>6. branches2[n] = [branches[n] EXCEPT !.alternative = v]
  BY <1>1, <1>2
<1>7. \A k \in 1..(n - 1) : branches2[k] = branches[k]
  BY <1>2
<1> QED
  BY <1>1, <1>5, <1>6, <1>7 DEF Branches

LEMMA CapturesStep ==
  ASSUME NEW t, mode \in [scan : {"capture"}, start : Nat, open : Nat, branches : Seq(Branches)],
         Len(mode.branches) \in Nat \ {0}, mode.branches[Len(mode.branches)] \in Branches,
         ~Uncapturable(t, mode.branches[Len(mode.branches)], mode.open),
         t.role \notin Openers \cup {"fi"}
  PROVE  CaptureStep(t, mode.open, mode.branches, Captures(t).open, Captures(t).branches)
<1> DEFINE last == Len(mode.branches)
           open2 == Captures(t).open
           branches2 == Captures(t).branches
<1>1. mode.branches \in Seq(Branches) /\ mode.branches[last].alternative \in BOOLEAN
  BY DEF Branches
<1>2. /\ t.role = "open" => open2 = mode.open + 1
      /\ t.role = "close" => open2 = mode.open - 1
      /\ t.role \notin {"open", "close"} => open2 = mode.open
  BY CapturesCases
<1>3. /\ t.role \in Delimiters => branches2 = [mode.branches EXCEPT ![last].alternative = t.role = "else"]
      /\ t.role \notin Delimiters => branches2 = mode.branches
  BY CapturesCases
<1> HIDE DEF open2, branches2
<1>4. CASE t.role \in Delimiters
  <2>1. /\ Len(branches2) = last /\ \A k \in 1..(last - 1) : branches2[k] = mode.branches[k]
        /\ branches2[last].base = mode.branches[last].base
        /\ branches2[last].alternative = (t.role = "else")
    <3>1. (t.role = "else") \in BOOLEAN
      OBVIOUS
    <3>2. branches2 = [mode.branches EXCEPT ![last].alternative = (t.role = "else")]
      BY <1>3, <1>4
    <3> QED
      BY <1>1, <3>1, <3>2, AlternativeSet
  <2> QED
    BY <1>1, <1>2, <1>4, <2>1 DEF CaptureStep, open2, branches2
<1>5. CASE t.role \notin Delimiters
  <2>1. branches2 = mode.branches
    BY <1>3, <1>5
  <2> QED
    BY <1>1, <1>2, <1>5, <2>1 DEF CaptureStep, open2, branches2
<1> QED
  BY <1>4, <1>5

LEMMA StructureCaptureGoesOn ==
  ASSUME Reached, Reached', Structure, NEW t \in Tokens, CaptureToken(t)
  PROVE  Structure'
<1>1. /\ Reading /\ mode.scan = "capture" /\ text' = Moved(t) /\ ~Refuses(t)
      /\ Captures(t).branches # <<>> /\ mode' = Captures(t)
      /\ UNCHANGED <<inputs, groups, conditionals, published, remainder, stop>>
  BY DEF CaptureToken, Consume
<1>2. /\ AllExecute(conditionals)
      /\ CaptureRegion(ReadText, Len(Stream), conditionals, groups, mode.open, mode.branches)
      /\ mode \in [scan : {"capture"}, start : Nat, open : Nat, branches : Seq(Branches)]
      /\ mode.branches \in Seq(Branches) /\ Len(mode.branches) \in Nat \ {0} /\ mode.open \in Nat
      /\ mode.branches[Len(mode.branches)] \in Branches
      /\ ~Uncapturable(t, mode.branches[Len(mode.branches)], mode.open)
  BY <1>1, CaptureScanFacts
<1>3. mode'.scan = "capture" /\ mode'.start = mode.start
  BY <1>1, <1>2, CapturesCases
<1>4. /\ Grows(ReadText', ReadText, t) /\ Lengthens /\ Stream' = Stream
      /\ groups' = groups /\ conditionals' = conditionals
  BY <1>1, <1>3, ScanReads
<1>5. CaptureRegion(ReadText', Len(Stream), conditionals, groups, Captures(t).open, Captures(t).branches)
  <2>1. CASE t.role \in Openers
    <3> DEFINE b == [base |-> mode.open, alternative |-> FALSE]
    <3>1. b \in Branches /\ b.base = mode.open /\ b.alternative = FALSE
      BY <1>2 DEF Branches
    <3>2. Captures(t).open = mode.open /\ Captures(t).branches = Append(mode.branches, b)
      BY <1>2, <2>1, CapturesCases
    <3> HIDE DEF b
    <3>3. CaptureRegion(ReadText', Len(Stream), conditionals, groups, mode.open, Append(mode.branches, b))
      BY <1>2, <1>4, <2>1, <3>1, CaptureNests
    <3> QED
      BY <3>2, <3>3
  <2>2. CASE t.role = "fi"
    <3>1. Captures(t).open = mode.open
          /\ Captures(t).branches = SubSeq(mode.branches, 1, Len(mode.branches) - 1)
      BY <1>2, <2>2, CapturesCases
    <3>2. Len(mode.branches) # 1
      <4>1. ASSUME Len(mode.branches) = 1
            PROVE  SubSeq(mode.branches, 1, Len(mode.branches) - 1) = <<>>
        BY <1>2, <4>1
      <4> QED
        BY <1>1, <3>1, <4>1
    <3> QED
      BY <1>2, <1>4, <2>2, <3>1, <3>2, CaptureUnnests
  <2>3. CASE t.role \notin Openers \cup {"fi"}
    <3>1. CaptureStep(t, mode.open, mode.branches, Captures(t).open, Captures(t).branches)
      BY <1>2, <2>3, CapturesStep
    <3> QED
      BY <1>2, <1>4, <3>1, CaptureStays
  <2> QED
    BY <2>1, <2>2, <2>3
<1>6. ScanSound'
  BY <1>1, <1>2, <1>3, <1>4, <1>5, CaptureScan
<1> QED
  BY <1>1, <1>4, <1>6, StructureHeld

LEMMA StructureCaptureEnds ==
  ASSUME Reached, Reached', Structure, NEW t \in Tokens, EndCapture(t)
  PROVE  Structure'
<1>1. /\ Reading /\ mode.scan = "capture" /\ text' = Moved(t) /\ ~Refuses(t)
      /\ Captures(t).branches = <<>>
      /\ published' = published \o Region(mode.start, Position + 1, "captured")
      /\ mode' = Executing /\ inputs' = inputs /\ groups' = groups /\ conditionals' = conditionals /\ stop' = stop
  BY DEF EndCapture, Consume, Publish
<1>2. /\ AllExecute(conditionals)
      /\ CaptureRegion(ReadText, Len(Stream), conditionals, groups, mode.open, mode.branches)
      /\ mode \in [scan : {"capture"}, start : Nat, open : Nat, branches : Seq(Branches)]
      /\ mode.branches \in Seq(Branches) /\ Len(mode.branches) \in Nat \ {0}
      /\ mode.branches[Len(mode.branches)] \in Branches
      /\ ~Uncapturable(t, mode.branches[Len(mode.branches)], mode.open)
  BY <1>1, CaptureScanFacts
<1>3. t.role = "fi" /\ Len(mode.branches) = 1
  <2>1. t.role \notin Openers \cup {"fi"} => Len(Captures(t).branches) = Len(mode.branches)
    BY <1>2, CapturesStep DEF CaptureStep
  <2>2. t.role \in Openers => Len(Captures(t).branches) = Len(mode.branches) + 1
    <3>1. [base |-> mode.open, alternative |-> FALSE] \in Branches
      BY <1>2 DEF Branches
    <3>2. t.role \in Openers =>
            Captures(t).branches = Append(mode.branches, [base |-> mode.open, alternative |-> FALSE])
      BY <1>2, CapturesCases
    <3>3. Len(Append(mode.branches, [base |-> mode.open, alternative |-> FALSE])) = Len(mode.branches) + 1
      BY <1>2, <3>1, AppendParts
    <3> QED
      BY <3>2, <3>3
  <2>3. t.role = "fi" => Len(Captures(t).branches) = Len(mode.branches) - 1
    <3>1. Len(mode.branches) - 1 \in 0..Len(mode.branches)
      BY <1>2
    <3>2. t.role = "fi" => Captures(t).branches = SubSeq(mode.branches, 1, Len(mode.branches) - 1)
      BY <1>2, CapturesCases
    <3>3. Len(SubSeq(mode.branches, 1, Len(mode.branches) - 1)) = Len(mode.branches) - 1
      <4>1. PICK n : n = Len(mode.branches) - 1
        OBVIOUS
      <4>2. mode.branches \in Seq(Branches) /\ n \in 0..Len(mode.branches)
        BY <1>2, <3>1, <4>1
      <4>3. Len(SubSeq(mode.branches, 1, n)) = n
        BY <4>2, SubTop
      <4> QED
        BY <4>1, <4>3
    <3> QED
      BY <3>2, <3>3
  <2>4. Len(Captures(t).branches) = 0
    BY <1>1
  <2> QED
    BY <1>2, <2>1, <2>2, <2>3, <2>4
<1>4. /\ Len(text'[Current]) = Position + 1 /\ text'[Current] \in Seq(Tokens) /\ Position \in Nat
  <2>1. Len(text'[Current]) = Position + 1 /\ text' \in Seq(Seq(Tokens)) /\ Len(text') = Len(text)
    BY <1>1, MovedText DEF Reached, Placed
  <2>2. Current \in 1..Len(text) /\ Position \in Nat
    BY CursorFacts DEF Reached, Placed
  <2> QED
    BY <2>1, <2>2
<1>5. mode.start \in 1..(Position + 1)
  BY <1>1, ScanFrom
<1>6. Lengthens /\ Reading'
  BY <1>1 DEF Lengthens, Reading
<1> DEFINE x == text'[Current]
           from == mode.start
           u == Stream \o SubSeq(x, from, Len(x))
<1>7. Grows(u, ReadText, t)
  BY <1>1, ScanGrows
<1>8. Sound(u, conditionals, groups) /\ Fated(u, Len(Stream), "captured")
  <2> HIDE DEF u
  <2> QED
    BY <1>2, <1>3, <1>7, CaptureEnds
<1>9. ScanSound'
  BY <1>1, <1>2, NoScan
<1>10. /\ x \in Seq(Tokens) /\ from \in 1..(Len(x) + 1) /\ published' = published \o Region(from, Len(x), "captured")
       /\ \A a \in 1..Len(x) : text'[Current][a] = x[a]
       /\ Sound(u, conditionals', groups')
  BY <1>1, <1>4, <1>5, <1>8
<1> HIDE DEF x, from
<1> QED
  BY <1>1, <1>6, <1>8, <1>9, <1>10, StructureScanned

(***************************************************************************)
(* The ends of the inputs, and every step together.                        *)
(***************************************************************************)

LEMMA StructureEnds ==
  ASSUME Reached, Reached', Structure, EndRoot
  PROVE  Structure'
<1>1. /\ Reading /\ AtRoot /\ remainder' = Position + 1 /\ stop' = "end" /\ text' = text
      /\ UNCHANGED <<inputs, groups, conditionals, mode, published>>
  BY DEF EndRoot
<1>2. Lengthens /\ Position \in Nat
  BY <1>1, CursorFacts DEF Lengthens, Reached, Placed
<1>3. ~(Position + 1 <= Len(text'[Current]))
  BY <1>1, <1>2 DEF Position
<1>4. Caused(Stream \o SubSeq(text'[Current], Position + 1, Len(text'[Current])), Position + 1, "end",
             Len(text'[Current]))
  BY <1>3 DEF Caused
<1> QED
  BY <1>1, <1>2, <1>4, StructureStops

(* A scan that meets the end of its input is inside a conditional. *)
LEMMA ScanEncloses ==
  ASSUME Reached, Structure, Reading, mode.scan \in {"skip", "capture"}
  PROVE  Enclosing(ReadText, Len(ReadText) + 1) # {}
<1>1. text[Current] \in Seq(Tokens) /\ Stream \in Seq(Tokens) /\ Position = Len(text[Current]) /\ Position \in Nat
  BY CursorFacts, StreamType DEF Reached, Placed, Position
<1>2. mode.start \in 1..(Len(text[Current]) + 1)
  BY <1>1, ScanFrom
<1>3. ReadText \in Seq(Tokens)
  BY <1>1, <1>2, AheadFacts DEF ReadText
<1>4. IsText(ReadText)
  BY <1>3, TextOf
<1>5. CASE mode.scan = "skip"
  <2>1. /\ Len(conditionals) \in Nat \ {0} /\ mode.depth \in Nat
        /\ SkipRegion(ReadText, Len(Stream), conditionals, groups, mode.depth)
    BY <1>5, SkipFacts
  <2>2. PICK st : Structured(ReadText, st, conditionals) /\ Len(st) = Len(conditionals) + mode.depth
    BY <2>1 DEF SkipRegion
  <2>3. IfStack(ReadText, st) /\ 1 \in 1..Len(st)
    BY <2>1, <2>2, StructuredLengths
  <2> QED
    BY <1>4, <2>3, IfStackElement
<1>6. CASE mode.scan = "capture"
  <2>1. CaptureRegion(ReadText, Len(Stream), conditionals, groups, mode.open, mode.branches)
    BY <1>6, CaptureScanFacts
  <2>2. PICK st : CaptureStack(ReadText, st, conditionals, mode.open, mode.branches)
    BY <2>1 DEF CaptureRegion
  <2>3. IfStack(ReadText, st) /\ Len(conditionals) + 1 \in 1..Len(st)
    BY <2>2, CaptureFacts
  <2> QED
    BY <1>4, <2>3, IfStackElement
<1> QED
  BY <1>5, <1>6

LEMMA StructureEndsInScan ==
  ASSUME Reached, Reached', Structure, EndInScan
  PROVE  Structure'
<1>1. Reading /\ mode.scan \in {"skip", "capture"} /\ Boundary(mode.start, "end") /\ text' = text
  BY DEF EndInScan
<1>2. Lengthens
  BY <1>1 DEF Lengthens
<1>3. Stream \o SubSeq(text'[Current], mode.start, Len(text'[Current])) = ReadText
  BY <1>1 DEF ReadText
<1>4. Caused(ReadText, mode.start, "end", Len(text'[Current]))
  BY <1>1, ScanEncloses DEF Caused
<1>5. Caused(Stream \o SubSeq(text'[Current], mode.start, Len(text'[Current])), mode.start, "end",
             Len(text'[Current]))
  BY <1>3, <1>4
<1> QED
  BY <1>1, <1>2, <1>5, StructureBoundary

LEMMA StructureFailsLeaving ==
  ASSUME Reached, Reached', Structure, FailLeaving
  PROVE  Structure'
<1>1. Reading /\ Retains
  BY DEF FailLeaving, Retains, Lengthens
<1> QED
  BY <1>1, StructureRetains

LEMMA StructureStep ==
  ASSUME Reached, Reached', Structure, Next
  PROVE  Structure'
<1>1. ASSUME NEW t \in Tokens,
             \/ BeginGroup(t) \/ EndGroup(t)
             \/ OpenConditional(t) \/ MeetDelimiter(t) \/ Capture(t)
             \/ EnterInput(t) \/ FailInput(t) \/ MeetInvalid(t)
      PROVE  Structure'
  BY <1>1, StructureBegins, StructureCloses, StructureOpens, StructureDelimits, StructureCaptures,
     StructureEnters, StructureFails, StructureMeets
<1>2. ASSUME NEW t \in Tokens,
             \/ SkipToken(t) \/ EndSkip(t) \/ FailSkip(t)
             \/ CaptureToken(t) \/ EndCapture(t) \/ FailCapture(t)
      PROVE  Structure'
  BY <1>2, StructureSkips, StructureSkipEnds, StructureSkipFails, StructureCaptureGoesOn,
     StructureCaptureEnds, StructureCaptureFails
<1>3. CASE RoutePending
  BY <1>3, StructurePending
<1>4. CASE LeaveInput \/ FailLeaving \/ EndRoot \/ EndInScan
  BY <1>4, StructureLeaves, StructureFailsLeaving, StructureEnds, StructureEndsInScan
<1> QED
  BY <1>1, <1>2, <1>3, <1>4 DEF Next

LEMMA NothingRead ==
  ASSUME NEW s, IsText(s), Len(s) = 0
  PROVE  Sound(s, <<>>, <<>>)
<1>1. \A U : Positions(U) => \A D : StillOpen(U, D, Len(s) + 1) = {}
  BY StillOpenPosition
<1>2. PICK none \in Seq(Nat) : none = <<>>
  <2>1. <<>> \in Seq(Nat)
    OBVIOUS
  <2> QED
    BY <2>1
<1>3. Len(none) = 0
  BY <1>2
<1>4. \A U : Positions(U) => \A D : IsStack(none, U, D, Len(s))
  BY <1>1, <1>3 DEF IsStack
<1>5. IfStack(s, none) /\ GroupStack(s, none)
  BY <1>4, TextPositions DEF IfStack, GroupStack
<1>6. Structured(s, none, none) /\ Grouped(s, none)
  BY <1>3, <1>5 DEF Structured, Grouped
<1>7. Sound(s, none, none)
  BY <1>3, <1>6 DEF Sound
<1> QED
  BY <1>2, <1>7

LEMMA StructureInit ==
  ASSUME Init
  PROVE  Structure
<1>1. Reached
  BY ReachedInit
<1>2. /\ groups = <<>> /\ conditionals = <<>> /\ mode = Executing /\ published = <<>> /\ stop = "no"
      /\ Len(inputs) = 1 /\ Len(published) = 0 /\ Len(conditionals) = 0
  BY DEF Init
<1>3. IsText(Stream) /\ Len(Stream) = 0
  BY <1>1, <1>2, StreamType
<1>4. PublishedSound
  BY <1>2, <1>3, NothingRead DEF PublishedSound
<1>5. FatesTrue /\ StoppedForCause
  BY <1>2 DEF FatesTrue, StoppedForCause, Reading
<1>6. ScanSound
  BY <1>2 DEF ScanSound, AllExecute, Executing
<1>7. \A k \in 2..Len(inputs) : HandedSound(k)
  BY <1>2
<1> QED
  BY <1>4, <1>5, <1>6, <1>7 DEF Structure

(***************************************************************************)
(* The theorems about conditionals, groups and boundaries.                 *)
(***************************************************************************)

(* The invariant: what was read is where the pieces say, and the stacks are *)
(* those of the text that was read.                                         *)
Read == Reached /\ Structure

LEMMA ReadStutters ==
  ASSUME Read, UNCHANGED vars
  PROVE  Read'
<1>1. /\ text' = text /\ inputs' = inputs /\ groups' = groups /\ conditionals' = conditionals
      /\ mode' = mode /\ published' = published /\ remainder' = remainder /\ stop' = stop
  BY DEF vars
<1>2. Reached'
  BY ReachedStutters DEF Read
<1>3. Stream' = Stream
  BY <1>1 DEF Stream
<1>4. ReadText' = ReadText /\ Position' = Position /\ Current' = Current /\ Top' = Top /\ (Reading' <=> Reading)
  BY <1>1, <1>3 DEF ReadText, Position, Current, Top, Reading
<1>5. ScanSound' <=> ScanSound
  <2>1. SkipSound' <=> SkipSound
    BY <1>1, <1>3, <1>4 DEF SkipSound, SkipRegion, Structured, IfStack, Grouped, Fated, Executes
  <2>2. PendingSound' <=> PendingSound
    BY <1>1, <1>4 DEF PendingSound, Executes
  <2>3. CaptureSound' <=> CaptureSound
    BY <1>1, <1>3, <1>4 DEF CaptureSound, CaptureRegion, CaptureStack, Structured, IfStack, Grouped, Fated,
                            Ascending, BranchIsTrue, AllExecute, Executes
  <2> QED
    BY <1>1, <2>1, <2>2, <2>3 DEF ScanSound, AllExecute, Executes
<1>6. PublishedSound' /\ FatesTrue' /\ StoppedForCause'
  BY <1>1, <1>3, <1>4 DEF Read, Structure, PublishedSound, FatesTrue, FateTrue, StoppedForCause, Caused,
                          Sound, Structured, IfStack, Grouped, Executes
<1>7. \A k \in 2..Len(inputs) : HandedSound(k) => HandedSound(k)'
  BY <1>1, <1>3 DEF HandedSound, Sound, Structured, IfStack, Grouped, AllExecute, Executes
<1> QED
  BY <1>1, <1>2, <1>4, <1>5, <1>6, <1>7 DEF Read, Structure

LEMMA ReadAlways == Spec => []Read
<1>1. Init => Read
  BY ReachedInit, StructureInit DEF Read
<1>2. Read /\ [Next]_vars => Read'
  <2>1. ASSUME Read, Next
        PROVE  Read'
    BY <2>1, ReachedStep, StructureStep DEF Read
  <2> QED
    BY <2>1, ReadStutters
<1> QED
  BY <1>1, <1>2, PTL DEF Spec

LEMMA PublishedDomain ==
  ASSUME Read
  PROVE  DOMAIN published = 1..Len(published) /\ Len(Stream) = Len(published)
BY StreamType DEF Read, Reached, TypeOK

(* Every token of the prepared document is executed, skipped or captured as *)
(* TeX's conditionals decide of the whole text read, across inputs that     *)
(* were entered, left or retained.                                          *)
THEOREM DispatcherSelects == Spec => []SelectedAsTeX
<1>1. ASSUME Read
      PROVE  SelectedAsTeX
  <2>1. DOMAIN published = 1..Len(published)
    BY <1>1, PublishedDomain
  <2> QED
    BY <1>1, <2>1 DEF SelectedAsTeX, Read, Structure, FatesTrue, FateTrue
<1> QED
  BY <1>1, ReadAlways, PTL

(* Reading stops at a token only if it has to be refused, at the end only   *)
(* inside a conditional, and nothing that has to be refused is read over.   *)
THEOREM DispatcherStops == Spec => []StopsForCause
<1>1. ASSUME Read
      PROVE  StopsForCause
  <2> DEFINE read == Stream \o SubSeq(text[1], remainder, Len(text[1]))
  <2>1. DOMAIN published = 1..Len(published)
    BY <1>1, PublishedDomain
  <2>2. \A i \in DOMAIN published : Refused(Stream, i) => published[i].fate = "discarded"
    BY <1>1, <2>1 DEF Read, Structure, FatesTrue, FateTrue
  <2>3. ~Reading => Caused(read, remainder, stop, Len(text[1]))
    BY <1>1 DEF Read, Structure, StoppedForCause
  <2> HIDE DEF read
  <2>4. stop = "token" => Refused(read, Len(read))
    BY <2>3 DEF Reading, Caused
  <2>5. stop = "end" /\ remainder <= Len(text[1]) => Enclosing(read, Len(read) + 1) # {}
    BY <2>3 DEF Reading, Caused
  <2> QED
    BY <2>2, <2>4, <2>5 DEF StopsForCause, read
<1> QED
  BY <1>1, ReadAlways, PTL

LEMMA SelectedWhileReading ==
  ASSUME Read, Reading
  PROVE  Selected(Stream, Len(Stream) + 1) <=> mode.scan \in {"none", "capture"}
<1>1. Reached /\ Structure /\ IsText(Stream)
  BY StreamType DEF Read
<1>2. PICK st : Structured(Stream, st, conditionals) /\ Len(st) = Len(conditionals)
  BY <1>1 DEF Structure, PublishedSound, Sound
<1>3. ScanSound /\ mode.scan \in {"none", "pending", "skip", "capture"}
  BY <1>1, ModeFacts DEF Structure, Reached
<1>4. CASE mode.scan \in {"none", "capture"}
  <2>1. \A k \in 1..Len(conditionals) : Executes(conditionals[k])
    BY <1>3, <1>4 DEF ScanSound, CaptureSound, AllExecute
  <2> QED
    BY <1>1, <1>2, <1>4, <2>1, SelectedAtEnd
<1>5. CASE mode.scan \in {"skip", "pending"}
  <2>1. Len(conditionals) # 0 /\ ~Executes(conditionals[Len(conditionals)])
    BY <1>3, <1>5 DEF ScanSound, SkipSound, PendingSound, Top
  <2>2. Len(conditionals) \in Nat
    BY <1>1 DEF Reached, TypeOK
  <2>3. Len(conditionals) \in 1..Len(conditionals)
    BY <2>1, <2>2
  <2> QED
    BY <1>1, <1>2, <1>5, <2>1, <2>3, SelectedAtEnd
<1> QED
  BY <1>3, <1>4, <1>5

(* The stacks of conditionals and groups are those the prepared document    *)
(* leaves open, whatever inputs were retained.                              *)
THEOREM DispatcherStructure == Spec => []StructureIsTrue
<1>1. ASSUME Read
      PROVE  StructureIsTrue
  <2> DEFINE end == Len(Stream) + 1
             open == OpenGroups(Stream, end)
  <2>1. Sound(Stream, conditionals, groups) /\ Len(Stream) \in Nat
    BY <1>1, StreamType DEF Read, Structure, PublishedSound
  <2>2. Len(conditionals) = Cardinality(Enclosing(Stream, end))
    <3>1. PICK st : Structured(Stream, st, conditionals) /\ Len(st) = Len(conditionals)
      BY <2>1 DEF Sound
    <3>2. IsStack(st, Ifs(Stream), Fis(Stream), Len(Stream))
      BY <3>1 DEF Structured, IfStack
    <3> QED
      BY <2>1, <3>1, <3>2, StackCounts DEF Enclosing
  <2>3. PICK gs : /\ GroupStack(Stream, gs) /\ Len(groups) = Len(gs)
                  /\ \A k \in 1..Len(gs) : groups[k] = Stream[gs[k]].kind
    BY <2>1 DEF Sound, Grouped
  <2>4. IsStack(gs, Executed(Stream, "open"), Executed(Stream, "close"), Len(Stream))
    BY <2>3 DEF GroupStack
  <2>5. /\ Cardinality(open) = Len(gs)
        /\ \A k \in 1..Len(gs) : Cardinality({ h \in open : h <= gs[k] }) = k
    BY <2>1, <2>4, StackCounts DEF OpenGroups
  <2>6. ASSUME NEW g \in open
        PROVE  groups[Cardinality({ h \in open : h <= g })] = Stream[g].kind
    <3>1. PICK k \in 1..Len(gs) : gs[k] = g
      BY <2>4 DEF IsStack, OpenGroups
    <3> HIDE DEF open
    <3> QED
      BY <2>3, <2>5, <3>1
  <2>7. Reading => (Selected(Stream, end) <=> mode.scan \in {"none", "capture"})
    BY <1>1, SelectedWhileReading
  <2> QED
    BY <2>2, <2>3, <2>5, <2>6, <2>7 DEF StructureIsTrue
<1> QED
  BY <1>1, ReadAlways, PTL

(***************************************************************************)
(* No token is lost, and none is published twice.                          *)
(***************************************************************************)

(* The pieces of input n are its first m tokens, and a piece enters input n. *)
PiecesAre(p, n, m) ==
  /\ \A i \in 1..Len(p) : p[i].input = n => p[i].at \in 1..m
  /\ \A a \in 1..m : \E i \in 1..Len(p) : p[i].input = n /\ p[i].at = a
EnteredIn(p, n) == \E i \in 1..Len(p) : p[i].fate = "entered" /\ p[i].child = n

(* The tokens of input n that the prepared document owes to its cursor. *)
Owed(n) ==
  IF n # 1 /\ ~EnteredIn(published, n) THEN 0
  ELSE IF n # Current THEN Len(text[n])
  ELSE IF Reading THEN Done ELSE remainder - 1

Ordered(p) ==
  \A i, j \in 1..Len(p) : i < j /\ p[i].input = p[j].input => p[i].at < p[j].at
InPlace(p) ==
  \A i, j \in 1..Len(p) : i < j /\ p[i].fate = "entered" /\ p[j].input = p[i].child =>
    \A k \in i..j : p[k].input = p[i].input => k = i
Pieces ==
  /\ \A n \in 1..Len(text) : PiecesAre(published, n, Owed(n))
  /\ Ordered(published) /\ InPlace(published)

LEMMA CurrentEntered ==
  ASSUME Reached
  PROVE  /\ Current = 1 \/ EnteredIn(published, Current)
         /\ Current \in 1..Len(text) /\ Len(published) \in Nat
<1>1. /\ Len(inputs) \in Nat \ {0} /\ Current \in 1..Len(text) /\ Current = inputs[Len(inputs)].input
      /\ Len(published) \in Nat
  BY CursorFacts DEF Reached, Placed
<1>2. CASE Len(inputs) = 1
  BY <1>1, <1>2 DEF Reached, Placed, InputsNest
<1>3. CASE Len(inputs) # 1
  <2>1. Len(inputs) \in 2..Len(inputs)
    <3>1. PICK l \in Nat \ {0} : l = Len(inputs)
      BY <1>1
    <3>2. l \in 2..l
      BY <1>3, <3>1
    <3> QED
      BY <3>1, <3>2
  <2>2. EnteredAt(Len(inputs))
    BY <2>1 DEF Reached, Placed
  <2> QED
    BY <1>1, <2>2 DEF EnteredAt, EnteredIn
<1> QED
  BY <1>1, <1>2, <1>3

(* The piece that entered the current input, and what stands beside it. *)
LEMMA EntersCurrent ==
  ASSUME Reached, NEW i \in 1..Len(published), published[i].fate = "entered", published[i].child = Current,
         NEW k \in 1..Len(published), k > i
  PROVE  published[k].input # published[i].input
<1>1. /\ Len(inputs) \in Nat \ {0} /\ Current \in 1..Len(text) /\ Current = inputs[Len(inputs)].input
      /\ Len(text) \in Nat /\ Len(published) \in Nat
  BY CursorFacts DEF Reached, Placed
<1>2. /\ published[i].input \in 1..Len(text) /\ published[i].child > published[i].input
      /\ published[k].input \in 1..Len(text)
      /\ \A j \in 1..Len(published) : published[j].fate = "entered" => published[j].child > published[j].input
  <2>1. ASSUME NEW j \in 1..Len(published)
        PROVE  /\ published[j].input \in 1..Len(text)
               /\ published[j].fate = "entered" => published[j].child \in (published[j].input + 1)..Len(text)
    BY DEF Reached, Placed, PiecesWereRead
  <2>2. \A a \in 1..Len(text) : \A b \in (a + 1)..Len(text) : b > a
    BY <1>1
  <2> QED
    BY <2>1, <2>2
<1>3. Len(inputs) # 1
  BY <1>1, <1>2 DEF Reached, Placed, InputsNest
<1>4. Len(inputs) \in 2..Len(inputs)
  <2>1. PICK l \in Nat \ {0} : l = Len(inputs)
    BY <1>1
  <2>2. l \in 2..l
    BY <1>3, <2>1
  <2> QED
    BY <2>1, <2>2
<1>5. EnteredAt(Len(inputs))
  BY <1>4 DEF Reached, Placed
<1> DEFINE p == inputs[Len(inputs)].published + 1
<1>6. /\ p \in 1..Len(published)
      /\ \A j \in 1..Len(published) :
           /\ j > p => published[j].input >= Current
           /\ j < p => (published[j].fate = "entered" => published[j].child < Current)
  BY <1>1, <1>5 DEF EnteredAt
<1> HIDE DEF p
<1>7. i = p
  <2>1. ~(i < p)
    BY <1>1, <1>6
  <2>2. ~(i > p)
    BY <1>1, <1>2, <1>6
  <2> QED
    BY <1>6, <2>1, <2>2
<1>8. published[k].input >= Current
  BY <1>6, <1>7
<1> QED
  BY <1>1, <1>2, <1>8

(* Pieces of the current input follow the prepared document. *)
LEMMA PiecesFollow ==
  ASSUME Reached, NEW d \in Nat, PiecesAre(published, Current, d), Ordered(published), InPlace(published),
         NEW es \in Seq(Entries), NEW p, p = published \o es,
         \A k \in 1..Len(es) : /\ es[k].input = Current /\ es[k].at = d + k
                               /\ es[k].fate = "entered" => es[k].child # Current
  PROVE  /\ \A n, m : n # Current /\ PiecesAre(published, n, m) => PiecesAre(p, n, m)
         /\ PiecesAre(p, Current, d + Len(es))
         /\ Ordered(p) /\ InPlace(p)
<1>1. published \in Seq(Entries)
  BY DEF Reached, TypeOK
<1>2. PICK N, L \in Nat : N = Len(published) /\ L = Len(es)
  BY <1>1
<1>3. /\ Len(p) = N + L
      /\ \A i \in 1..N : p[i] = published[i]
      /\ \A i \in 1..L : p[N + i] = es[i]
      /\ \A i \in 1..(N + L) : i \in 1..N \/ (i - N \in 1..L /\ p[i] = es[i - N])
  BY <1>1, <1>2, Concatenated
<1>4. ASSUME NEW n, NEW m, n # Current, PiecesAre(published, n, m)
      PROVE  PiecesAre(p, n, m)
  <2>1. ASSUME NEW i \in 1..Len(p), p[i].input = n
        PROVE  p[i].at \in 1..m
    BY <1>2, <1>3, <1>4, <2>1 DEF PiecesAre
  <2>2. ASSUME NEW a \in 1..m
        PROVE  \E i \in 1..Len(p) : p[i].input = n /\ p[i].at = a
    <3>1. PICK i \in 1..N : published[i].input = n /\ published[i].at = a
      BY <1>2, <1>4 DEF PiecesAre
    <3>2. i \in 1..Len(p) /\ p[i] = published[i]
      BY <1>2, <1>3
    <3> QED
      BY <3>1, <3>2
  <2> QED
    BY <2>1, <2>2 DEF PiecesAre
<1>5. PiecesAre(p, Current, d + Len(es))
  <2>1. ASSUME NEW i \in 1..Len(p), p[i].input = Current
        PROVE  p[i].at \in 1..(d + L)
    <3>1. CASE i \in 1..N
      <4>1. p[i].at \in 1..d
        BY <1>2, <1>3, <2>1, <3>1 DEF PiecesAre
      <4> QED
        BY <1>2, <4>1
    <3>2. CASE i - N \in 1..L /\ p[i] = es[i - N]
      BY <1>2, <3>2
    <3> QED
      BY <1>3, <3>1, <3>2
  <2>2. ASSUME NEW a \in 1..(d + L)
        PROVE  \E i \in 1..Len(p) : p[i].input = Current /\ p[i].at = a
    <3>1. CASE a \in 1..d
      <4>1. PICK i \in 1..N : published[i].input = Current /\ published[i].at = a
        BY <1>2, <3>1 DEF PiecesAre
      <4>2. i \in 1..Len(p) /\ p[i] = published[i]
        BY <1>2, <1>3
      <4> QED
        BY <4>1, <4>2
    <3>2. CASE a \notin 1..d
      <4>1. PICK k \in 1..L : k = a - d
        BY <1>2, <3>2
      <4>2. N + k \in 1..Len(p) /\ p[N + k] = es[k] /\ es[k].input = Current /\ es[k].at = a
        BY <1>2, <1>3, <4>1
      <4> QED
        BY <4>2
    <3> QED
      BY <3>1, <3>2
  <2> QED
    BY <1>2, <2>1, <2>2 DEF PiecesAre
<1>6. Ordered(p)
  <2> SUFFICES ASSUME NEW i \in 1..Len(p), NEW j \in 1..Len(p), i < j, p[i].input = p[j].input
               PROVE  p[i].at < p[j].at
    BY DEF Ordered
  <2>1. CASE j \in 1..N
    <3>1. i \in 1..N /\ p[i] = published[i] /\ p[j] = published[j]
      BY <1>2, <1>3, <2>1
    <3> QED
      BY <1>2, <2>1, <3>1 DEF Ordered
  <2>2. CASE j - N \in 1..L /\ p[j] = es[j - N]
    <3>1. p[j].input = Current /\ p[j].at = d + (j - N)
      BY <1>2, <2>2
    <3>2. CASE i \in 1..N
      <4>1. p[i].at \in 1..d
        BY <1>2, <1>3, <3>1, <3>2 DEF PiecesAre
      <4> QED
        BY <1>2, <2>2, <3>1, <4>1
    <3>3. CASE i - N \in 1..L /\ p[i] = es[i - N]
      <4>1. p[i].at = d + (i - N)
        BY <1>2, <3>3
      <4> QED
        BY <1>2, <1>3, <3>1, <4>1
    <3> QED
      BY <1>3, <3>2, <3>3
  <2> QED
    BY <1>3, <2>1, <2>2
<1>7. InPlace(p)
  <2> SUFFICES ASSUME NEW i \in 1..Len(p), NEW j \in 1..Len(p), i < j, p[i].fate = "entered",
                      p[j].input = p[i].child, NEW k \in i..j, p[k].input = p[i].input
               PROVE  k = i
    BY DEF InPlace
  <2>1. CASE j \in 1..N
    <3>1. i \in 1..N /\ k \in 1..N /\ p[i] = published[i] /\ p[j] = published[j] /\ p[k] = published[k]
      BY <1>2, <1>3, <2>1
    <3> QED
      BY <1>2, <2>1, <3>1 DEF InPlace
  <2>2. CASE j - N \in 1..L /\ p[j] = es[j - N]
    <3>1. p[i].child = Current
      BY <1>2, <2>2
    <3>2. i \in 1..N /\ p[i] = published[i]
      <4>1. ~(i - N \in 1..L /\ p[i] = es[i - N])
        BY <1>2, <3>1
      <4> QED
        BY <1>3, <4>1
    <3>3. published[i].input # Current
      <4>1. published[i].child \in (published[i].input + 1)..Len(text) /\ published[i].input \in 1..Len(text)
        BY <1>2, <3>2 DEF Reached, Placed, PiecesWereRead
      <4> QED
        BY <3>1, <3>2, <4>1
    <3>4. k \in 1..Len(p)
      BY <1>2, <1>3
    <3>5. CASE k \in 1..N
      <4>1. p[k] = published[k]
        BY <1>3, <3>5
      <4>2. ~(k > i)
        BY <1>2, <3>1, <3>2, <3>5, <4>1, EntersCurrent
      <4> QED
        BY <3>2, <3>5, <4>2
    <3>6. CASE k - N \in 1..L /\ p[k] = es[k - N]
      BY <1>2, <3>2, <3>3, <3>6
    <3> QED
      BY <1>3, <3>4, <3>5, <3>6
  <2> QED
    BY <1>3, <2>1, <2>2
<1> QED
  BY <1>4, <1>5, <1>6, <1>7

LEMMA OwedHere ==
  ASSUME Reached, Reading
  PROVE  Owed(Current) = Done /\ Done \in Nat
<1>1. Done \in 0..Position /\ Position \in Nat
  BY CursorFacts DEF Reached, Cursor, Placed
<1> QED
  BY <1>1, CurrentEntered DEF Owed

LEMMA EnteredSame ==
  ASSUME published \in Seq(Entries), NEW es \in Seq(Entries), NEW n,
         \A k \in 1..Len(es) : ~(es[k].fate = "entered" /\ es[k].child = n)
  PROVE  EnteredIn(published \o es, n) <=> EnteredIn(published, n)
<1> DEFINE p == published \o es
<1>1. PICK N, L \in Nat : N = Len(published) /\ L = Len(es)
  OBVIOUS
<1>2. /\ Len(p) = N + L
      /\ \A i \in 1..N : p[i] = published[i]
      /\ \A i \in 1..(N + L) : i \in 1..N \/ (i - N \in 1..L /\ p[i] = es[i - N])
  BY <1>1, Concatenated
<1> HIDE DEF p
<1>3. ASSUME EnteredIn(published, n)
      PROVE  EnteredIn(p, n)
  <2>1. PICK i \in 1..N : published[i].fate = "entered" /\ published[i].child = n
    BY <1>1, <1>3 DEF EnteredIn
  <2>2. i \in 1..Len(p) /\ p[i] = published[i]
    BY <1>1, <1>2
  <2> QED
    BY <2>1, <2>2 DEF EnteredIn
<1>4. ASSUME EnteredIn(p, n)
      PROVE  EnteredIn(published, n)
  <2>1. PICK i \in 1..(N + L) : p[i].fate = "entered" /\ p[i].child = n
    BY <1>2, <1>4 DEF EnteredIn
  <2>2. ~(i - N \in 1..L /\ p[i] = es[i - N])
    BY <1>1, <2>1
  <2>3. i \in 1..N
    BY <1>2, <2>2
  <2> QED
    BY <1>1, <1>2, <2>1, <2>3 DEF EnteredIn
<1> QED
  BY <1>3, <1>4 DEF p

LEMMA ReadsOnPieces ==
  ASSUME Reached, Reached', Pieces, Reading, ReadsOn
  PROVE  Pieces'
<1>1. PICK es : /\ Follow(es, Done + 1) /\ published' = published \o es
                /\ \/ Reading' /\ remainder' = remainder /\ Done + Len(es) = Done'
                   \/ ~Reading' /\ AtRoot /\ Done + Len(es) = remainder' - 1
  BY DEF ReadsOn
<1>2. Lengthens /\ inputs' = inputs
  BY DEF ReadsOn
<1>3. Current' = Current
  BY <1>2 DEF Current
<1>4. /\ Len(text') = Len(text) /\ \A n \in 1..Len(text) : n # Current => text'[n] = text[n]
  BY <1>2, LongerText DEF Reached, Placed
<1>5. PICK d \in Nat : d = Done
  BY OwedHere
<1>6. es \in Seq(Entries) /\ \A k \in 1..Len(es) : es[k].input = Current /\ es[k].at = d + k /\ es[k].fate # "entered"
  BY <1>1, <1>5 DEF Follow
<1>7. /\ \A n \in 1..Len(text) : PiecesAre(published, n, Owed(n))
      /\ Ordered(published) /\ InPlace(published)
  BY DEF Pieces
<1>8. PiecesAre(published, Current, d)
  BY <1>5, <1>7, OwedHere, CurrentEntered
<1>9. /\ \A n, m : n # Current /\ PiecesAre(published, n, m) => PiecesAre(published', n, m)
      /\ PiecesAre(published', Current, d + Len(es))
      /\ Ordered(published') /\ InPlace(published')
  BY <1>1, <1>6, <1>7, <1>8, PiecesFollow
<1>10. \A n : EnteredIn(published', n) <=> EnteredIn(published, n)
  BY <1>1, <1>6, EnteredSame DEF Reached, TypeOK
<1>11. \A n \in 1..Len(text) : n # Current => Owed(n)' = Owed(n)
  BY <1>3, <1>4, <1>10 DEF Owed
<1>12. Owed(Current)' = d + Len(es)
  <2>1. Current = 1 \/ EnteredIn(published', Current)
    BY <1>10, CurrentEntered
  <2> QED
    BY <1>1, <1>3, <1>5, <2>1 DEF Owed
<1>13. ASSUME NEW n \in 1..Len(text')
       PROVE  PiecesAre(published', n, Owed(n)')
  <2>1. CASE n = Current
    BY <1>3, <1>9, <1>12, <2>1
  <2>2. CASE n # Current
    BY <1>4, <1>7, <1>9, <1>11, <2>2
  <2> QED
    BY <2>1, <2>2
<1> QED
  BY <1>9, <1>13 DEF Pieces, PiecesAre, Ordered, InPlace

LEMMA EntersPiecesKept ==
  ASSUME Reached, Reached', Pieces, NEW t \in Tokens, EnterInput(t)
  PROVE  Pieces'
<1>1. /\ Reading /\ mode = Executing /\ mode' = mode /\ stop' = stop
      /\ text' = Append(Moved(t), <<>>)
      /\ published' = published \o <<Entry(Position + 1, "entered", Len(text) + 1)>>
  BY DEF EnterInput, Publish
<1>2. PICK d \in Nat : d = Done
  BY <1>1, OwedHere
<1>3. d = Position
  BY <1>1, <1>2 DEF Done, Executing
<1>4. PICK N \in Nat : N = Len(text)
  BY CursorFacts DEF Reached, Placed
<1> DEFINE e == Entry(Position + 1, "entered", Len(text) + 1)
           es == <<e>>
<1>5. /\ e \in Entries /\ e.input = Current /\ e.at = d + 1 /\ e.fate = "entered" /\ e.child = N + 1
      /\ Current \in 1..N
  BY <1>2, <1>3, <1>4, CurrentEntered DEF Entry, Entries, Fates
<1> HIDE DEF e
<1>6. es \in Seq(Entries) /\ Len(es) = 1 /\ es[1] = e
  BY <1>5
<1>7. \A k \in 1..Len(es) : /\ es[k].input = Current /\ es[k].at = d + k
                            /\ es[k].fate = "entered" => es[k].child # Current
  BY <1>4, <1>5, <1>6
<1>8. published' = published \o es
  BY <1>1 DEF e
<1> HIDE DEF es
<1>9. /\ \A n \in 1..Len(text) : PiecesAre(published, n, Owed(n))
      /\ Ordered(published) /\ InPlace(published)
  BY DEF Pieces
<1>10. PiecesAre(published, Current, d)
  BY <1>1, <1>2, <1>9, OwedHere, CurrentEntered
<1>11. /\ \A n, m : n # Current /\ PiecesAre(published, n, m) => PiecesAre(published', n, m)
       /\ PiecesAre(published', Current, d + 1)
       /\ Ordered(published') /\ InPlace(published')
  BY <1>6, <1>7, <1>8, <1>9, <1>10, PiecesFollow
<1>12. \A n : n # N + 1 => (EnteredIn(published', n) <=> EnteredIn(published, n))
  <2> SUFFICES ASSUME NEW n, n # N + 1
               PROVE  EnteredIn(published', n) <=> EnteredIn(published, n)
    OBVIOUS
  <2>1. \A k \in 1..Len(es) : ~(es[k].fate = "entered" /\ es[k].child = n)
    BY <1>5, <1>6
  <2>2. published \in Seq(Entries)
    BY DEF Reached, TypeOK
  <2> QED
    BY <1>6, <1>8, <2>1, <2>2, EnteredSame
<1>13. /\ Len(text') = N + 1 /\ text'[N + 1] = <<>> /\ Len(text'[Current]) = Position + 1
       /\ \A n \in 1..N : n # Current => text'[n] = text[n]
  BY <1>1, <1>4, EntersText
<1>14. Current' = N + 1
  <2>1. /\ inputs' \in Seq(Handoffs) /\ Len(inputs') = Len(inputs) + 1 /\ inputs'[Len(inputs) + 1].input = N + 1
    BY <1>4, EntersPieces
  <2>2. Len(inputs) \in Nat
    BY CursorFacts DEF Reached, Placed
  <2> QED
    <3>1. PICK l \in Nat : l = Len(inputs)
      BY <2>2
    <3>2. inputs' # <<>> /\ Len(inputs') = l + 1 /\ inputs'[l + 1].input = N + 1
      BY <2>1, <3>1
    <3>3. Last(inputs') = inputs'[l + 1]
      BY <2>1, <3>2, LastOf
    <3> QED
      BY <3>2, <3>3 DEF Current
<1>15. ASSUME NEW n \in 1..N, n # Current
       PROVE  Owed(n)' = Owed(n)
  <2>1. n # N + 1
    BY <1>4
  <2> QED
    BY <1>12, <1>13, <1>14, <1>15, <2>1 DEF Owed
<1>16. PICK c \in 1..N : c = Current
  BY <1>5
<1>17. Owed(c)' = d + 1
  <2>1. c # N + 1
    BY <1>4
  <2>2. c = 1 \/ EnteredIn(published', c)
    BY <1>12, <1>16, <2>1, CurrentEntered
  <2>3. Owed(c)' = Len(text'[c])
    BY <1>14, <2>1, <2>2 DEF Owed
  <2> QED
    BY <1>3, <1>13, <1>16, <2>3
<1>18. PiecesAre(published', N + 1, 0) /\ Owed(N + 1)' = 0
  <2>1. N + 1 # Current
    BY <1>4, <1>5
  <2>2. PiecesAre(published, N + 1, 0)
    BY <1>4 DEF PiecesAre, Reached, Placed, PiecesWereRead
  <2>3. Reading' /\ Position' = 0 /\ mode' = Executing
    BY <1>1, <1>13, <1>14 DEF Reading, Position
  <2>4. Done' = 0
    BY <2>3 DEF Done, Executing
  <2> QED
    BY <1>11, <1>14, <2>1, <2>2, <2>3, <2>4 DEF Owed
<1>19. ASSUME NEW n \in 1..Len(text')
       PROVE  PiecesAre(published', n, Owed(n)')
  <2>1. CASE n = c
    BY <1>11, <1>16, <1>17, <2>1
  <2>2. CASE n = N + 1
    BY <1>18, <2>2
  <2>3. CASE n \in 1..N /\ n # c
    BY <1>4, <1>9, <1>11, <1>15, <1>16, <2>3
  <2>4. n \in 1..(N + 1)
    BY <1>13
  <2> QED
    BY <1>4, <2>1, <2>2, <2>3, <2>4
<1> QED
  BY <1>11, <1>19 DEF Pieces, PiecesAre, Ordered, InPlace

(***************************************************************************)
(* An input is left, or retained.                                          *)
(***************************************************************************)

LEMMA LeavesPieces ==
  ASSUME Reached, Reached', Pieces, LeaveInput
  PROVE  Pieces'
<1>1. /\ Reading /\ mode = Executing /\ ~AtRoot /\ inputs' = Front(inputs)
      /\ text' = text /\ mode' = mode /\ published' = published /\ stop' = stop
  BY DEF LeaveInput
<1>2. Reading' /\ Done = Position /\ Done' = Position'
  BY <1>1 DEF Reading, Done, Executing
<1> DEFINE c == inputs[Len(inputs) - 1].input
<1>3. c < Current /\ c \in 1..Len(text) /\ Current \in 1..Len(text)
  BY <1>1, InputEntered, CurrentEntered
<1>4. Current' = c
  <2>1. inputs \in Seq(Handoffs) /\ Len(inputs) \in Nat /\ Len(inputs) >= 2
    BY <1>1, InputEntered DEF Reached, TypeOK
  <2>2. Len(inputs') = Len(inputs) - 1 /\ inputs'[Len(inputs) - 1] = inputs[Len(inputs) - 1] /\ inputs' \in Seq(Handoffs)
    BY <1>1, <2>1, LastOf
  <2>3. inputs' # <<>>
    BY <2>1, <2>2
  <2> QED
    BY <2>2, <2>3, LastOf DEF Current
<1> HIDE DEF c
<1>5. Owed(Current) = Len(text[Current])
  BY <1>1, <1>2, OwedHere DEF Position
<1>6. ASSUME NEW n \in 1..Len(text)
      PROVE  Owed(n)' = Owed(n)
  <2>1. PICK k, m : k = Current /\ m = c
    OBVIOUS
  <2>2. Current' = m /\ m < k /\ m \in 1..Len(text) /\ k \in 1..Len(text)
    BY <1>3, <1>4, <2>1
  <2>3. Position' = Len(text[m])
    BY <1>1, <2>2 DEF Position
  <2>4. Owed(n)' = IF n # 1 /\ ~EnteredIn(published, n) THEN 0
                   ELSE IF n # m THEN Len(text[n]) ELSE Len(text[m])
    BY <1>1, <1>2, <2>2, <2>3 DEF Owed
  <2>5. CASE n = k
    BY <1>5, <2>1, <2>2, <2>4, <2>5, CurrentEntered
  <2>6. CASE n # k
    BY <2>1, <2>4, <2>6 DEF Owed
  <2> QED
    BY <2>5, <2>6
<1> QED
  BY <1>1, <1>6 DEF Pieces, PiecesAre, Ordered, InPlace

LEMMA RetainsPiecesKept ==
  ASSUME Reached, Reached', Pieces, Reading, Retains
  PROVE  Pieces'
<1>1. ~AtRoot /\ RetainInput /\ Lengthens
  BY DEF Retains
<1>2. mode' = Executing /\ stop' = stop
  BY <1>1 DEF RetainInput
<1>3. PICK c : c = inputs[Len(inputs) - 1].input
  OBVIOUS
<1>4. PICK h : h = Last(inputs)
  OBVIOUS
<1>5. PICK p, m : p = h.published + 1 /\ m = Current
  OBVIOUS
<1>6. /\ p \in 1..Len(published) /\ h.published \in Nat /\ h.published = p - 1
      /\ c \in 1..Len(text) /\ c < m /\ m \in 1..Len(text) /\ Len(text[c]) \in Nat \ {0}
      /\ published[p].fate = "entered" /\ published[p].child = m
      /\ published[p].input = c /\ published[p].at = Len(text[c])
      /\ \A i \in 1..Len(published) :
           /\ i > p => published[i].input >= m
           /\ i < p => /\ published[i].input < m
                       /\ published[i].fate = "entered" => published[i].child < m
      /\ Len(published) \in Nat /\ Len(text) \in Nat
  <2>1. /\ h.published \in Nat /\ h.published + 1 \in 1..Len(published)
        /\ c \in 1..Len(text) /\ c < Current /\ Len(text[c]) \in Nat \ {0}
        /\ published[h.published + 1].fate = "entered" /\ published[h.published + 1].child = Current
        /\ published[h.published + 1].input = c /\ published[h.published + 1].at = Len(text[c])
        /\ \A i \in 1..Len(published) :
             /\ i > h.published + 1 => published[i].input >= Current
             /\ i < h.published + 1 => /\ published[i].input < Current
                                       /\ published[i].fate = "entered" => published[i].child < Current
    BY <1>1, <1>3, <1>4, InputEntered
  <2>2. Current \in 1..Len(text) /\ Len(published) \in Nat /\ Len(text) \in Nat
    BY CurrentEntered, CursorFacts DEF Reached, Placed
  <2>3. h.published = p - 1
    BY <1>5, <2>1
  <2> QED
    BY <1>5, <2>1, <2>2, <2>3
<1>7. /\ Len(published') = p /\ Current' = c
      /\ \A i \in 1..(p - 1) : i \in 1..Len(published) /\ published'[i] = published[i]
      /\ published'[p].input = c /\ published'[p].at = Len(text[c]) /\ published'[p].fate = "retained"
  <2>1. /\ Len(published') = h.published + 1 /\ Current' = c
        /\ \A i \in 1..h.published : i \in 1..Len(published) /\ published'[i] = published[i]
        /\ published'[h.published + 1].input = c
        /\ published'[h.published + 1].at = Len(text[c])
        /\ published'[h.published + 1].fate = "retained"
    BY <1>1, <1>3, <1>4, RetainsPieces
  <2> QED
    BY <1>5, <1>6, <2>1
<1>8. /\ Len(text') = Len(text)
      /\ \A n \in 1..Len(text) : n # m => text'[n] = text[n]
  BY <1>1, <1>5, LongerText DEF Reached, Placed
<1>9. \A i \in 1..Len(published) : /\ published[i].input \in 1..Len(text)
                                   /\ published[i].fate = "entered" => published[i].child > published[i].input
  BY <1>6 DEF Reached, Placed, PiecesWereRead
<1>10. /\ \A n \in 1..Len(text) : PiecesAre(published, n, Owed(n))
       /\ Ordered(published) /\ InPlace(published)
  BY DEF Pieces
<1>11. /\ p \in Nat \ {0} /\ \A i \in 1..p : i = p \/ i \in 1..(p - 1)
  BY <1>6
<1>12. ASSUME NEW n \in 1..Len(text), n < m
       PROVE  EnteredIn(published', n) <=> EnteredIn(published, n)
  <2>1. ASSUME EnteredIn(published, n)
        PROVE  EnteredIn(published', n)
    <3>1. PICK i \in 1..Len(published) : published[i].fate = "entered" /\ published[i].child = n
      BY <2>1 DEF EnteredIn
    <3>2. ~(i > p) /\ i # p
      <4>1. published[i].input < n /\ published[i].input \in Int
        BY <1>6, <1>9, <3>1
      <4>2. ~(published[i].input >= m)
        BY <1>6, <1>12, <4>1
      <4>3. published[p].child # n
        BY <1>6, <1>12
      <4> QED
        BY <1>6, <3>1, <4>2, <4>3
    <3>3. i \in 1..(p - 1) /\ i \in 1..p
      BY <1>6, <3>2
    <3> QED
      BY <1>7, <3>1, <3>3 DEF EnteredIn
  <2>2. ASSUME EnteredIn(published', n)
        PROVE  EnteredIn(published, n)
    <3>1. PICK i \in 1..p : published'[i].fate = "entered" /\ published'[i].child = n
      BY <1>7, <2>2 DEF EnteredIn
    <3>2. i \in 1..(p - 1)
      BY <1>7, <1>11, <3>1
    <3> QED
      BY <1>7, <3>1, <3>2 DEF EnteredIn
  <2> QED
    BY <2>1, <2>2
<1>13. ASSUME NEW n \in 1..Len(text), n >= m
       PROVE  ~EnteredIn(published', n) /\ \A i \in 1..p : published'[i].input # n
  <2>1. \A i \in 1..(p - 1) : published'[i].input < m /\ (published'[i].fate = "entered" => published'[i].child < m)
    <3>1. \A i \in 1..(p - 1) : i \in 1..Len(published) /\ i < p /\ published'[i] = published[i]
      BY <1>6, <1>7
    <3> QED
      BY <1>6, <3>1
  <2>2. \A i \in 1..p : published'[i].input # n /\ ~(published'[i].fate = "entered" /\ published'[i].child = n)
    <3> SUFFICES ASSUME NEW i \in 1..p
                 PROVE  published'[i].input # n /\ ~(published'[i].fate = "entered" /\ published'[i].child = n)
      OBVIOUS
    <3>1. CASE i = p
      BY <1>6, <1>7, <1>13, <3>1
    <3>2. CASE i \in 1..(p - 1)
      <4>1. published[i].input \in 1..Len(text) /\ published'[i] = published[i]
        BY <1>7, <1>9, <3>2
      <4>2. published[i].input < m /\ (published[i].fate = "entered" => published[i].child < m)
        BY <2>1, <3>2, <4>1
      <4>3. published[i].fate = "entered" => published[i].child \in Nat
        <5>1. i \in 1..Len(published)
        BY <1>7, <3>2
      <5>2. published[i] \in Entries
        BY <5>1 DEF Reached, TypeOK
      <5> QED
        BY <5>2 DEF Entries
      <4> QED
        BY <1>6, <1>13, <4>1, <4>2, <4>3
    <3> QED
      BY <1>11, <3>1, <3>2
  <2> QED
    BY <1>7, <2>2 DEF EnteredIn
<1>14. Reading' /\ Done' = Position' /\ Position' = Len(text[c])
  BY <1>2, <1>6, <1>7, <1>8 DEF Reading, Done, Executing, Position
<1>15. ASSUME NEW n \in 1..Len(text), n < m
       PROVE  Owed(n)' = Owed(n)
  <2>1. n # Current /\ text'[n] = text[n]
    BY <1>5, <1>6, <1>8, <1>15
  <2> QED
    BY <1>7, <1>12, <1>14, <1>15, <2>1 DEF Owed
<1>16. ASSUME NEW n \in 1..Len(text'), n < m
       PROVE  PiecesAre(published', n, Owed(n)')
  <2>0. n \in 1..Len(text)
    BY <1>8
  <2>1. PiecesAre(published, n, Owed(n)) /\ Owed(n)' = Owed(n)
    BY <1>10, <1>15, <1>16, <2>0
  <2>2. PICK o : o = Owed(n)
    OBVIOUS
  <2>3. ASSUME NEW i \in 1..p, published'[i].input = n
        PROVE  published'[i].at \in 1..o
    <3>1. CASE i = p
      <4>1. published[p].input = n /\ published'[p].at = published[p].at
        BY <1>6, <1>7, <2>3, <3>1
      <4> QED
        BY <1>6, <2>1, <2>2, <3>1, <4>1 DEF PiecesAre
    <3>2. CASE i \in 1..(p - 1)
      BY <1>7, <2>1, <2>2, <2>3, <3>2 DEF PiecesAre
    <3> QED
      BY <1>11, <3>1, <3>2
  <2>4. ASSUME NEW a \in 1..o
        PROVE  \E i \in 1..p : published'[i].input = n /\ published'[i].at = a
    <3>1. PICK i \in 1..Len(published) : published[i].input = n /\ published[i].at = a
      BY <2>1, <2>2 DEF PiecesAre
    <3>2. ~(i > p)
      BY <1>6, <1>16, <3>1
    <3>3. CASE i = p
      BY <1>6, <1>7, <3>1, <3>3
    <3>4. CASE i \in 1..(p - 1)
      <4>1. i \in 1..p
        BY <1>6, <3>4
      <4> QED
        BY <1>7, <3>1, <3>4, <4>1
    <3> QED
      BY <1>6, <3>2, <3>3, <3>4
  <2> QED
    BY <1>7, <2>1, <2>2, <2>3, <2>4 DEF PiecesAre
<1>17. ASSUME NEW n \in 1..Len(text'), n >= m
       PROVE  PiecesAre(published', n, Owed(n)')
  <2>1. n # 1 /\ n \in 1..Len(text)
    BY <1>6, <1>8, <1>17
  <2>2. ~EnteredIn(published', n) /\ \A i \in 1..p : published'[i].input # n
    BY <1>13, <1>17, <2>1
  <2>3. Owed(n)' = 0
    BY <2>1, <2>2 DEF Owed
  <2> QED
    BY <1>7, <2>2, <2>3 DEF PiecesAre
<1>18. Ordered(published')
  <2> SUFFICES ASSUME NEW i \in 1..p, NEW j \in 1..p, i < j, published'[i].input = published'[j].input
               PROVE  published'[i].at < published'[j].at
    BY <1>7 DEF Ordered
  <2>1. i \in 1..(p - 1) /\ i \in 1..Len(published) /\ j \in 1..Len(published)
    BY <1>6
  <2>2. published'[i] = published[i]
    BY <1>7, <2>1
  <2>3. published'[j].input = published[j].input /\ published'[j].at = published[j].at
    BY <1>6, <1>7, <1>11
  <2> QED
    BY <1>10, <2>1, <2>2, <2>3 DEF Ordered
<1>19. InPlace(published')
  <2> SUFFICES ASSUME NEW i \in 1..p, NEW j \in 1..p, i < j, published'[i].fate = "entered",
                      published'[j].input = published'[i].child,
                      NEW k \in i..j, published'[k].input = published'[i].input
               PROVE  k = i
    BY <1>7 DEF InPlace
  <2>1. i \in 1..(p - 1) /\ i \in 1..Len(published) /\ j \in 1..Len(published) /\ k \in 1..p
    BY <1>6
  <2>2. published'[i] = published[i]
    BY <1>7, <2>1
  <2>3. published'[j].input = published[j].input /\ published'[k].input = published[k].input
    BY <1>6, <1>7, <1>11, <2>1
  <2> QED
    BY <1>10, <2>1, <2>2, <2>3 DEF InPlace
<1>20. \A n \in 1..Len(text') : n < m \/ n >= m
  BY <1>6, <1>8
<1> QED
  BY <1>16, <1>17, <1>18, <1>19, <1>20 DEF Pieces, PiecesAre, Ordered, InPlace

LEMMA PiecesInit ==
  ASSUME Init
  PROVE  Pieces
<1>1. text = <<<<>>>> /\ published = <<>> /\ mode = Executing /\ stop = "no"
      /\ inputs = <<[input |-> 1, groups |-> <<>>, conditionals |-> <<>>, published |-> 0]>>
  BY DEF Init
<1>2. Len(published) = 0 /\ Len(text) = 1 /\ text[1] = <<>> /\ Len(text[1]) = 0
  BY <1>1
<1>3. Reached /\ Reading
  BY <1>1, ReachedInit DEF Reading
<1>4. Current = 1
  BY <1>2, <1>3, CurrentEntered
<1>5. Owed(1) = 0
  BY <1>1, <1>2, <1>3, <1>4 DEF Owed, Done, Position, Executing
<1>6. \A n \in 1..Len(text) : n = 1
  BY <1>2
<1> QED
  BY <1>2, <1>5, <1>6 DEF Pieces, PiecesAre, Ordered, InPlace

LEMMA PiecesStutter ==
  ASSUME Pieces, UNCHANGED vars
  PROVE  Pieces'
<1>1. /\ text' = text /\ inputs' = inputs /\ mode' = mode /\ published' = published /\ remainder' = remainder
      /\ stop' = stop
  BY DEF vars
<1>2. Current' = Current /\ Position' = Position /\ (Reading' <=> Reading)
  BY <1>1 DEF Current, Position, Reading
<1>3. Done' = Done
  BY <1>1, <1>2 DEF Done
<1>4. \A n : EnteredIn(published, n)' <=> EnteredIn(published, n)
  BY <1>1 DEF EnteredIn
<1>5. \A n : Owed(n)' = Owed(n)
  BY <1>1, <1>2, <1>3, <1>4 DEF Owed
<1>6. \A n \in 1..Len(text) : PiecesAre(published, n, Owed(n)) => PiecesAre(published, n, Owed(n))'
  BY <1>1, <1>5 DEF PiecesAre
<1>7. (Ordered(published) => Ordered(published)') /\ (InPlace(published) => InPlace(published)')
  BY <1>1 DEF Ordered, InPlace
<1> QED
  BY <1>1, <1>6, <1>7 DEF Pieces

LEMMA PiecesStep ==
  ASSUME Reached, Reached', Pieces, Next
  PROVE  Pieces'
<1>1. Reading
  BY NextReads
<1>2. CASE ReadsOn
  BY <1>1, <1>2, ReadsOnPieces
<1>3. CASE Retains
  BY <1>1, <1>3, RetainsPiecesKept
<1>4. CASE \E t \in Tokens : EnterInput(t)
  BY <1>4, EntersPiecesKept
<1>5. CASE LeaveInput
  BY <1>5, LeavesPieces
<1> QED
  BY <1>2, <1>3, <1>4, <1>5, StepReads

(* What is owed is what the specification says is accounted for. *)
LEMMA OwedIsAccounted ==
  ASSUME Reached, NEW n \in 1..Len(text)
  PROVE  Accounted(n) = Owed(n)
<1>1. DOMAIN published = 1..Len(published)
  BY DEF Reached, TypeOK
<1>2. (\E e \in ToSet(published) : e.fate = "entered" /\ e.child = n) <=> EnteredIn(published, n)
  BY <1>1 DEF ToSet, EnteredIn
<1>3. /\ mode.scan \in {"none", "pending", "skip", "capture"}
      /\ mode = Pending <=> mode.scan = "pending"
  BY ModeFacts DEF Reached
<1>4. ~Reading => Current = 1
  <2>1. ~Reading => Len(inputs) = 1
    BY DEF Reached, Cursor
  <2> QED
    BY <2>1, CursorFacts DEF Reached, Placed, InputsNest
<1>5. CASE n # 1 /\ ~EnteredIn(published, n)
  <2>1. n # Current
    BY <1>5, CurrentEntered
  <2> QED
    BY <1>2, <1>5, <2>1 DEF Accounted, Owed
<1>6. CASE ~(n # 1 /\ ~EnteredIn(published, n)) /\ ~Reading
  <2>1. CASE n = 1
    BY <1>4, <1>6, <2>1 DEF Accounted, Owed
  <2>2. CASE n # 1
    BY <1>2, <1>4, <1>6, <2>2 DEF Accounted, Owed
  <2> QED
    BY <2>1, <2>2
<1>7. CASE ~(n # 1 /\ ~EnteredIn(published, n)) /\ Reading /\ n # Current
  BY <1>2, <1>7 DEF Accounted, Owed
<1>8. CASE ~(n # 1 /\ ~EnteredIn(published, n)) /\ Reading /\ n = Current
  <2>1. Owed(n) = Done
    BY <1>8 DEF Owed
  <2>2. CASE mode.scan \in {"skip", "capture"}
    <3>1. mode # Pending
      BY <1>3, <2>2
    <3>2. Accounted(n) = mode.start - 1
      BY <1>2, <1>8, <2>2, <3>1 DEF Accounted
    <3> QED
      BY <2>1, <2>2, <3>2 DEF Done
  <2>3. CASE mode.scan = "pending"
    <3>1. mode = Pending /\ mode.scan \notin {"skip", "capture"}
      BY <1>3, <2>3
    <3>2. Accounted(n) = Len(text[n]) - 1
      BY <1>2, <1>8, <3>1 DEF Accounted
    <3> QED
      BY <1>8, <2>1, <2>3, <3>2 DEF Done, Position
  <2>4. CASE mode.scan = "none"
    <3>1. mode # Pending /\ mode.scan \notin {"skip", "capture"}
      BY <1>3, <2>4
    <3>2. Accounted(n) = Len(text[n])
      BY <1>2, <1>8, <3>1 DEF Accounted
    <3> QED
      BY <1>8, <2>1, <2>4, <3>2 DEF Done, Position
  <2> QED
    BY <1>3, <2>2, <2>3, <2>4
<1> QED
  BY <1>5, <1>6, <1>7, <1>8

(* The pieces of each input are its tokens, once each and in order, up to   *)
(* the cursor or the preserved remainder, and stand where it was entered.   *)
THEOREM DispatcherLosesNothing == Spec => []NothingLost
<1> DEFINE Inv == Reached /\ Pieces
<1>1. Init => Inv
  BY ReachedInit, PiecesInit
<1>2. Inv /\ [Next]_vars => Inv'
  <2>1. ASSUME Inv, Next
        PROVE  Inv'
    BY <2>1, ReachedStep, PiecesStep
  <2>2. ASSUME Inv, UNCHANGED vars
        PROVE  Inv'
    BY <2>2, ReachedStutters, PiecesStutter
  <2> QED
    BY <2>1, <2>2
<1>3. Inv => NothingLost
  <2> SUFFICES ASSUME Reached, Pieces
               PROVE  NothingLost
    OBVIOUS
  <2>1. DOMAIN published = 1..Len(published) /\ DOMAIN text = 1..Len(text)
    BY DEF Reached, TypeOK
  <2>2. ASSUME NEW n \in 1..Len(text)
        PROVE  { e.at : e \in { d \in ToSet(published) : d.input = n } } = 1..Accounted(n)
    <3>1. PiecesAre(published, n, Accounted(n))
      BY <2>2, OwedIsAccounted DEF Pieces
    <3>2. PICK m : m = Accounted(n)
      OBVIOUS
    <3>3. { e.at : e \in { d \in ToSet(published) : d.input = n } }
             = { published[i].at : i \in { j \in 1..Len(published) : published[j].input = n } }
      BY <2>1 DEF ToSet
    <3>4. { published[i].at : i \in { j \in 1..Len(published) : published[j].input = n } } = 1..m
      BY <3>1, <3>2 DEF PiecesAre
    <3> QED
      BY <3>2, <3>3, <3>4
  <2> QED
    BY <2>1, <2>2 DEF NothingLost, Pieces, Ordered, InPlace
<1> HIDE DEF Inv
<1> QED
  BY <1>1, <1>2, <1>3, PTL DEF Spec
==============================================================================
