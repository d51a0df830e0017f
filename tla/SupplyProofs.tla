---------------------------- MODULE SupplyProofs ----------------------------
(***************************************************************************)
(* SupplyBounded, for every set of accounts, transactions and blocks: the  *)
(* genesis file is all the Ether there is.  First what SumFunction         *)
(* computes, then the argument.                                            *)
(***************************************************************************)
EXTENDS EvmStateProofs, DataInduction, FiniteSetTheorems

-----------------------------------------------------------------------------
(* Sums over finite sets *)

\* The order in which SumFunctionOnSet takes the members of a set, and the equation
\* it solves.
Pick(s) == CHOOSE x \in s : TRUE
Adds(g, f, S) ==
    g = [s \in SUBSET S |-> IF s = {} THEN 0 ELSE f[Pick(s)] + g[s \ {Pick(s)}]]

LEMMA SumDef ==
    ASSUME NEW f, NEW S
    PROVE  SumFunctionOnSet(f, S) = (CHOOSE g : Adds(g, f, S))[S]
BY DEF SumFunctionOnSet, FoldFunctionOnSet, MapThenFoldSet, Adds, Pick

\* Of sets within a finite set there is one with no smaller one among them.
LEMMA SmallestSet ==
    ASSUME NEW S, IsFiniteSet(S), NEW B, B \subseteq SUBSET S, B # {}
    PROVE  \E s \in B : IsFiniteSet(s) /\ \A x \in s : s \ {x} \notin B
<1> DEFINE T == {Cardinality(s) : s \in B}
<1>1. \A s \in B : IsFiniteSet(s) /\ Cardinality(s) \in Nat
  BY FS_Subset, FS_CardinalityType
<1>2. T \subseteq Nat /\ T # {} BY <1>1
<1>3. PICK n \in T : \A m \in T : n <= m
  <2> HIDE DEF T
  <2> QED BY <1>2, LeastNat
<1>4. PICK s \in B : Cardinality(s) = n BY <1>3
<1>5. ASSUME NEW x \in s, s \ {x} \in B PROVE FALSE
  <2>1. Cardinality(s \ {x}) = Cardinality(s) - 1
    BY <1>1, <1>4, FS_RemoveElement
  <2>2. Cardinality(s) <= Cardinality(s \ {x}) BY <1>3, <1>4, <1>5
  <2> QED BY <1>1, <1>4, <2>1, <2>2
<1> QED BY <1>1, <1>4, <1>5

\* Pick picks a member.
LEMMA PickLemma == ASSUME NEW s, s # {} PROVE Pick(s) \in s
BY DEF Pick

\* The equation has a solution.
LEMMA AddsExists ==
    ASSUME NEW S, IsFiniteSet(S), NEW f, \A x \in S : f[x] \in Int
    PROVE  \E g \in [SUBSET S -> Int] : Adds(g, f, S)
<1> DEFINE n == Cardinality(S)
           Value(g, s) == IF s = {} THEN 0 ELSE f[Pick(s)] + g[s \ {Pick(s)}]
           Upto(g, k) == \A s \in SUBSET S : Cardinality(s) <= k => g[s] = Value(g, s)
           Good == {k \in 0..n : \E g \in [SUBSET S -> Int] : Upto(g, k)}
<1>0. n \in Nat BY FS_CardinalityType
<1>1. \A s \in SUBSET S : /\ IsFiniteSet(s) /\ Cardinality(s) \in 0..n
                          /\ s = {} <=> Cardinality(s) = 0
  BY FS_Subset, FS_CardinalityType, FS_EmptySet
<1>2. ASSUME NEW s \in SUBSET S, s # {}
      PROVE  /\ Pick(s) \in S /\ s \ {Pick(s)} \in SUBSET S
             /\ Cardinality(s \ {Pick(s)}) = Cardinality(s) - 1
  BY <1>1, <1>2, PickLemma, FS_RemoveElement
<1>3. ASSUME NEW g \in [SUBSET S -> Int], NEW s \in SUBSET S PROVE Value(g, s) \in Int
  <2>1. CASE s = {} BY <2>1
  <2>2. CASE s # {}
    <3> DEFINE x == Pick(s)
               r == s \ {x}
    <3>1. x \in S /\ r \in SUBSET S BY <1>2, <2>2
    <3>2. Value(g, s) = f[x] + g[r] BY <2>2
    <3> HIDE DEF x, r, Value
    <3>3. f[x] \in Int /\ g[r] \in Int BY <3>1
    <3> QED BY <3>2, <3>3
  <2> QED BY <2>1, <2>2
<1>4. 0 \in Good
  <2> DEFINE g == [s \in SUBSET S |-> 0]
  <2>1. g \in [SUBSET S -> Int] OBVIOUS
  <2>2. ASSUME NEW s \in SUBSET S, Cardinality(s) <= 0 PROVE g[s] = Value(g, s)
    <3>1. s = {} BY <1>1, <2>2
    <3> QED BY <3>1
  <2>3. Upto(g, 0) BY <2>2
  <2> HIDE DEF g, Upto
  <2> QED BY <1>0, <2>1, <2>3
<1>5. ASSUME NEW k \in 0..(n - 1), k \in Good PROVE k + 1 \in Good
  <2>1. PICK g \in [SUBSET S -> Int] : Upto(g, k)
    <3> HIDE DEF Upto
    <3> QED BY <1>5
  <2> DEFINE h == [s \in SUBSET S |-> Value(g, s)]
  <2>2. h \in [SUBSET S -> Int]
    <3> HIDE DEF Value
    <3> QED BY <1>3
  <2>3. ASSUME NEW s \in SUBSET S, Cardinality(s) <= k + 1 PROVE h[s] = Value(h, s)
    <3>1. h[s] = Value(g, s) OBVIOUS
    <3>2. CASE s = {} BY <3>1, <3>2
    <3>3. CASE s # {}
      <4>1. Cardinality(s \ {Pick(s)}) <= k BY <1>0, <1>1, <1>2, <2>3, <3>3
      <4>2. h[s \ {Pick(s)}] = g[s \ {Pick(s)}] BY <1>2, <2>1, <3>3, <4>1
      <4> QED BY <3>1, <3>3, <4>2
    <3> QED BY <3>2, <3>3
  <2>4. Upto(h, k + 1) BY <2>3
  <2>5. k + 1 \in 0..n BY <1>0
  <2> HIDE DEF h, Upto
  <2> QED BY <2>2, <2>4, <2>5
<1>6. n \in Good
  <2> HIDE DEF Good
  <2> QED BY <1>0, <1>4, <1>5, UpTo
<1>7. PICK g \in [SUBSET S -> Int] : Upto(g, n)
  <2> HIDE DEF Upto
  <2> QED BY <1>6
<1>8. \A s \in SUBSET S : g[s] = Value(g, s) BY <1>0, <1>1, <1>7
<1>9. g = [s \in SUBSET S |-> Value(g, s)] BY <1>8
<1> QED BY <1>9 DEF Adds

\* Two solutions agree where both are defined.
LEMMA AddsAgree ==
    ASSUME NEW S, IsFiniteSet(S), NEW T \in SUBSET S, NEW f, NEW g, NEW h,
           Adds(g, f, S), Adds(h, f, T)
    PROVE  \A s \in SUBSET T : g[s] = h[s]
<1> DEFINE B == {s \in SUBSET T : g[s] # h[s]}
<1>1. \A s \in SUBSET T :
         /\ g[s] = IF s = {} THEN 0 ELSE f[Pick(s)] + g[s \ {Pick(s)}]
         /\ h[s] = IF s = {} THEN 0 ELSE f[Pick(s)] + h[s \ {Pick(s)}]
  BY DEF Adds
<1> SUFFICES ASSUME B # {} PROVE FALSE OBVIOUS
<1>2. PICK s \in B : \A x \in s : s \ {x} \notin B
  <2>1. B \subseteq SUBSET S OBVIOUS
  <2> HIDE DEF B
  <2> QED BY <2>1, SmallestSet
<1>3. s # {} BY <1>1, <1>2
<1>4. g[s \ {Pick(s)}] = h[s \ {Pick(s)}] BY <1>2, <1>3, PickLemma
<1> QED BY <1>1, <1>2, <1>3, <1>4

\* The equations of a sum, in the order of Pick.
LEMMA SumPick ==
    ASSUME NEW S, IsFiniteSet(S), NEW f, \A x \in S : f[x] \in Int
    PROVE  /\ SumFunctionOnSet(f, S) \in Int
           /\ S = {} => SumFunctionOnSet(f, S) = 0
           /\ S # {} => SumFunctionOnSet(f, S)
                          = f[Pick(S)] + SumFunctionOnSet(f, S \ {Pick(S)})
<1> DEFINE G(T) == CHOOSE g : Adds(g, f, T)
<1>1. ASSUME NEW T \in SUBSET S
      PROVE  /\ Adds(G(T), f, T) /\ G(T)[T] \in Int
             /\ SumFunctionOnSet(f, T) = G(T)[T]
  <2>1. IsFiniteSet(T) /\ \A x \in T : f[x] \in Int BY FS_Subset
  <2>2. PICK g \in [SUBSET T -> Int] : Adds(g, f, T) BY <2>1, AddsExists
  <2>3. Adds(G(T), f, T) BY <2>2
  <2> HIDE DEF G
  <2>4. G(T)[T] = g[T] BY <2>1, <2>2, <2>3, AddsAgree
  <2> QED BY <2>2, <2>3, <2>4, SumDef DEF G
<1> HIDE DEF G
<1>2. S = {} => SumFunctionOnSet(f, S) = 0 BY <1>1 DEF Adds
<1>3. ASSUME S # {}
      PROVE  SumFunctionOnSet(f, S) = f[Pick(S)] + SumFunctionOnSet(f, S \ {Pick(S)})
  <2> DEFINE T == S \ {Pick(S)}
  <2>1. T \in SUBSET S OBVIOUS
  <2>2. G(S)[S] = f[Pick(S)] + G(S)[T] BY <1>1, <1>3 DEF Adds
  <2>3. G(S)[T] = G(T)[T]
    <3>1. Adds(G(S), f, S) /\ Adds(G(T), f, T) BY <1>1, <2>1
    <3> HIDE DEF T
    <3> QED BY <2>1, <3>1, AddsAgree
  <2> QED BY <1>1, <2>1, <2>2, <2>3
<1> QED BY <1>1, <1>2, <1>3

\* A sum is the same whichever member is taken first.
LEMMA SumTake ==
    ASSUME NEW S, IsFiniteSet(S), NEW f, \A x \in S : f[x] \in Int, NEW a \in S
    PROVE  SumFunctionOnSet(f, S) = f[a] + SumFunctionOnSet(f, S \ {a})
<1> DEFINE Sm(s) == SumFunctionOnSet(f, s)
           B == {s \in SUBSET S : \E b \in s : Sm(s) # f[b] + Sm(s \ {b})}
<1> HIDE DEF Sm
<1>1. ASSUME NEW s \in SUBSET S
      PROVE  Sm(s) \in Int /\ (s # {} => Sm(s) = f[Pick(s)] + Sm(s \ {Pick(s)}))
  <2>1. IsFiniteSet(s) /\ \A x \in s : f[x] \in Int BY FS_Subset
  <2> QED BY <2>1, SumPick DEF Sm
<1>2. ASSUME B # {} PROVE FALSE
  <2>1. PICK s \in B : \A x \in s : s \ {x} \notin B
    <3>1. B \subseteq SUBSET S OBVIOUS
    <3> HIDE DEF B
    <3> QED BY <1>2, <3>1, SmallestSet
  <2>2. PICK b \in s : Sm(s) # f[b] + Sm(s \ {b}) BY <2>1
  <2> DEFINE x == Pick(s)
  <2>3. s # {} /\ x \in s /\ x # b /\ Sm(s) = f[x] + Sm(s \ {x})
    BY <1>1, <2>1, <2>2, PickLemma
  <2> HIDE DEF x
  <2>4. Sm(s \ {x}) = f[b] + Sm((s \ {x}) \ {b})
    <3>1. s \ {x} \notin B /\ s \ {x} \in SUBSET S /\ b \in s \ {x} BY <2>1, <2>3
    <3> QED BY <3>1
  <2>5. Sm(s \ {b}) = f[x] + Sm((s \ {b}) \ {x})
    <3>1. s \ {b} \notin B /\ s \ {b} \in SUBSET S /\ x \in s \ {b} BY <2>1, <2>3
    <3> QED BY <3>1
  <2>6. (s \ {x}) \ {b} = (s \ {b}) \ {x} OBVIOUS
  <2>7. f[x] \in Int /\ f[b] \in Int /\ Sm((s \ {b}) \ {x}) \in Int
    <3>1. (s \ {b}) \ {x} \in SUBSET S BY <2>1
    <3> QED BY <1>1, <2>1, <2>3, <3>1
  <2> DEFINE r == Sm((s \ {b}) \ {x})
  <2>8. /\ Sm(s) = f[x] + (f[b] + r) /\ Sm(s \ {b}) = f[x] + r
        /\ f[x] \in Int /\ f[b] \in Int /\ r \in Int
    BY <2>3, <2>4, <2>5, <2>6, <2>7
  <2> HIDE DEF r
  <2>9. f[x] + (f[b] + r) = f[b] + (f[x] + r) BY <2>8
  <2> QED BY <2>2, <2>8, <2>9
<1>3. S \notin B BY <1>2
<1> QED BY <1>3 DEF Sm

\* A smaller function has a smaller sum.
LEMMA SumMonotone ==
    ASSUME NEW S, IsFiniteSet(S), NEW f, NEW g,
           \A x \in S : f[x] \in Int /\ g[x] \in Int /\ f[x] <= g[x]
    PROVE  SumFunctionOnSet(f, S) <= SumFunctionOnSet(g, S)
<1> DEFINE F(s) == SumFunctionOnSet(f, s)
           G(s) == SumFunctionOnSet(g, s)
           B == {s \in SUBSET S : ~(F(s) <= G(s))}
<1> HIDE DEF F, G
<1>1. ASSUME NEW s \in SUBSET S
      PROVE  /\ F(s) \in Int /\ G(s) \in Int /\ (s = {} => F(s) = 0 /\ G(s) = 0)
             /\ s # {} => /\ F(s) = f[Pick(s)] + F(s \ {Pick(s)})
                          /\ G(s) = g[Pick(s)] + G(s \ {Pick(s)})
  <2>1. IsFiniteSet(s) /\ \A x \in s : f[x] \in Int /\ g[x] \in Int BY FS_Subset
  <2> QED BY <2>1, SumPick DEF F, G
<1>2. ASSUME B # {} PROVE FALSE
  <2>1. PICK s \in B : \A x \in s : s \ {x} \notin B
    <3>1. B \subseteq SUBSET S OBVIOUS
    <3> HIDE DEF B
    <3> QED BY <1>2, <3>1, SmallestSet
  <2>2. s # {}
    <3> SUFFICES ASSUME s = {} PROVE FALSE OBVIOUS
    <3>1. F(s) = 0 /\ G(s) = 0 BY <1>1, <2>1
    <3>2. ~(F(s) <= G(s)) BY <2>1
    <3> QED BY <3>1, <3>2
  <2> DEFINE x == Pick(s)
             r == s \ {x}
  <2>3. x \in s /\ F(s) = f[x] + F(r) /\ G(s) = g[x] + G(r)
    BY <1>1, <2>1, <2>2, PickLemma
  <2> HIDE DEF x
  <2>4. F(r) <= G(r) /\ F(r) \in Int /\ G(r) \in Int BY <1>1, <2>1, <2>3
  <2>5. f[x] \in Int /\ g[x] \in Int /\ f[x] <= g[x] BY <2>1, <2>3
  <2> HIDE DEF r
  <2>6. F(s) <= G(s) BY <2>3, <2>4, <2>5
  <2> QED BY <2>1, <2>6
<1>3. S \notin B BY <1>2
<1> QED BY <1>3 DEF F, G

\* The sums of f and g differ as the functions do at a.
DifferBy(f, g, S, a) ==
    /\ SumFunctionOnSet(f, S) \in Int /\ SumFunctionOnSet(g, S) \in Int
    /\ SumFunctionOnSet(g, S) = (SumFunctionOnSet(f, S) - f[a]) + g[a]

\* Functions that differ at one place have sums that differ as they do there.
LEMMA SumChange ==
    ASSUME NEW S, IsFiniteSet(S), NEW f, NEW g, NEW a \in S,
           \A x \in S : f[x] \in Int /\ g[x] \in Int,
           \A x \in S : x # a => f[x] = g[x]
    PROVE  DifferBy(f, g, S, a)
<1> DEFINE T == S \ {a}
           F == SumFunctionOnSet(f, T)
           G == SumFunctionOnSet(g, T)
<1>1. IsFiniteSet(T) BY FS_Subset
<1>2. \A x \in T : /\ f[x] \in Int /\ g[x] \in Int
                   /\ f[x] <= g[x] /\ g[x] <= f[x]
  OBVIOUS
<1>3. F <= G /\ G <= F /\ F \in Int /\ G \in Int
  <2> HIDE DEF T
  <2> QED BY <1>1, <1>2, SumMonotone, SumPick
<1>4. SumFunctionOnSet(f, S) = f[a] + F /\ SumFunctionOnSet(g, S) = g[a] + G
  BY SumTake
<1>5. f[a] \in Int /\ g[a] \in Int OBVIOUS
<1> HIDE DEF F, G
<1> QED BY <1>3, <1>4, <1>5 DEF DifferBy

\* Where a function is 0 it adds nothing to a sum.
LEMMA SumZero ==
    ASSUME NEW S, IsFiniteSet(S), NEW D \in SUBSET S, NEW f, NEW g,
           \A x \in S : f[x] \in Int,
           \A x \in D : g[x] = f[x], \A x \in S \ D : f[x] = 0
    PROVE  SumFunctionOnSet(f, S) = SumFunctionOnSet(g, D)
<1> DEFINE F(s) == SumFunctionOnSet(f, s)
           G(s) == SumFunctionOnSet(g, s)
           B == {s \in SUBSET S : F(s) # G(s \cap D)}
<1> HIDE DEF F, G
<1>1. ASSUME NEW s \in SUBSET S
      PROVE  /\ F(s) \in Int /\ G(s \cap D) \in Int
             /\ s = {} => F(s) = 0 /\ G(s \cap D) = 0
             /\ \A x \in s : F(s) = f[x] + F(s \ {x})
             /\ \A x \in s \cap D : G(s \cap D) = g[x] + G((s \cap D) \ {x})
  <2>1. IsFiniteSet(s) /\ IsFiniteSet(s \cap D) BY FS_Subset
  <2>2. /\ \A x \in s : f[x] \in Int
        /\ \A x \in s \cap D : g[x] \in Int
    OBVIOUS
  <2>3. F(s) \in Int /\ (s = {} => F(s) = 0) BY <2>1, <2>2, SumPick DEF F
  <2>4. G(s \cap D) \in Int /\ (s \cap D = {} => G(s \cap D) = 0)
    BY <2>1, <2>2, SumPick DEF G
  <2>5. \A x \in s : F(s) = f[x] + F(s \ {x}) BY <2>1, <2>2, SumTake DEF F
  <2>6. \A x \in s \cap D : G(s \cap D) = g[x] + G((s \cap D) \ {x})
    BY <2>1, <2>2, SumTake DEF G
  <2> QED BY <2>3, <2>4, <2>5, <2>6
<1>2. ASSUME B # {} PROVE FALSE
  <2>1. PICK s \in B : \A x \in s : s \ {x} \notin B
    <3>1. B \subseteq SUBSET S OBVIOUS
    <3> HIDE DEF B
    <3> QED BY <1>2, <3>1, SmallestSet
  <2>2. s # {} BY <1>1, <2>1
  <2>3. PICK x \in s : TRUE BY <2>2
  <2> DEFINE r == s \ {x}
  <2>4. /\ F(r) = G(r \cap D) /\ F(r) \in Int /\ F(s) = f[x] + F(r)
    BY <1>1, <2>1, <2>3
  <2>5. CASE x \in D
    <3>1. (s \cap D) \ {x} = r \cap D OBVIOUS
    <3>2. G(s \cap D) = f[x] + G(r \cap D) BY <1>1, <2>1, <2>3, <2>5, <3>1
    <3> QED BY <2>1, <2>4, <3>2
  <2>6. CASE x \notin D
    <3>1. s \cap D = r \cap D BY <2>6
    <3>2. f[x] = 0 BY <2>1, <2>3, <2>6
    <3> HIDE DEF r
    <3>3. F(s) = F(r) BY <2>4, <3>2
    <3> QED BY <2>1, <2>4, <3>1, <3>3
  <2> QED BY <2>5, <2>6
<1>3. S \notin B BY <1>2
<1>4. S \cap D = D OBVIOUS
<1> QED BY <1>3, <1>4 DEF F, G

-----------------------------------------------------------------------------
(* The argument.  An allocated account that has never sent a transaction may be *)
(* credited (again) by CreateAccounts once it is empty; it can be empty because *)
(* a rejected transaction burns gas without incrementing the nonce.  So what is *)
(* bounded is not the balances but what they can still become: such an account  *)
(* counts for its allocation at least.                                          *)

Larger(m, n) == IF m < n THEN n ELSE m

\* What an account counts for; P are the accounts that CreateAccounts will credit.
Claim(P, l) ==
    [a \in Addr |->
        IF a \in P THEN l[a].balance + Alloc[a]
        ELSE IF a \in DOMAIN Alloc /\ l[a].nonce = 0 THEN Larger(l[a].balance, Alloc[a])
        ELSE l[a].balance]

Claims(P, l) == SumFunction(Claim(P, l))

\* The accounts that this process has still to credit.
Promised == {a \in DOMAIN Alloc : genesis = "pending" /\ ~Exists(ethState, a)}

SupplyInv ==
    /\ Claims({}, dbRoot) <= SumFunction(Alloc)
    /\ pc # "down" => Claims(Promised, wasState) <= SumFunction(Alloc)

\* The claim of an account, as a number.
LEMMA ClaimAt ==
    ASSUME NEW l \in Ledger, NEW P \in SUBSET DOMAIN Alloc, NEW a \in Addr
    PROVE  /\ Claim(P, l)[a] \in Nat /\ DOMAIN Claim(P, l) = Addr
           /\ l[a].balance \in Nat /\ l[a].nonce \in Nat
           /\ a \in DOMAIN Alloc => Alloc[a] \in Nat
           /\ a \in P => a \in DOMAIN Alloc /\ Claim(P, l)[a] = l[a].balance + Alloc[a]
           /\ a \notin P /\ a \in DOMAIN Alloc /\ l[a].nonce = 0 =>
                 Claim(P, l)[a] = Larger(l[a].balance, Alloc[a])
           /\ a \notin P /\ ~(a \in DOMAIN Alloc /\ l[a].nonce = 0) =>
                 Claim(P, l)[a] = l[a].balance
BY EvmStateAssumption DEF Claim, Ledger, Account, Larger

\* Sums of claims and of the allocation are numbers.
LEMMA ClaimsInt ==
    /\ \A l \in Ledger, P \in SUBSET DOMAIN Alloc : Claims(P, l) \in Int
    /\ SumFunction(Alloc) \in Int
<1>1. IsFiniteSet(Addr) /\ IsFiniteSet(DOMAIN Alloc)
  BY EvmAssumption, EvmStateAssumption, FS_Subset
<1>2. ASSUME NEW l \in Ledger, NEW P \in SUBSET DOMAIN Alloc PROVE Claims(P, l) \in Int
  <2>1. DOMAIN Claim(P, l) = Addr BY DEF Claim
  <2>2. \A a \in Addr : Claim(P, l)[a] \in Int BY ClaimAt
  <2>3. SumFunctionOnSet(Claim(P, l), Addr) \in Int BY <1>1, <2>2, SumPick
  <2> QED BY <2>1, <2>3 DEF Claims, SumFunction
<1>3. SumFunctionOnSet(Alloc, DOMAIN Alloc) \in Int
  <2>1. \A a \in DOMAIN Alloc : Alloc[a] \in Int BY EvmStateAssumption
  <2> QED BY <1>1, <2>1, SumPick
<1> QED BY <1>2, <1>3 DEF SumFunction

\* What is at most the claims of a bounded ledger is bounded.
LEMMA AtMost ==
    ASSUME NEW l \in Ledger, NEW P \in SUBSET DOMAIN Alloc,
           Claims(P, l) <= SumFunction(Alloc), NEW n \in Int, n <= Claims(P, l)
    PROVE  n <= SumFunction(Alloc)
BY ClaimsInt

\* Claims compare as the accounts do.
LEMMA ClaimsMonotone ==
    ASSUME NEW l \in Ledger, NEW m \in Ledger,
           NEW P \in SUBSET DOMAIN Alloc, NEW Q \in SUBSET DOMAIN Alloc,
           \A a \in Addr : Claim(P, l)[a] <= Claim(Q, m)[a]
    PROVE  Claims(P, l) <= Claims(Q, m)
<1>1. IsFiniteSet(Addr) BY EvmAssumption
<1>2. DOMAIN Claim(P, l) = Addr /\ DOMAIN Claim(Q, m) = Addr BY DEF Claim
<1>3. \A a \in Addr : Claim(P, l)[a] \in Int /\ Claim(Q, m)[a] \in Int
  BY ClaimAt
<1>4. SumFunctionOnSet(Claim(P, l), Addr) <= SumFunctionOnSet(Claim(Q, m), Addr)
  BY <1>1, <1>3, SumMonotone
<1> QED BY <1>2, <1>4 DEF Claims, SumFunction

\* When one account changes, the claims change as its claim does.
LEMMA ClaimsChange ==
    ASSUME NEW l \in Ledger, NEW m \in Ledger, NEW P \in SUBSET DOMAIN Alloc,
           NEW a \in Addr, \A x \in Addr \ {a} : m[x] = l[x]
    PROVE  /\ Claims(P, l) \in Int /\ Claims(P, m) \in Int
           /\ Claims(P, m) = (Claims(P, l) - Claim(P, l)[a]) + Claim(P, m)[a]
<1>1. IsFiniteSet(Addr) BY EvmAssumption
<1>2. DOMAIN Claim(P, l) = Addr /\ DOMAIN Claim(P, m) = Addr BY DEF Claim
<1>3. \A x \in Addr : Claim(P, l)[x] \in Int /\ Claim(P, m)[x] \in Int
  BY ClaimAt
<1>4. \A x \in Addr \ {a} : Claim(P, l)[x] = Claim(P, m)[x] BY DEF Claim
<1> DEFINE f == Claim(P, l)
           g == Claim(P, m)
<1>5. /\ \A x \in Addr : f[x] \in Int /\ g[x] \in Int
      /\ \A x \in Addr : x # a => f[x] = g[x]
  BY <1>3, <1>4
<1> HIDE DEF f, g
<1>6. DifferBy(f, g, Addr, a)
  BY <1>1, <1>5, SumChange
<1> QED BY <1>2, <1>6 DEF DifferBy, Claims, SumFunction, f, g

\* A credit adds at most itself, and a covered debit adds nothing; it takes itself
\* away if the account has sent a transaction.
LEMMA CreditClaims ==
    ASSUME NEW l \in Ledger, NEW P \in SUBSET DOMAIN Alloc, NEW a \in Addr, NEW v \in Nat
    PROVE  Claims(P, Credit(l, a, v)) <= Claims(P, l) + v
<1> DEFINE m == Credit(l, a, v)
<1>1. m \in Ledger BY CreditLemma
<1>2. \A x \in Addr \ {a} : m[x] = l[x] BY DEF Credit, Ledger
<1>3. m[a].balance = l[a].balance + v /\ m[a].nonce = l[a].nonce
  BY DEF Credit, Ledger, Account
<1> HIDE DEF m
<1>4. Claim(P, m)[a] <= Claim(P, l)[a] + v BY <1>1, <1>3, ClaimAt DEF Larger
<1>5. /\ Claims(P, l) \in Int /\ Claims(P, m) \in Int
      /\ Claims(P, m) = (Claims(P, l) - Claim(P, l)[a]) + Claim(P, m)[a]
  BY <1>1, <1>2, ClaimsChange
<1>6. Claim(P, l)[a] \in Int /\ Claim(P, m)[a] \in Int BY <1>1, ClaimAt
<1>7. Claims(P, m) <= Claims(P, l) + v BY <1>4, <1>5, <1>6
<1> QED BY <1>7 DEF m

LEMMA DebitClaims ==
    ASSUME NEW l \in Ledger, NEW P \in SUBSET DOMAIN Alloc, NEW a \in Addr, NEW v \in Nat,
           v <= l[a].balance
    PROVE  /\ Claims(P, Debit(l, a, v)) <= Claims(P, l)
           /\ l[a].nonce > 0 => Claims(P, Debit(l, a, v)) <= Claims(P, l) - v
<1> DEFINE m == Debit(l, a, v)
<1>1. m \in Ledger BY DebitLemma
<1>2. \A x \in Addr \ {a} : m[x] = l[x] BY DEF Debit, Ledger
<1>3. m[a].balance = l[a].balance - v /\ m[a].nonce = l[a].nonce
  BY DEF Debit, Ledger, Account
<1> HIDE DEF m
<1>4. /\ Claim(P, m)[a] <= Claim(P, l)[a]
      /\ l[a].nonce > 0 => Claim(P, m)[a] <= Claim(P, l)[a] - v
  BY <1>1, <1>3, ClaimAt DEF Larger
<1>5. /\ Claims(P, l) \in Int /\ Claims(P, m) \in Int
      /\ Claims(P, m) = (Claims(P, l) - Claim(P, l)[a]) + Claim(P, m)[a]
  BY <1>1, <1>2, ClaimsChange
<1>6. Claim(P, l)[a] \in Int /\ Claim(P, m)[a] \in Int BY <1>1, ClaimAt
<1>7. /\ Claims(P, m) <= Claims(P, l)
      /\ l[a].nonce > 0 => Claims(P, m) <= Claims(P, l) - v
  BY <1>4, <1>5, <1>6
<1> QED BY <1>7 DEF m

\* A debit with the nonce takes itself away.
LEMMA SpendClaims ==
    ASSUME NEW l \in Ledger, NEW P \in SUBSET DOMAIN Alloc, NEW a \in Addr, NEW v \in Nat,
           v <= l[a].balance
    PROVE  Claims(P, BumpNonce(Debit(l, a, v), a)) <= Claims(P, l) - v
<1> DEFINE d == Debit(l, a, v)
           m == BumpNonce(d, a)
<1>1. d \in Ledger BY DebitLemma
<1>2. m \in Ledger BY <1>1, BumpLemma
<1>3. \A x \in Addr \ {a} : m[x] = l[x] BY DEF Debit, BumpNonce, Ledger
<1>4. m[a].balance = l[a].balance - v /\ m[a].nonce > 0
  <2>1. d[a].balance = l[a].balance - v /\ d[a].nonce \in Nat
    BY <1>1, DebitLemma DEF Ledger, Account
  <2> HIDE DEF d
  <2> QED BY <1>1, <2>1, BumpLemma
<1> HIDE DEF m
<1>5. Claim(P, m)[a] <= Claim(P, l)[a] - v BY <1>2, <1>4, ClaimAt DEF Larger
<1>6. /\ Claims(P, l) \in Int /\ Claims(P, m) \in Int
      /\ Claims(P, m) = (Claims(P, l) - Claim(P, l)[a]) + Claim(P, m)[a]
  BY <1>2, <1>3, ClaimsChange
<1>7. Claim(P, l)[a] \in Int /\ Claim(P, m)[a] \in Int BY <1>2, ClaimAt
<1>8. Claims(P, m) <= Claims(P, l) - v BY <1>5, <1>6, <1>7
<1> QED BY <1>8 DEF m

\* The price of the gas is what is returned and what is paid as the fee.
LEMMA GasPrice ==
    ASSUME NEW t \in Tx
    PROVE  t.gas * t.price = (t.gas - t.used) * t.price + t.used * t.price
<1>1. t.gas \in Int /\ t.used \in Int /\ t.price \in Int
  BY EvmAssumption DEF TxRecord
<1>2. \A g, u, p \in Int : g * p = (g - u) * p + u * p OBVIOUS
<1> QED BY <1>1, <1>2

\* A message that was executed makes no Ether.
LEMMA ExecutedClaims ==
    ASSUME NEW l \in Ledger, NEW gp \in Nat, NEW t \in Tx, NEW P \in SUBSET DOMAIN Alloc,
           CanBuyGas(l, gp, t), Bought(l, t)[t.from].balance >= t.value
    PROVE  Claims(P, Executed(l, t)) <= Claims(P, l)
<1> DEFINE g == t.gas * t.price
           b == (t.gas - t.used) * t.price
           f == t.used * t.price
           n == BumpNonce(Bought(l, t), t.from)
           r == Credit(n, t.from, b)
           p == Credit(r, Coinbase, f)
           d == Debit(p, t.from, t.value)
           c == Credit(d, t.to, t.value)
<1>1. /\ t.from \in Addr /\ t.to \in Addr /\ t.value \in Nat /\ Coinbase \in Addr
      /\ g \in Nat /\ b \in Nat /\ f \in Nat
  BY AmountLemma, EvmAssumption
<1>0. g = b + f BY GasPrice
<1>2. g <= l[t.from].balance BY <1>1 DEF CanBuyGas, Ledger, Account
<1>3. /\ Bought(l, t) \in Ledger
      /\ Claims(P, n) <= Claims(P, l) - g
  BY <1>1, <1>2, DebitLemma, SpendClaims DEF Bought
<1>4. /\ n \in Ledger /\ n[t.from].nonce > 0
      /\ n[t.from].balance = Bought(l, t)[t.from].balance
  <2> DEFINE m == Bought(l, t)
  <2>1. m \in Ledger /\ m[t.from].nonce \in Nat BY <1>1, <1>3 DEF Ledger, Account
  <2> HIDE DEF m
  <2>2. /\ BumpNonce(m, t.from) \in Ledger
        /\ BumpNonce(m, t.from)[t.from].nonce = m[t.from].nonce + 1
        /\ BumpNonce(m, t.from)[t.from].balance = m[t.from].balance
    BY <1>1, <2>1, BumpLemma
  <2> QED BY <2>1, <2>2 DEF m
<1>5. Executed(l, t) = IF t.fails THEN p ELSE c BY DEF Executed
<1> HIDE DEF g, b, f, n
<1>6. /\ r \in Ledger /\ r[t.from].nonce = n[t.from].nonce
      /\ r[t.from].balance >= n[t.from].balance
      /\ Claims(P, r) <= Claims(P, n) + b
  <2>1. Claims(P, r) <= Claims(P, n) + b BY <1>1, <1>4, CreditClaims
  <2>2. /\ r \in Ledger
        /\ \A x \in Addr : r[x].nonce = n[x].nonce
        /\ \A x \in Addr : r[x].balance >= n[x].balance
    BY <1>1, <1>4, CreditLemma
  <2> HIDE DEF r
  <2> QED BY <1>1, <2>1, <2>2
<1> HIDE DEF r
<1>7. /\ p \in Ledger /\ p[t.from].nonce = r[t.from].nonce
      /\ p[t.from].balance >= r[t.from].balance
      /\ Claims(P, p) <= Claims(P, r) + f
  <2>1. Claims(P, p) <= Claims(P, r) + f BY <1>1, <1>6, CreditClaims
  <2>2. /\ p \in Ledger
        /\ \A x \in Addr : p[x].nonce = r[x].nonce
        /\ \A x \in Addr : p[x].balance >= r[x].balance
    BY <1>1, <1>6, CreditLemma
  <2> HIDE DEF p
  <2> QED BY <1>1, <2>1, <2>2
<1> HIDE DEF p
<1>8. t.value <= p[t.from].balance /\ p[t.from].nonce > 0
  <2>1. /\ n[t.from].balance \in Nat /\ r[t.from].balance \in Nat
        /\ p[t.from].balance \in Nat
    BY <1>1, <1>4, <1>6, <1>7 DEF Ledger, Account
  <2> QED BY <1>1, <1>4, <1>6, <1>7, <2>1
<1>9. d \in Ledger /\ Claims(P, d) <= Claims(P, p) - t.value
  BY <1>1, <1>7, <1>8, DebitLemma, DebitClaims
<1> HIDE DEF d
<1>10. c \in Ledger /\ Claims(P, c) <= Claims(P, d) + t.value
  BY <1>1, <1>9, CreditLemma, CreditClaims
<1> HIDE DEF c
<1>11. \A m \in Ledger : Claims(P, m) \in Int BY <1>1, ClaimsChange
<1>12. /\ Claims(P, l) \in Int /\ Claims(P, n) \in Int /\ Claims(P, r) \in Int
       /\ Claims(P, p) \in Int /\ Claims(P, d) \in Int /\ Claims(P, c) \in Int
  BY <1>4, <1>6, <1>7, <1>9, <1>10, <1>11
<1>13. Claims(P, p) <= Claims(P, l) BY <1>0, <1>1, <1>3, <1>6, <1>7, <1>12
<1>14. Claims(P, c) <= Claims(P, l) BY <1>1, <1>9, <1>10, <1>12, <1>13
<1> QED BY <1>5, <1>13, <1>14

\* ApplyMessage makes no Ether, whatever it returns.
LEMMA ApplyClaims ==
    ASSUME NEW l \in Ledger, NEW gp \in Nat, NEW t \in Tx, NEW P \in SUBSET DOMAIN Alloc
    PROVE  Claims(P, ApplyMessage(l, gp, t).ledger) <= Claims(P, l)
<1> DEFINE r == ApplyMessage(l, gp, t)
           n == BumpNonce(Bought(l, t), t.from)
<1>0. /\ t.from \in Addr /\ t.gas \in Nat /\ t.value \in Nat
      /\ t.gas * t.price \in Nat
  BY AmountLemma
<1>1. Claims(P, l) \in Int BY <1>0, ClaimsChange
<1>2. CASE ~NonceOK(l, t) \/ ~CanBuyGas(l, gp, t)
  <2>1. r = [err |-> TRUE, ledger |-> l, gp |-> gp] BY <1>2 DEF ApplyMessage
  <2>2. r.ledger = l BY <2>1
  <2> QED BY <1>1, <2>2
<1>3. ASSUME CanBuyGas(l, gp, t)
      PROVE  /\ Bought(l, t) \in Ledger
             /\ Claims(P, Bought(l, t)) <= Claims(P, l)
             /\ Claims(P, n) <= Claims(P, l)
  <2> DEFINE g == t.gas * t.price
  <2>1. g \in Nat /\ g <= l[t.from].balance /\ Bought(l, t) = Debit(l, t.from, g)
    BY <1>0, <1>3 DEF CanBuyGas, Bought, Ledger, Account
  <2> HIDE DEF g
  <2>2. Bought(l, t) \in Ledger BY <1>0, <2>1, DebitLemma
  <2>3. Claims(P, Bought(l, t)) <= Claims(P, l) BY <1>0, <2>1, DebitClaims
  <2>4. n \in Ledger BY <1>0, <2>2, BumpLemma
  <2>5. Claims(P, n) \in Int BY <1>0, <2>4, ClaimsChange
  <2>6. Claims(P, n) <= Claims(P, l) - g BY <1>0, <2>1, SpendClaims
  <2>7. Claims(P, n) <= Claims(P, l) BY <1>1, <2>1, <2>5, <2>6
  <2> QED BY <2>2, <2>3, <2>7
<1>4. CASE NonceOK(l, t) /\ CanBuyGas(l, gp, t) /\ t.gas < IntrinsicGas
  <2>1. r = [err |-> TRUE, ledger |-> Bought(l, t), gp |-> gp - t.gas]
    <3>1. ~(t.gas >= IntrinsicGas) BY <1>0, <1>4, EvmAssumption
    <3> QED BY <1>4, <3>1 DEF ApplyMessage
  <2>2. r.ledger = Bought(l, t) BY <2>1
  <2> QED BY <1>3, <1>4, <2>2
<1>5. CASE /\ NonceOK(l, t) /\ CanBuyGas(l, gp, t) /\ ~(t.gas < IntrinsicGas)
           /\ Bought(l, t)[t.from].balance < t.value
  <2>1. t.gas >= IntrinsicGas BY <1>0, <1>5, EvmAssumption
  <2>2. r = [err |-> TRUE, ledger |-> IF t.create THEN Bought(l, t) ELSE n,
             gp |-> gp - t.gas]
    BY <1>5, <2>1 DEF ApplyMessage
  <2>3. r.ledger = Bought(l, t) \/ r.ledger = n BY <2>2
  <2> QED BY <1>3, <1>5, <2>3
<1>6. CASE /\ NonceOK(l, t) /\ CanBuyGas(l, gp, t) /\ ~(t.gas < IntrinsicGas)
           /\ ~(Bought(l, t)[t.from].balance < t.value)
  <2>1. r = [err |-> FALSE, ledger |-> Executed(l, t), gp |-> gp - t.used]
    BY <1>6 DEF ApplyMessage
  <2>2. r.ledger = Executed(l, t) BY <2>1
  <2>3. Bought(l, t)[t.from].balance >= t.value
    BY <1>0, <1>3, <1>6 DEF Ledger, Account
  <2> QED BY <1>6, <2>2, <2>3, ExecutedClaims
<1> QED BY <1>2, <1>4, <1>5, <1>6

-----------------------------------------------------------------------------
(* The invariant *)

\* The claims at the start are the allocation.
LEMMA EmptyClaims == EmptyLedger \in Ledger /\ Claims({}, EmptyLedger) = SumFunction(Alloc)
<1> DEFINE f == Claim({}, EmptyLedger)
<1>1. EmptyLedger \in Ledger BY DEF EmptyLedger, Ledger, Account
<1>2. DOMAIN f = Addr /\ \A a \in Addr : f[a] \in Int
  <2>1. {} \in SUBSET DOMAIN Alloc OBVIOUS
  <2>2. DOMAIN f = Addr BY DEF Claim
  <2> QED BY <1>1, <2>1, <2>2, ClaimAt
<1>3. \A a \in DOMAIN Alloc : Alloc[a] = f[a]
  BY EvmStateAssumption DEF Claim, EmptyLedger, Larger
<1>4. \A a \in Addr \ DOMAIN Alloc : f[a] = 0 BY DEF Claim, EmptyLedger
<1>5. IsFiniteSet(Addr) /\ DOMAIN Alloc \in SUBSET Addr
  BY EvmAssumption, EvmStateAssumption
<1> HIDE DEF f
<1>6. SumFunctionOnSet(f, Addr) = SumFunctionOnSet(Alloc, DOMAIN Alloc)
  BY <1>2, <1>3, <1>4, <1>5, SumZero
<1> QED BY <1>1, <1>2, <1>6 DEF Claims, SumFunction, f

\* What an account is promised counts at least as much as what it would count for
\* without the promise.
LEMMA PromiseClaims ==
    ASSUME NEW l \in Ledger, NEW P \in SUBSET DOMAIN Alloc
    PROVE  Claims({}, l) <= Claims(P, l)
<1>1. ASSUME NEW a \in Addr PROVE Claim({}, l)[a] <= Claim(P, l)[a]
  BY ClaimAt DEF Larger
<1> QED BY <1>1, ClaimsMonotone

\* To promise their allocation to the accounts that a ledger does not have adds
\* nothing, whatever had been promised before.
LEMMA RenewedClaims ==
    ASSUME NEW l \in Ledger, NEW P \in SUBSET DOMAIN Alloc, NEW Q \in SUBSET DOMAIN Alloc,
           \A a \in Q : ~Exists(l, a)
    PROVE  Claims(Q, l) <= Claims(P, l)
<1>1. ASSUME NEW a \in Addr PROVE Claim(Q, l)[a] <= Claim(P, l)[a]
  <2>1. CASE a \in Q
    <3>1. l[a].nonce = 0 /\ l[a].balance = 0
      BY <2>1 DEF Exists, Ledger, Account
    <3> QED BY <2>1, <3>1, ClaimAt DEF Larger
  <2>2. CASE a \notin Q BY <2>2, ClaimAt DEF Larger
  <2> QED BY <2>1, <2>2
<1> QED BY <1>1, ClaimsMonotone

\* Steps that leave the durable root, and what the WAS counts for, alone.
LEMMA SupplyBeside ==
    ASSUME SupplyInv, UNCHANGED <<dbRoot, ethState, wasState, genesis>>,
           pc' # "down" => pc # "down"
    PROVE  SupplyInv'
BY DEF SupplyInv, Promised

\* CreateAccounts pays what was promised.
LEMMA CreateAccountsSupply ==
    ASSUME IInv, SupplyInv, CreateAccounts, wasState' \in Ledger PROVE SupplyInv'
<1> DEFINE P == Promised
<1>1. /\ genesis = "pending" /\ genesis' = "done" /\ pc = "idle"
      /\ wasState' = [a \in Addr |->
                        IF a \in DOMAIN Alloc /\ ~Exists(ethState, a)
                        THEN [nonce |-> wasState[a].nonce,
                              balance |-> wasState[a].balance + Alloc[a]]
                        ELSE wasState[a]]
      /\ UNCHANGED dbRoot
  BY DEF CreateAccounts, db
<1>2. wasState \in Ledger /\ P \in SUBSET DOMAIN Alloc /\ Promised' = {}
  BY <1>1 DEF IInv, TypeOK, Promised
<1>3. ASSUME NEW a \in Addr PROVE Claim({}, wasState')[a] <= Claim(P, wasState)[a]
  <2>1. CASE a \in P
    <3>1. /\ wasState'[a].nonce = wasState[a].nonce
          /\ wasState'[a].balance = wasState[a].balance + Alloc[a]
      BY <1>1, <2>1 DEF Promised
    <3> QED BY <1>2, <2>1, <3>1, ClaimAt DEF Larger
  <2>2. CASE a \notin P
    <3>1. wasState'[a] = wasState[a] BY <1>1, <2>2 DEF Promised
    <3> QED BY <1>2, <2>2, <3>1, ClaimAt DEF Larger
  <2> QED BY <2>1, <2>2
<1> HIDE DEF P
<1>4. {} \in SUBSET DOMAIN Alloc OBVIOUS
<1>5. Claims({}, wasState') <= Claims(P, wasState)
  BY <1>2, <1>3, <1>4, ClaimsMonotone
<1>6. Claims(P, wasState) <= SumFunction(Alloc) BY <1>1 DEF SupplyInv, P
<1>7. Claims({}, wasState') <= SumFunction(Alloc)
  BY <1>2, <1>4, <1>5, <1>6, AtMost, ClaimsInt
<1> QED BY <1>1, <1>2, <1>7 DEF SupplyInv

\* Every step keeps the supply bounded.
LEMMA SupplyStep ==
    ASSUME IInv, IInv', SupplyInv, [Next]_vars PROVE SupplyInv'
<1> USE DEF db, was, pool, mem, env, history
<1>0. /\ dbRoot \in Ledger /\ wasState \in Ledger /\ wasState' \in Ledger
      /\ wasGp \in Nat /\ Promised \in SUBSET DOMAIN Alloc
      /\ Promised' \in SUBSET DOMAIN Alloc /\ {} \in SUBSET DOMAIN Alloc
  BY DEF IInv, TypeOK, Promised
<1>1. CASE NewState
  <2>1. /\ ethState' = dbRoot /\ wasState' = dbRoot /\ UNCHANGED dbRoot
    BY <1>1 DEF NewState, SetCleanWAS
  <2>2. \A a \in Promised' : ~Exists(dbRoot, a) BY <2>1 DEF Promised
  <2>3. Claims(Promised', dbRoot) <= Claims({}, dbRoot) BY <1>0, <2>2, RenewedClaims
  <2>4. Claims({}, dbRoot) <= SumFunction(Alloc) BY DEF SupplyInv
  <2>5. Claims(Promised', dbRoot) <= SumFunction(Alloc)
    BY <1>0, <2>3, <2>4, AtMost, ClaimsInt
  <2> QED BY <2>1, <2>4, <2>5 DEF SupplyInv
<1>2. CASE CreateAccounts BY <1>0, <1>2, CreateAccountsSupply
<1>3. ASSUME NEW b \in Blocks, ProcessBlock(b) PROVE SupplyInv'
  BY <1>3, SupplyBeside DEF ProcessBlock
<1>4. CASE PutBlockByHash BY <1>4, SupplyBeside DEF PutBlockByHash
<1>5. CASE PutBlockById BY <1>5, SupplyBeside DEF PutBlockById
<1>6. CASE applyTransaction
  <2> DEFINE t == cur.txs[next]
             r == ApplyMessage(wasState, wasGp, t)
  <2>1. /\ cur \in Blocks /\ next \in DOMAIN cur.txs /\ pc = "apply"
        /\ UNCHANGED <<dbRoot, ethState, genesis, pc>>
        /\ UNCHANGED wasState \/ (~Malformed(t) /\ wasState' = r.ledger)
    <3>1. /\ cur \in Blocks /\ next \in DOMAIN cur.txs /\ pc = "apply"
          /\ UNCHANGED <<dbRoot, ethState, genesis, pc>>
      BY <1>6, ApplyCases
    <3>2. UNCHANGED wasState \/ (~Malformed(t) /\ wasState' = r.ledger)
      BY <1>6 DEF applyTransaction, SkipTx, RejectTx, ExecuteTx
    <3> QED BY <3>1, <3>2
  <2>2. CASE UNCHANGED wasState BY <2>1, <2>2, SupplyBeside
  <2>3. CASE ~Malformed(t) /\ wasState' = r.ledger
    <3>1. t \in Tx BY <2>1, <2>3, BlockLemma
    <3>2. Claims(Promised, wasState') <= Claims(Promised, wasState)
      <4> HIDE DEF t
      <4> QED BY <1>0, <2>3, <3>1, ApplyClaims
    <3>3. Claims(Promised, wasState) <= SumFunction(Alloc) BY <2>1 DEF SupplyInv
    <3>4. Claims(Promised, wasState') <= SumFunction(Alloc)
      BY <1>0, <3>2, <3>3, AtMost, ClaimsInt
    <3>5. Promised' = Promised BY <2>1 DEF Promised
    <3> QED BY <2>1, <3>4, <3>5 DEF SupplyInv
  <2> QED BY <2>1, <2>2, <2>3
<1>7. CASE EndOfBlock BY <1>7, SupplyBeside DEF EndOfBlock
<1>8. CASE CommitTrie BY <1>8, SupplyBeside DEF CommitTrie
<1>9. CASE writeRoot
  <2>1. /\ pc = "root" /\ dbRoot' = wasState
        /\ UNCHANGED <<ethState, wasState, genesis>>
    BY <1>9 DEF writeRoot
  <2>2. Claims(Promised, wasState) <= SumFunction(Alloc) BY <2>1 DEF SupplyInv
  <2>3. Claims({}, wasState) <= SumFunction(Alloc)
    BY <1>0, <2>2, PromiseClaims, AtMost, ClaimsInt
  <2>4. Promised' = Promised BY <2>1 DEF Promised
  <2> QED BY <2>1, <2>2, <2>3, <2>4 DEF SupplyInv
<1>10. CASE writeHead BY <1>10, SupplyBeside DEF writeHead
<1>11. CASE writeTransactions BY <1>11, SupplyBeside DEF writeTransactions
<1>12. CASE writeReceipts BY <1>12, SupplyBeside DEF writeReceipts
<1>13. CASE ResetEthState
  <2>1. /\ pc = "resetEth" /\ ethState' = wasState
        /\ UNCHANGED <<dbRoot, wasState, genesis>>
    BY <1>13 DEF ResetEthState
  <2>2. \A a \in Promised' : ~Exists(wasState, a) BY <2>1 DEF Promised
  <2>3. Claims(Promised', wasState) <= Claims(Promised, wasState)
    BY <1>0, <2>2, RenewedClaims
  <2>4. Claims(Promised, wasState) <= SumFunction(Alloc) BY <2>1 DEF SupplyInv
  <2>5. Claims(Promised', wasState) <= SumFunction(Alloc)
    BY <1>0, <2>3, <2>4, AtMost, ClaimsInt
  <2> QED BY <2>1, <2>5 DEF SupplyInv
<1>14. CASE ResetWAS BY <1>14, SupplyBeside DEF ResetWAS, SetCleanWAS
<1>15. CASE ResetTxPool BY <1>15, SupplyBeside DEF ResetTxPool
<1>16. CASE WriteFails BY <1>16, SupplyBeside DEF WriteFails
<1>17. CASE Crash BY <1>17, SupplyBeside DEF Crash
<1>18. ASSUME NEW t \in PoolTxs, CheckTx(t) PROVE SupplyInv'
  BY <1>18, SupplyBeside DEF CheckTx
<1>19. CASE UNCHANGED vars BY <1>19, SupplyBeside DEF vars
<1> QED
  BY <1>1, <1>2, <1>3, <1>4, <1>5, <1>6, <1>7, <1>8, <1>9, <1>10, <1>11, <1>12,
     <1>13, <1>14, <1>15, <1>16, <1>17, <1>18, <1>19 DEF Next, CommitStep

\* The genesis file is all the Ether there is: no order of deliveries, replays,
\* failing writes, crashes and restarts makes the balances in the durable state add
\* up to more than its allocations.
THEOREM SupplySafe == Spec => []SupplyBounded
<1>1. Init => SupplyInv
  <2> SUFFICES ASSUME Init PROVE SupplyInv OBVIOUS
  <2>1. Claims({}, EmptyLedger) = SumFunction(Alloc) /\ SumFunction(Alloc) \in Int
    BY EmptyClaims, ClaimsInt
  <2> QED BY <2>1 DEF Init, SupplyInv
<1>2. IInv /\ IInv' /\ SupplyInv /\ [Next]_vars => SupplyInv' BY SupplyStep
<1>3. IInv /\ SupplyInv => SupplyBounded
  <2> SUFFICES ASSUME IInv, SupplyInv PROVE SupplyBounded OBVIOUS
  <2> DEFINE f == [a \in Addr |-> dbRoot[a].balance]
             c == Claim({}, dbRoot)
  <2>1. dbRoot \in Ledger /\ {} \in SUBSET DOMAIN Alloc BY DEF IInv, TypeOK
  <2>2. IsFiniteSet(Addr) BY EvmAssumption
  <2>3. \A a \in Addr : f[a] \in Int /\ c[a] \in Int /\ f[a] <= c[a]
    BY <2>1, ClaimAt DEF Larger
  <2>4. DOMAIN f = Addr /\ DOMAIN c = Addr BY DEF Claim
  <2> HIDE DEF f, c
  <2>5. SumFunctionOnSet(f, Addr) <= SumFunctionOnSet(c, Addr)
    BY <2>2, <2>3, SumMonotone
  <2>6. SumFunctionOnSet(f, Addr) \in Int BY <2>2, <2>3, SumPick
  <2>7. SumFunction(f) <= Claims({}, dbRoot) /\ SumFunction(f) \in Int
    BY <2>4, <2>5, <2>6 DEF Claims, SumFunction, c
  <2>8. Claims({}, dbRoot) <= SumFunction(Alloc) BY DEF SupplyInv
  <2>9. SumFunction(f) <= SumFunction(Alloc) BY <2>1, <2>7, <2>8, AtMost
  <2> QED BY <2>9 DEF SupplyBounded, f
<1> QED BY <1>1, <1>2, <1>3, Invariance, PTL DEF Spec
=============================================================================
