--------------------------- MODULE ServicesProofs ---------------------------
(***************************************************************************)
(* Proofs about the application services, for any number of calls and any  *)
(* failures.                                                               *)
(*                                                                         *)
(* Gameplay: whatever calls overlap, fail or die, the balance is the sum   *)
(* of the ledger, records and results tell the truth about it, and a claim *)
(* keeps the cooldown from every reward it could see.                      *)
(*                                                                         *)
(* Social: whatever calls are served and whichever writes fail, friends    *)
(* have their workspace and bindings, the records of a member agree once   *)
(* nobody is at work on it, a group and its workspace come and go          *)
(* together, and no peer takes the role of an owner of longer standing.    *)
(***************************************************************************)
EXTENDS Gameplay, Social, FiniteSetTheorems, WellFoundedInduction, TLAPS

-----------------------------------------------------------------------------
(* The inductive invariant                                                 *)

\* The types, and those that TypeOK leaves out.
Typed ==
  /\ TypeOK
  /\ due \in [Calls -> (-MaxInt) .. MaxInt]
  /\ seen \in [Calls -> SUBSET (Calls \cup {Before})]

\* The balance needs a finite ledger: its sum is taken one entry at a time.
Balanced == IsFiniteSet(ledger) /\ BalanceIsLedger

\* The method of a call by what it does next.
Methods(l) ==
  CASE l \in Kinds -> {l}
    [] l = "insert" -> {"get_wallet"}
    [] l = "charge" -> {"adopt"}
    [] l = "decide" -> {"act"}
    [] l = "rename" -> {"put"}
    [] l = "remove" -> {"delete"}
    [] l = "award" -> {"claim"}
    [] l = "save" -> {"adopt", "act", "put", "claim"}
    [] OTHER -> Kinds \cup {"none"}

\* A call runs its method and has no result until it ends.
Running(c) ==
  /\ kind[c] \in Methods(pc[c])
  /\ kind[c] = "none" \/ pc[c] # "idle" => result[c] = "none"

\* A call has no entry before it settles and exactly its own afterwards.
Accounted(c) ==
  /\ kind[c] = "none" \/ pc[c] \notin {"idle", "save"} => Settled(c, 0) /\ due[c] = 0
  /\ pc[c] = "save" => Settled(c, due[c])
  /\ result[c] = "ok" => Settled(c, due[c])
  /\ result[c] = "refused" => Settled(c, 0)
  /\ pc[c] = "save" /\ kind[c] = "claim" => due[c] >= 0

\* A pet that a call holds was made by an adoption and changed by calls that
\* ended well, and by this one once it is to be saved.
HoldsPet(c) == pc[c] \in {"decide", "rename"} \/ (pc[c] = "save" /\ kind[c] # "claim")
Carries(c) ==
  HoldsPet(c) =>
    /\ \A x \in held[c].writes : result[x] = "ok" \/ (x = c /\ pc[c] = "save")
    /\ \E x \in held[c].writes : kind[x] = "adopt"

\* The same of the pets in the store.
PetsMade ==
  \A i \in PetIds :
    /\ \A x \in pets[i].writes : result[x] = "ok"
    /\ Stored(i) => \E x \in pets[i].writes : kind[x] = "adopt"

Claimants == {r.call : r \in rewards}

\* A reward is the one of a call that ended well, dated in the past, and saw
\* rewards that are still there.
RewardsMade ==
  \A r \in rewards :
    /\ r.call = Before \/ (r.call \in Calls /\ result[r.call] = "ok" /\ r.points = due[r.call])
    /\ r.at <= clock
    /\ r.seen \subseteq Claimants

\* One of the rewards is the latest, so that onCooldown has a maximum to find.
HasLatest == rewards # {} => \E r \in rewards : \A s \in rewards : s.at <= r.at

\* What a claim saw is there, and a cooldown old once it has passed its check.
Passed(c) == pc[c] = "award" \/ (pc[c] = "save" /\ kind[c] = "claim")
Waited(c) ==
  /\ seen[c] \subseteq Claimants
  /\ Passed(c) => \A r \in rewards : r.call \in seen[c] => clock - r.at >= Cooldown

CallInv(c) == Running(c) /\ Accounted(c) /\ Carries(c) /\ Waited(c)
RewardInv == RewardsMade /\ HasLatest /\ CooldownAfterRecord

IInv == Typed /\ Balanced /\ PetsMade /\ RewardInv /\ \A c \in Calls : CallInv(c)

-----------------------------------------------------------------------------
(* Arithmetic                                                              *)

\* % below twice the modulus.
LEMMA Remainder ==
  ASSUME NEW x \in Nat, NEW m \in Nat \ {0}, x < 2 * m
  PROVE  x % m = IF x < m THEN x ELSE x - m
OBVIOUS

\* The sum of a balance and a delta either is the exact one or wraps to a
\* negative number, which AddTransaction refuses.
LEMMA AddsOrWraps ==
  ASSUME NEW a \in 0 .. MaxInt, NEW d \in (-MaxInt) .. MaxInt, Add64(a, d) >= 0
  PROVE  Add64(a, d) = a + d /\ a + d \in 0 .. MaxInt
<1> DEFINE x == a + d + MaxInt + 1
           m == 2 * (MaxInt + 1)
<1>1. x \in Nat /\ m \in Nat \ {0} /\ x < 2 * m
  BY GameplayAssumption
<1>2. x % m = IF x < m THEN x ELSE x - m
  <2> HIDE DEF x, m
  <2> QED BY <1>1, Remainder
<1>3. Add64(a, d) = (x % m) - (MaxInt + 1)
  BY DEF Add64
<1> HIDE DEF x
<1>4. Add64(a, d) = (IF x < m THEN x ELSE x - m) - (MaxInt + 1)
  BY <1>2, <1>3
<1> QED BY <1>4, GameplayAssumption DEF x

\* What \div gives.
LEMMA Quotient ==
  ASSUME NEW a \in Nat, NEW b \in Nat \ {0}
  PROVE  /\ a \div b \in Nat /\ (a \div b) * b <= a /\ a < (a \div b + 1) * b
OBVIOUS

\* The loop of applyAbilityDelta ends: a level is found for any experience.
LEMMA LevelExists ==
  ASSUME NEW level \in Nat \ {0}, NEW exp \in Nat
  PROVE  levelFor(level, exp) \in Nat \ {0}
<1> DEFINE E == ExpPerLevel
           Ends(l) == /\ exp < l * ExpPerLevel
                      /\ \A k \in level .. l - 1 : exp >= k * ExpPerLevel
<1>1. E \in Nat \ {0}
  BY GameplayAssumption
<1>2. CASE exp < level * E
  <2>1. level \in level .. level + exp /\ Ends(level)
    BY <1>2
  <2> QED BY <2>1 DEF levelFor
<1>3. CASE ~(exp < level * E)
  <2>1. PICK q : q = exp \div E
    OBVIOUS
  <2>2. q \in Nat /\ q * E <= exp /\ exp < (q + 1) * E
    BY <1>1, <2>1, Quotient
  <2>3. level <= q
    <3>1. SUFFICES ASSUME q + 1 <= level PROVE FALSE
      BY <2>2
    <3>2. (q + 1) * E <= level * E
      BY <1>1, <2>2, <3>1
    <3> QED BY <1>1, <1>3, <2>2, <3>2
  <2>4. q <= exp
    BY <1>1, <2>2
  <2>5. ASSUME NEW k \in level .. q PROVE k * E <= exp
    <3>1. k * E <= q * E
      BY <1>1, <2>2, <2>5
    <3> QED BY <1>1, <2>2, <2>5, <3>1
  <2>6. q + 1 \in level .. level + exp /\ Ends(q + 1)
    BY <2>2, <2>3, <2>4, <2>5
  <2> QED BY <2>6 DEF levelFor
<1> QED BY <1>2, <1>3

-----------------------------------------------------------------------------
(* The sum of a ledger                                                     *)

\* The library's fold: take any entry, add its delta to the sum of the rest.
Sum(S) == MapThenSumSet(LAMBDA e : e.delta, S)
Pick(s) == CHOOSE x \in s : TRUE
Computes(g, U) ==
  g = [s \in SUBSET U |-> IF s = {} THEN 0 ELSE Pick(s).delta + g[s \ {Pick(s)}]]

\* The fold is computed by a function on the subsets, if there is one.
LEMMA SumUnfolds == ASSUME NEW S PROVE Sum(S) = (CHOOSE g : Computes(g, S))[S]
BY DEF Sum, MapThenSumSet, MapThenFoldSet, Computes, Pick

\* Induction over the subsets of a finite set, in the form the provers can use:
\* a set of counterexamples has a smallest one.
LEMMA Minimal ==
  ASSUME NEW S, IsFiniteSet(S), NEW T, T \subseteq SUBSET S, T # {}
  PROVE  \E X \in T : \A Y \in T : Y \subseteq X => Y = X
<1>1. IsWellFoundedOn(StrictSubsetOrdering(S), SUBSET S)
  BY FS_StrictSubsetOrderingWellFounded, FS_FiniteSubsetsOfFinite
<1>2. \E X \in T : \A Y \in T : ~(<<Y, X>> \in StrictSubsetOrdering(S))
  BY <1>1, WFMin
<1> QED BY <1>2 DEF StrictSubsetOrdering

\* Two such functions agree wherever both are defined.
LEMMA Agree ==
  ASSUME NEW U, IsFiniteSet(U), NEW V \in SUBSET U, NEW g, NEW h,
         Computes(g, U), Computes(h, V), NEW s \in SUBSET V
  PROVE  g[s] = h[s]
<1> DEFINE T == {t \in SUBSET V : g[t] # h[t]}
<1>1. IsFiniteSet(V)
  BY FS_Subset
<1> SUFFICES ASSUME T # {} PROVE FALSE
  OBVIOUS
<1>2. PICK X \in T : \A Y \in T : Y \subseteq X => Y = X
  <2>1. T \subseteq SUBSET V
    OBVIOUS
  <2> HIDE DEF T
  <2> QED BY <1>1, <2>1, Minimal
<1>3. X \in SUBSET V /\ X \in SUBSET U /\ g[X] # h[X]
  BY <1>2
<1>4. /\ g[X] = IF X = {} THEN 0 ELSE Pick(X).delta + g[X \ {Pick(X)}]
      /\ h[X] = IF X = {} THEN 0 ELSE Pick(X).delta + h[X \ {Pick(X)}]
  BY <1>3 DEF Computes
<1>5. X # {}
  BY <1>3, <1>4
<1>6. Pick(X) \in X
  BY <1>5 DEF Pick
<1>7. X \ {Pick(X)} \notin T
  BY <1>2, <1>6
<1>8. X \ {Pick(X)} \in SUBSET V
  BY <1>3
<1>9. g[X \ {Pick(X)}] = h[X \ {Pick(X)}]
  BY <1>7, <1>8
<1> QED
  BY <1>3, <1>4, <1>9

\* There is one for every finite set.
LEMMA Computed ==
  ASSUME NEW U, IsFiniteSet(U)
  PROVE  \E g : Computes(g, U)
<1> DEFINE T == {V \in SUBSET U : ~ \E g : Computes(g, V)}
<1> SUFFICES ASSUME T # {} PROVE FALSE
  OBVIOUS
<1>1. PICK X \in T : \A Y \in T : Y \subseteq X => Y = X
  <2>1. T \subseteq SUBSET U
    OBVIOUS
  <2> HIDE DEF T
  <2> QED BY <2>1, Minimal
<1>2. X \in SUBSET U /\ ~ \E g : Computes(g, X)
  BY <1>1
<1> DEFINE G(t) == (CHOOSE h : Computes(h, t))[t]
           Part(t) == CHOOSE h : Computes(h, t)
           f == [s \in SUBSET X |-> IF s = {} THEN 0 ELSE Pick(s).delta + G(s \ {Pick(s)})]
<1>3. ASSUME NEW t \in SUBSET X, t # X PROVE Computes(Part(t), t)
  <2>1. t \notin T /\ t \in SUBSET U
    BY <1>1, <1>2, <1>3
  <2>2. \E h : Computes(h, t)
    BY <2>1
  <2> QED BY <2>2
<1>4. ASSUME NEW t \in SUBSET X, t # X PROVE f[t] = G(t)
  <2>1. G(t) = Part(t)[t]
    OBVIOUS
  <2>2. Part(t)[t] = IF t = {} THEN 0 ELSE Pick(t).delta + Part(t)[t \ {Pick(t)}]
    <3> HIDE DEF Part
    <3> QED BY <1>3, <1>4 DEF Computes
  <2>3. f[t] = IF t = {} THEN 0 ELSE Pick(t).delta + G(t \ {Pick(t)})
    <3> HIDE DEF G
    <3> QED OBVIOUS
  <2>4. CASE t = {}
    BY <2>1, <2>2, <2>3, <2>4
  <2>5. CASE t # {}
    <3>1. PICK w : w = t \ {Pick(t)}
      OBVIOUS
    <3>2. Pick(t) \in t
      BY <2>5 DEF Pick
    <3>3. w \in SUBSET t /\ w \in SUBSET X /\ w # X
      BY <3>1, <3>2, <1>4
    <3>4. Computes(Part(w), w) /\ Computes(Part(t), t)
      BY <1>3, <3>3, <1>4
    <3>5. IsFiniteSet(t)
      BY <1>2, <1>4, FS_Subset
    <3>6. Part(t)[w] = Part(w)[w]
      <4> HIDE DEF Part
      <4> QED BY <3>3, <3>4, <3>5, Agree
    <3>7. G(w) = Part(w)[w]
      OBVIOUS
    <3> HIDE DEF Part, G, f
    <3> QED BY <2>1, <2>2, <2>3, <2>5, <3>1, <3>6, <3>7
  <2> QED BY <2>4, <2>5
<1>5. Computes(f, X)
  <2>1. ASSUME NEW s \in SUBSET X, s # {} PROVE G(s \ {Pick(s)}) = f[s \ {Pick(s)}]
    <3>1. Pick(s) \in s
      BY <2>1 DEF Pick
    <3>2. s \ {Pick(s)} \in SUBSET X /\ s \ {Pick(s)} # X
      BY <3>1
    <3> HIDE DEF G, f
    <3> QED BY <3>2, <1>4
  <2>2. f = [s \in SUBSET X |-> IF s = {} THEN 0 ELSE Pick(s).delta + f[s \ {Pick(s)}]]
    <3> DEFINE F(s) == IF s = {} THEN 0 ELSE Pick(s).delta + G(s \ {Pick(s)})
               H(s) == IF s = {} THEN 0 ELSE Pick(s).delta + f[s \ {Pick(s)}]
    <3>1. ASSUME NEW s \in SUBSET X PROVE F(s) = H(s)
      <4> HIDE DEF G, f
      <4> QED BY <2>1
    <3>2. f = [s \in SUBSET X |-> F(s)]
      OBVIOUS
    <3>3. [s \in SUBSET X |-> F(s)] = [s \in SUBSET X |-> H(s)]
      <4> HIDE DEF F, H
      <4> QED BY <3>1
    <3> HIDE DEF f, F
    <3> QED BY <3>2, <3>3
  <2> HIDE DEF f
  <2> QED BY <2>2 DEF Computes
<1> QED BY <1>2, <1>5

\* Any of them computes the sums of all subsets.
LEMMA SumComputed ==
  ASSUME NEW S, IsFiniteSet(S), NEW V \in SUBSET S, NEW g, Computes(g, S)
  PROVE  Sum(V) = g[V]
<1> DEFINE h == CHOOSE f : Computes(f, V)
<1>1. Sum(V) = h[V]
  BY SumUnfolds
<1>2. IsFiniteSet(V)
  BY FS_Subset
<1>3. Computes(h, V)
  BY <1>2, Computed
<1> HIDE DEF h
<1> QED BY <1>1, <1>3, Agree

\* Nothing sums up to zero.
LEMMA SumEmpty == Sum({}) = 0
<1>1. IsFiniteSet({})
  BY FS_EmptySet
<1>2. PICK g : Computes(g, {})
  BY <1>1, Computed
<1>3. g[{}] = 0
  BY <1>2 DEF Computes
<1> QED BY <1>1, <1>2, <1>3, SumComputed

\* The sum is that of the entry the fold picks and of the rest.
LEMMA SumStep ==
  ASSUME NEW S, IsFiniteSet(S), S # {}
  PROVE  Sum(S) = Pick(S).delta + Sum(S \ {Pick(S)})
<1>1. PICK g : Computes(g, S)
  BY Computed
<1>2. Sum(S) = g[S] /\ Sum(S \ {Pick(S)}) = g[S \ {Pick(S)}]
  BY <1>1, SumComputed
<1>3. g[S] = Pick(S).delta + g[S \ {Pick(S)}]
  BY <1>1 DEF Computes
<1> QED BY <1>2, <1>3

\* Sums of integers are integers.
LEMMA SumInt ==
  ASSUME NEW S, IsFiniteSet(S), \A x \in S : x.delta \in Int
  PROVE  Sum(S) \in Int
<1> DEFINE T == {V \in SUBSET S : Sum(V) \notin Int}
<1> SUFFICES ASSUME T # {} PROVE FALSE
  OBVIOUS
<1>1. PICK X \in T : \A Y \in T : Y \subseteq X => Y = X
  <2>1. T \subseteq SUBSET S
    OBVIOUS
  <2> HIDE DEF T
  <2> QED BY <2>1, Minimal
<1>2. X \in SUBSET S /\ Sum(X) \notin Int /\ IsFiniteSet(X)
  BY <1>1, FS_Subset
<1>3. X # {}
  BY <1>2, SumEmpty
<1>4. Pick(X) \in X
  BY <1>3 DEF Pick
<1>5. Sum(X \ {Pick(X)}) \in Int
  BY <1>1, <1>4, <1>2
<1>6. Pick(X).delta \in Int
  BY <1>2, <1>4
<1>7. Sum(X) = Pick(X).delta + Sum(X \ {Pick(X)})
  BY <1>2, <1>3, SumStep
<1> HIDE DEF T
<1> QED BY <1>2, <1>5, <1>6, <1>7

\* A new entry adds its delta, whichever entry the fold would pick first.
LEMMA SumAdd ==
  ASSUME NEW S, IsFiniteSet(S), \A x \in S : x.delta \in Int, NEW e, e \notin S, e.delta \in Int
  PROVE  Sum(S \cup {e}) = Sum(S) + e.delta
<1> DEFINE Adds(V) == \A x \in (S \cup {e}) \ V : Sum(V \cup {x}) = Sum(V) + x.delta
           T == {V \in SUBSET S : ~ Adds(V)}
<1> SUFFICES ASSUME T # {} PROVE FALSE
  OBVIOUS
<1>1. PICK X \in T : \A Y \in T : Y \subseteq X => Y = X
  <2>1. T \subseteq SUBSET S
    OBVIOUS
  <2> HIDE DEF T
  <2> QED BY <2>1, Minimal
<1>2. X \in SUBSET S /\ ~Adds(X) /\ IsFiniteSet(X)
  BY <1>1, FS_Subset
<1>3. PICK x \in (S \cup {e}) \ X : Sum(X \cup {x}) # Sum(X) + x.delta
  BY <1>2
<1>4. PICK Z : Z = X \cup {x}
  OBVIOUS
<1>5. IsFiniteSet(Z) /\ Z # {} /\ Z \subseteq S \cup {e}
  BY <1>2, <1>4, FS_AddElement
<1>6. Pick(Z) \in Z
  BY <1>5 DEF Pick
<1>7. Sum(Z) = Pick(Z).delta + Sum(Z \ {Pick(Z)})
  BY <1>5, SumStep
<1>8. \A V \in SUBSET S : Sum(V) \in Int
  BY SumInt, FS_Subset
<1>9. \A y \in S \cup {e} : y.delta \in Int
  OBVIOUS
<1>10. CASE Pick(Z) = x
  <2>1. Z \ {Pick(Z)} = X
    BY <1>3, <1>4, <1>10
  <2>2. Sum(Z) = x.delta + Sum(X)
    BY <2>1, <1>7, <1>10
  <2>3. Sum(X) \in Int /\ x.delta \in Int
    BY <1>2, <1>3, <1>8, <1>9
  <2> HIDE DEF T, Adds
  <2> QED BY <2>2, <2>3, <1>3, <1>4
<1>11. CASE Pick(Z) # x
  <2>1. PICK y : y = Pick(Z)
    OBVIOUS
  <2>2. y \in X /\ y # x
    BY <2>1, <1>4, <1>6, <1>11
  <2>3. PICK V : V = X \ {y}
    OBVIOUS
  <2>4. V \in SUBSET S /\ V \subseteq X /\ V # X
    BY <2>2, <2>3, <1>2
  <2>5. Adds(V)
    BY <2>4, <1>1
  <2>6. y \in (S \cup {e}) \ V /\ x \in (S \cup {e}) \ V
    BY <2>2, <2>3, <1>2, <1>3
  <2>7. Sum(V \cup {y}) = Sum(V) + y.delta /\ Sum(V \cup {x}) = Sum(V) + x.delta
    BY <2>5, <2>6
  <2>8. V \cup {y} = X /\ V \cup {x} = Z \ {Pick(Z)}
    BY <2>1, <2>2, <2>3, <1>4, <1>3
  <2>9. Sum(V) \in Int /\ y.delta \in Int /\ x.delta \in Int
    BY <2>4, <2>6, <1>8, <1>9
  <2>10. Sum(X) = Sum(V) + y.delta /\ Sum(Z) = y.delta + (Sum(V) + x.delta)
    BY <2>1, <2>7, <2>8, <1>7
  <2> HIDE DEF T, Adds
  <2> QED BY <2>9, <2>10, <1>3, <1>4
<1> QED BY <1>10, <1>11


-----------------------------------------------------------------------------
(* Types                                                                   *)

WalletTyped ==
  /\ row \in BOOLEAN /\ points \in 0 .. MaxInt
  /\ \A e \in ledger : e.call \in Calls \cup {Before} /\ e.delta \in (-MaxInt) .. MaxInt
RewardsTyped == \A r \in rewards : r.points \in Nat /\ r.at \in 0 .. MaxTime
Labels ==
  Kinds \cup {"idle", "insert", "charge", "decide", "rename", "remove", "award", "save"}
CallsTyped ==
  /\ kind \in [Calls -> Kinds \cup {"none"}]
  /\ pc \in [Calls -> Labels]
  /\ pet \in [Calls -> PetIds]
  /\ held \in [Calls -> PetFields]
  /\ due \in [Calls -> (-MaxInt) .. MaxInt]
  /\ seen \in [Calls -> SUBSET (Calls \cup {Before})]
  /\ result \in [Calls -> {"none", "ok", "refused", "lost"}]

PartsTyped ==
  /\ WalletTyped /\ RewardsTyped /\ CallsTyped
  /\ pets \in [PetIds -> PetFields] /\ clock \in 0 .. MaxTime

\* The parts of the types, by who changes them.
LEMMA TypedParts == Typed <=> PartsTyped
BY Zenon DEF PartsTyped, Typed, TypeOK, WalletTyped, RewardsTyped, CallsTyped, Labels

LEMMA PetsTyped ==
  /\ NoPet \in PetFields
  /\ \A c \in Calls : newPet(c) \in PetFields
<1>1. LifeMax \in Nat /\ LifeStart \in 0 .. LifeMax
  BY GameplayAssumption
<1> QED BY <1>1 DEF PetFields, NoPet, newPet

\* A decision makes a pet of a pet.
LEMMA DecisionTyped ==
  ASSUME NEW p \in PetFields, NEW d \in PetDecisions, NEW c \in Calls
  PROVE  applyDecision(p, d, c) \in PetFields
<1>1. /\ p.life \in 0 .. LifeMax /\ p.exp \in Nat /\ p.level \in Nat \ {0}
      /\ p.writes \in SUBSET Calls
  BY DEF PetFields
<1>2. d.life \in Int /\ d.exp \in Int /\ LifeMax \in Nat /\ LifeStart \in 1 .. LifeMax
  BY GameplayAssumption
<1>3. applyLifeDelta(p.life, d.life) \in 0 .. LifeMax
  BY <1>1, <1>2 DEF applyLifeDelta, clampStat
<1>4. PICK exp \in Nat : exp = IF p.exp + d.exp < 0 THEN 0 ELSE p.exp + d.exp
  BY <1>1, <1>2
<1>5. levelFor(p.level, exp) \in Nat \ {0}
  BY <1>1, LevelExists
<1>6. applyDecision(p, d, c) =
        [life |-> applyLifeDelta(p.life, d.life), exp |-> exp,
         level |-> levelFor(p.level, exp), writes |-> p.writes \cup {c}]
  BY <1>4 DEF applyDecision
<1> QED BY <1>1, <1>3, <1>5, <1>6 DEF PetFields

LEMMA TransactionTyped ==
  ASSUME Typed, NEW c \in Calls, NEW delta \in (-MaxInt) .. MaxInt, AddTransaction(c, delta)
  PROVE  WalletTyped'
<1>1. points \in 0 .. MaxInt /\ WalletTyped
  BY TypedParts DEF PartsTyped, WalletTyped
<1>2. points' \in 0 .. MaxInt
  BY <1>1, AddsOrWraps DEF AddTransaction
<1> QED BY <1>1, <1>2 DEF AddTransaction, WalletTyped

LEMMA ReturnTyped ==
  ASSUME Typed, NEW c \in Calls, NEW how \in {"ok", "refused", "lost"}, Return(c, how)
  PROVE  CallsTyped'
BY TypedParts, PetsTyped DEF PartsTyped, Return, Goto, CallsTyped, Labels

LEMMA SettleTyped ==
  ASSUME Typed, NEW c \in Calls, NEW delta \in (-MaxInt) .. MaxInt, NEW next \in PetFields,
         Settle(c, delta, next)
  PROVE  WalletTyped' /\ CallsTyped'
<1>1. WalletTyped /\ CallsTyped
  BY TypedParts DEF PartsTyped
<1>2. CASE Return(c, "refused") /\ UNCHANGED walletVars
  BY <1>1, <1>2, ReturnTyped DEF walletVars, WalletTyped
<1>3. CASE /\ \/ delta = 0 /\ UNCHANGED walletVars
              \/ AddTransaction(c, delta)
           /\ due' = [due EXCEPT ![c] = delta]
           /\ held' = [held EXCEPT ![c] = next]
           /\ Goto(c, "save")
           /\ UNCHANGED <<kind, pet, seen, result>>
  <2>1. WalletTyped'
    BY <1>1, <1>3, TransactionTyped DEF walletVars, WalletTyped
  <2> QED BY <1>1, <1>3, <2>1 DEF CallsTyped, Goto, Labels
<1> QED BY <1>2, <1>3 DEF Settle

LEMMA TypedInit == Init => Typed
<1> SUFFICES ASSUME Init PROVE Typed
  OBVIOUS
<1>1. WalletTyped /\ RewardsTyped
  <2>1. /\ MaxInt \in Nat /\ Opening \in 0 .. MaxInt /\ Opening \in (-MaxInt) .. MaxInt
        /\ Opening \in Nat /\ 0 \in 0 .. MaxInt /\ 0 \in 0 .. MaxTime
    BY GameplayAssumption
  <2>2. CASE row = FALSE /\ points = 0 /\ ledger = {} /\ rewards = {}
    BY <2>1, <2>2 DEF WalletTyped, RewardsTyped
  <2>3. CASE row = TRUE /\ points = Opening /\ ledger = {OpeningEntry} /\ rewards = {OpeningReward}
    BY <2>1, <2>3 DEF WalletTyped, RewardsTyped, OpeningEntry, OpeningReward
  <2> QED BY <2>2, <2>3 DEF Init
<1>2. CallsTyped
  BY PetsTyped, GameplayAssumption DEF Init, CallsTyped, Labels, PartsTyped
<1>3. pets \in [PetIds -> PetFields] /\ clock \in 0 .. MaxTime
  BY PetsTyped, GameplayAssumption DEF Init, PartsTyped
<1> QED BY <1>1, <1>2, <1>3, TypedParts DEF PartsTyped

LEMMA TypedNext ==
  ASSUME Typed, Next, RewardsMade, \A c \in Calls : CallInv(c)
  PROVE  Typed'
<1>0. /\ WalletTyped /\ RewardsTyped /\ CallsTyped
      /\ pets \in [PetIds -> PetFields] /\ clock \in 0 .. MaxTime
  BY TypedParts DEF PartsTyped
<1> SUFFICES PartsTyped'
  <2>1. (Typed <=> PartsTyped)'
    BY TypedParts, PTL
  <2> QED BY <2>1
<1>1. CASE Tick
  BY <1>0, <1>1, GameplayAssumption DEF Tick, WalletTyped, RewardsTyped, CallsTyped, walletVars, callVars, PartsTyped
<1>2. CASE Crash
  BY <1>0, <1>2, PetsTyped DEF Crash, WalletTyped, RewardsTyped, CallsTyped, walletVars, Labels, PartsTyped
<1>3. ASSUME NEW c \in Calls, NEW k \in Kinds, NEW i \in PetIds, Begin(c, k, i) PROVE PartsTyped'
  BY <1>0, <1>3 DEF Begin, Goto, WalletTyped, RewardsTyped, CallsTyped, walletVars, Labels, PartsTyped
<1>4. ASSUME NEW c \in Calls, GetWalletRead(c) PROVE PartsTyped'
  <2>1. CallsTyped'
    <3>1. CASE Return(c, "ok")
      BY <3>1, ReturnTyped
    <3>2. CASE Goto(c, "insert") /\ UNCHANGED <<kind, pet, held, due, seen, result>>
      BY <1>0, <3>2 DEF Goto, CallsTyped, Labels
    <3> QED BY <1>4, <3>1, <3>2 DEF GetWalletRead
  <2> QED BY <1>0, <1>4, <2>1 DEF GetWalletRead, walletVars, WalletTyped, RewardsTyped, PartsTyped
<1>5. ASSUME NEW c \in Calls, GetWalletInsert(c) PROVE PartsTyped'
  <2>1. CallsTyped'
    BY <1>5, ReturnTyped DEF GetWalletInsert
  <2>2. WalletTyped'
    <3>1. 0 \in 0 .. MaxInt
      BY GameplayAssumption
    <3>2. CASE row' = TRUE /\ points' = 0 /\ UNCHANGED ledger
      BY <1>0, <3>1, <3>2 DEF WalletTyped
    <3>3. CASE UNCHANGED walletVars
      BY <1>0, <3>3 DEF WalletTyped, walletVars
    <3> QED BY <1>5, <3>2, <3>3 DEF GetWalletInsert
  <2> QED BY <1>0, <1>5, <2>1, <2>2 DEF GetWalletInsert, RewardsTyped, PartsTyped
<1>6. ASSUME NEW c \in Calls, AdoptLookup(c) PROVE PartsTyped'
  <2>1. CallsTyped'
    <3>1. CASE Return(c, "refused")
      BY <3>1, ReturnTyped
    <3>2. CASE Goto(c, "charge") /\ UNCHANGED <<kind, pet, held, due, seen, result>>
      BY <1>0, <3>2 DEF Goto, CallsTyped, Labels
    <3> QED BY <1>6, <3>1, <3>2 DEF AdoptLookup
  <2> QED BY <1>0, <1>6, <2>1 DEF AdoptLookup, walletVars, WalletTyped, RewardsTyped, PartsTyped
<1>7. ASSUME NEW c \in Calls, AdoptCharge(c) PROVE PartsTyped'
  <2>1. -AdoptCost \in (-MaxInt) .. MaxInt /\ newPet(c) \in PetFields
    BY PetsTyped, GameplayAssumption
  <2>2. WalletTyped' /\ CallsTyped'
    BY <1>7, <2>1, SettleTyped DEF AdoptCharge
  <2> QED BY <1>0, <1>7, <2>2 DEF AdoptCharge, RewardsTyped, PartsTyped
<1>8. ASSUME NEW c \in Calls, PetLoad(c) PROVE PartsTyped'
  <2>1. CallsTyped'
    <3>1. CASE Return(c, "refused")
      BY <3>1, ReturnTyped
    <3>2. CASE ~Return(c, "refused")
      <4>1. PICK l \in Labels : pc' = [pc EXCEPT ![c] = l]
        BY <1>8, <3>2 DEF PetLoad, Goto, Labels
      <4>2. /\ held' = [held EXCEPT ![c] = pets[pet[c]]]
            /\ UNCHANGED <<kind, pet, due, seen, result>>
        BY <1>8, <3>2 DEF PetLoad
      <4>3. pets[pet[c]] \in PetFields
        BY <1>0 DEF CallsTyped
      <4> QED BY <1>0, <4>1, <4>2, <4>3 DEF CallsTyped
    <3> QED BY <3>1, <3>2
  <2> QED BY <1>0, <1>8, <2>1 DEF PetLoad, walletVars, WalletTyped, RewardsTyped, PartsTyped
<1>9. ASSUME NEW c \in Calls, PutRename(c) PROVE PartsTyped'
  <2>1. PICK f : f = [held[c] EXCEPT !.writes = @ \cup {c}]
    OBVIOUS
  <2>2. held' = [held EXCEPT ![c] = f]
    BY <1>9, <2>1 DEF PutRename
  <2>3. f \in PetFields
    BY SMTT(30), <1>0, <2>1 DEF CallsTyped, PetFields
  <2>4. held' \in [Calls -> PetFields]
    BY <1>0, <2>2, <2>3 DEF CallsTyped
  <2> QED BY <1>0, <1>9, <2>4 DEF PutRename, Goto, walletVars, WalletTyped, RewardsTyped, CallsTyped, Labels, PartsTyped
<1>10. ASSUME NEW c \in Calls, PetSave(c) \/ DeleteKey(c) PROVE PartsTyped'
  <2>1. CallsTyped'
    BY <1>10, ReturnTyped DEF PetSave, DeleteKey
  <2>2. held[c] \in PetFields /\ NoPet \in PetFields
    BY <1>0, PetsTyped DEF CallsTyped
  <2> QED BY <1>0, <1>10, <2>1, <2>2 DEF PetSave, DeleteKey, walletVars, WalletTyped, RewardsTyped, PartsTyped
<1>11. ASSUME NEW c \in Calls, NEW d \in PetDecisions, ActDecide(c, d) PROVE PartsTyped'
  <2>1. d.points \in (-MaxInt) .. MaxInt /\ applyDecision(held[c], d, c) \in PetFields
    BY <1>0, DecisionTyped, GameplayAssumption DEF CallsTyped
  <2>2. CASE Settle(c, d.points, applyDecision(held[c], d, c))
    BY <1>0, <1>11, <2>1, <2>2, SettleTyped DEF ActDecide, RewardsTyped, PartsTyped
  <2>3. CASE Return(c, "refused") /\ UNCHANGED walletVars
    BY <1>0, <1>11, <2>3, ReturnTyped DEF ActDecide, RewardsTyped, walletVars, WalletTyped, PartsTyped
  <2> QED BY <1>11, <2>2, <2>3 DEF ActDecide
<1>12. ASSUME NEW c \in Calls, ClaimCheck(c) PROVE PartsTyped'
  <2>1. CallsTyped'
    <3>1. CASE Return(c, "refused")
      BY <3>1, ReturnTyped
    <3>2. CASE ~Return(c, "refused")
      <4>1. PICK S : S = Claimants
        OBVIOUS
      <4>2. /\ seen' = [seen EXCEPT ![c] = S] /\ Goto(c, "award")
            /\ UNCHANGED <<kind, pet, held, due, result>>
        BY <1>12, <3>2, <4>1 DEF ClaimCheck, Claimants
      <4>3. S \in SUBSET (Calls \cup {Before})
        BY <4>1 DEF RewardsMade, Claimants
      <4> QED BY <1>0, <4>2, <4>3 DEF CallsTyped, Goto, Labels
    <3> QED BY <3>1, <3>2
  <2> QED BY <1>0, <1>12, <2>1 DEF ClaimCheck, walletVars, WalletTyped, RewardsTyped, PartsTyped
<1>13. ASSUME NEW c \in Calls, NEW d \in RewardDecisions, ClaimAward(c, d) PROVE PartsTyped'
  <2>1. d.points \in (-MaxInt) .. MaxInt /\ NoPet \in PetFields
    BY PetsTyped, GameplayAssumption
  <2>2. CASE Settle(c, d.points, NoPet)
    BY <1>0, <1>13, <2>1, <2>2, SettleTyped DEF ClaimAward, RewardsTyped, PartsTyped
  <2>3. CASE Return(c, "refused") /\ UNCHANGED walletVars
    BY <1>0, <1>13, <2>3, ReturnTyped DEF ClaimAward, RewardsTyped, walletVars, WalletTyped, PartsTyped
  <2> QED BY <1>13, <2>2, <2>3 DEF ClaimAward
<1>14. ASSUME NEW c \in Calls, ClaimSave(c) PROVE PartsTyped'
  <2>1. CallsTyped'
    BY <1>14, ReturnTyped DEF ClaimSave
  <2>2. due[c] \in Nat
    BY <1>0, <1>14, GameplayAssumption DEF CallInv, Accounted, ClaimSave, CallsTyped
  <2>3. RewardsTyped'
    BY <1>0, <1>14, <2>2 DEF ClaimSave, Reward, RewardsTyped
  <2> QED BY <1>0, <1>14, <2>1, <2>3 DEF ClaimSave, walletVars, WalletTyped, PartsTyped
<1>15. ASSUME NEW c \in Calls, StoreFails(c) PROVE PartsTyped'
  BY <1>0, <1>15, ReturnTyped DEF StoreFails, walletVars, WalletTyped, RewardsTyped, PartsTyped
<1> QED
  BY <1>1, <1>2, <1>3, <1>4, <1>5, <1>6, <1>7, <1>8, <1>9, <1>10, <1>11, <1>12, <1>13, <1>14, <1>15
     DEF Next

-----------------------------------------------------------------------------
(* The balance                                                             *)

\* What a step may do to the wallet of a peer.
WalletStep ==
  \/ UNCHANGED <<points, ledger>> /\ (row => row')
  \/ ~row /\ row' /\ points' = 0 /\ UNCHANGED ledger
  \/ \E c \in Calls : \E delta \in (-MaxInt) .. MaxInt :
       pc[c] \in {"charge", "decide", "award"} /\ AddTransaction(c, delta)

LEMMA SettleWallet ==
  ASSUME NEW c \in Calls, NEW delta \in (-MaxInt) .. MaxInt, NEW next,
         pc[c] \in {"charge", "decide", "award"}, Settle(c, delta, next)
  PROVE  WalletStep
BY DEF Settle, WalletStep, walletVars

LEMMA WalletSteps ==
  ASSUME Typed, Next
  PROVE  WalletStep
<1>1. ASSUME NEW c \in Calls, AdoptCharge(c) PROVE WalletStep
  BY <1>1, SettleWallet, GameplayAssumption DEF AdoptCharge
<1>2. ASSUME NEW c \in Calls, NEW d \in PetDecisions, ActDecide(c, d) PROVE WalletStep
  <2>1. d.points \in (-MaxInt) .. MaxInt
    BY GameplayAssumption
  <2> QED BY <1>2, <2>1, SettleWallet DEF ActDecide, WalletStep, walletVars
<1>3. ASSUME NEW c \in Calls, NEW d \in RewardDecisions, ClaimAward(c, d) PROVE WalletStep
  <2>1. d.points \in (-MaxInt) .. MaxInt
    BY GameplayAssumption
  <2> QED BY <1>3, <2>1, SettleWallet DEF ClaimAward, WalletStep, walletVars
<1>4. ASSUME NEW c \in Calls, GetWalletInsert(c) PROVE WalletStep
  BY <1>4 DEF GetWalletInsert, WalletStep, walletVars
<1>5. CASE UNCHANGED walletVars
  BY <1>5 DEF WalletStep, walletVars
<1> QED
  BY <1>1, <1>2, <1>3, <1>4, <1>5
     DEF Next, Tick, Crash, Begin, GetWalletRead, AdoptLookup, PetLoad, PutRename, PetSave, DeleteKey,
         ClaimCheck, ClaimSave, StoreFails

LEMMA BalanceSum == BalanceIsLedger <=> points = Sum(ledger) /\ (ledger # {} => row)
BY DEF BalanceIsLedger, Sum

LEMMA BalancedInit == Init => Balanced
<1> SUFFICES ASSUME Init PROVE IsFiniteSet(ledger) /\ points = Sum(ledger) /\ (ledger # {} => row)
  BY BalanceSum DEF Balanced
<1>1. CASE row = FALSE /\ points = 0 /\ ledger = {}
  BY <1>1, SumEmpty, FS_EmptySet
<1>2. CASE row = TRUE /\ points = Opening /\ ledger = {OpeningEntry}
  <2>1. OpeningEntry.delta = Opening /\ Opening \in Int
    BY GameplayAssumption DEF OpeningEntry
  <2>2. Sum({} \cup {OpeningEntry}) = Sum({}) + Opening
    BY <2>1, SumAdd, FS_EmptySet
  <2>3. {} \cup {OpeningEntry} = {OpeningEntry}
    OBVIOUS
  <2>4. IsFiniteSet(ledger)
    BY <1>2, FS_Singleton
  <2>5. Sum(ledger) = Opening
    BY <1>2, <2>1, <2>2, <2>3, SumEmpty
  <2> QED BY <1>2, <2>4, <2>5
<1> QED BY <1>1, <1>2 DEF Init

LEMMA BalancedNext ==
  ASSUME Typed, Balanced, Next, \A c \in Calls : CallInv(c)
  PROVE  Balanced'
<1>0. /\ IsFiniteSet(ledger) /\ points = Sum(ledger) /\ (ledger # {} => row)
      /\ points \in 0 .. MaxInt
      /\ \A e \in ledger : e.delta \in Int
  BY TypedParts, BalanceSum DEF Balanced, PartsTyped, WalletTyped
<1> SUFFICES IsFiniteSet(ledger') /\ points' = Sum(ledger') /\ (ledger' # {} => row')
  <2>1. (BalanceIsLedger <=> points = Sum(ledger) /\ (ledger # {} => row))'
    BY BalanceSum, PTL
  <2> QED BY <2>1 DEF Balanced
<1>1. CASE UNCHANGED <<points, ledger>> /\ (row => row')
  BY <1>0, <1>1
<1>2. CASE ~row /\ row' /\ points' = 0 /\ UNCHANGED ledger
  BY <1>0, <1>2, SumEmpty
<1>3. ASSUME NEW c \in Calls, NEW delta \in (-MaxInt) .. MaxInt,
             pc[c] \in {"charge", "decide", "award"}, AddTransaction(c, delta)
      PROVE  IsFiniteSet(ledger') /\ points' = Sum(ledger') /\ (ledger' # {} => row')
  <2>1. PICK e : e = [call |-> c, delta |-> delta]
    OBVIOUS
  <2>2. e \notin ledger
    BY <1>3, <2>1 DEF CallInv, Accounted, Settled
  <2>3. PICK T : T = ledger \cup {e}
    OBVIOUS
  <2>4. e.delta = delta /\ delta \in Int
    BY <2>1, GameplayAssumption
  <2>5. Sum(T) = Sum(ledger) + delta /\ IsFiniteSet(T)
    BY <1>0, <2>2, <2>3, <2>4, SumAdd, FS_AddElement
  <2>6. points' = points + delta
    BY <1>0, <1>3, AddsOrWraps DEF AddTransaction
  <2>7. ledger' = T /\ row'
    BY <1>3, <2>1, <2>3 DEF AddTransaction
  <2> QED BY <1>0, <2>5, <2>6, <2>7
<1> QED BY <1>1, <1>2, <1>3, WalletSteps DEF WalletStep

-----------------------------------------------------------------------------
(* The calls                                                               *)

CallStep(c) ==
  \/ \E k \in Kinds, i \in PetIds : Begin(c, k, i)
  \/ GetWalletRead(c) \/ GetWalletInsert(c)
  \/ AdoptLookup(c) \/ AdoptCharge(c)
  \/ PetLoad(c) \/ PutRename(c) \/ PetSave(c) \/ DeleteKey(c)
  \/ \E d \in PetDecisions : ActDecide(c, d)
  \/ ClaimCheck(c) \/ ClaimSave(c)
  \/ \E d \in RewardDecisions : ClaimAward(c, d)
  \/ StoreFails(c)

\* What a step of call c leaves of the others.
KeepsOthers(c) ==
  \A x \in Calls \ {c} :
    /\ kind'[x] = kind[x] /\ pc'[x] = pc[x] /\ held'[x] = held[x]
    /\ due'[x] = due[x] /\ seen'[x] = seen[x] /\ result'[x] = result[x]
    /\ \A e : e.call = x => (e \in ledger' <=> e \in ledger)

\* What any step leaves of calls that have ended well and of what was begun.
Lasting ==
  \A x \in Calls :
    /\ result[x] = "ok" => result'[x] = "ok" /\ due'[x] = due[x]
    /\ kind[x] # "none" => kind'[x] = kind[x]

\* What a step may do to the rewards and to the clock.
RewardStep(c) ==
  /\ clock' = clock
  /\ rewards' = rewards \/ (result[c] = "none" /\ rewards' = rewards \cup {Reward(c, due[c])})

LEMMA TransactionOthers ==
  ASSUME NEW c \in Calls, NEW delta, AddTransaction(c, delta)
  PROVE  \A e : e.call # c => (e \in ledger' <=> e \in ledger)
BY DEF AddTransaction

LEMMA SettleOthers ==
  ASSUME Typed, NEW c \in Calls, NEW delta, NEW next, Settle(c, delta, next)
  PROVE  KeepsOthers(c) /\ kind' = kind
<1>1. CallsTyped
  BY TypedParts DEF PartsTyped
<1>2. \A e : e.call # c => (e \in ledger' <=> e \in ledger)
  BY TransactionOthers DEF Settle, walletVars
<1> QED BY <1>1, <1>2 DEF Settle, KeepsOthers, Goto, Return, CallsTyped

\* A step of c changes nothing of another call.
LEMMA OthersKept ==
  ASSUME Typed, NEW c \in Calls, CallStep(c)
  PROVE  KeepsOthers(c)
<1>0. CallsTyped
  BY TypedParts DEF PartsTyped
<1>1. ASSUME NEW k \in Kinds, NEW i \in PetIds, Begin(c, k, i) PROVE KeepsOthers(c)
  BY <1>0, <1>1 DEF Begin, Goto, KeepsOthers, CallsTyped, walletVars
<1>2. CASE GetWalletRead(c) \/ GetWalletInsert(c)
  BY <1>0, <1>2 DEF GetWalletRead, GetWalletInsert, Goto, Return, KeepsOthers, CallsTyped, walletVars
<1>3. CASE AdoptLookup(c) \/ PetLoad(c) \/ PutRename(c)
  BY <1>0, <1>3 DEF AdoptLookup, PetLoad, PutRename, Goto, Return, KeepsOthers, CallsTyped, walletVars
<1>4. CASE PetSave(c) \/ DeleteKey(c) \/ ClaimCheck(c) \/ ClaimSave(c) \/ StoreFails(c)
  BY <1>0, <1>4
     DEF PetSave, DeleteKey, ClaimCheck, ClaimSave, StoreFails, Goto, Return, KeepsOthers, CallsTyped,
         walletVars
<1>5. CASE AdoptCharge(c)
  BY <1>5, SettleOthers DEF AdoptCharge
<1>6. CASE UNCHANGED walletVars /\ Return(c, "refused")
  BY <1>0, <1>6 DEF Goto, Return, KeepsOthers, CallsTyped, walletVars
<1>7. ASSUME NEW d \in PetDecisions, ActDecide(c, d) PROVE KeepsOthers(c)
  BY <1>6, <1>7, SettleOthers DEF ActDecide
<1>8. ASSUME NEW d \in RewardDecisions, ClaimAward(c, d) PROVE KeepsOthers(c)
  BY <1>6, <1>8, SettleOthers DEF ClaimAward
<1> QED BY <1>1, <1>2, <1>3, <1>4, <1>5, <1>7, <1>8 DEF CallStep

\* Only a call without a result moves, and only the first request of a call
\* gives it its method.
LEMMA StepsLast ==
  ASSUME Typed, NEW c \in Calls, CallStep(c), CallInv(c)
  PROVE  Lasting /\ RewardStep(c)
<1>0. CallsTyped /\ KeepsOthers(c) /\ Running(c)
  BY TypedParts, OthersKept DEF PartsTyped, CallInv
<1>1. /\ result[c] = "none"
      /\ kind[c] # "none" => kind'[c] = kind[c]
  <2>1. kind[c] = "none" \/ pc[c] # "idle"
    BY DEF CallStep, Begin, GetWalletRead, GetWalletInsert, AdoptLookup, AdoptCharge, PetLoad, PutRename,
           PetSave, DeleteKey, ActDecide, ClaimCheck, ClaimSave, ClaimAward, StoreFails
  <2>2. \/ kind' = kind
        \/ kind[c] = "none"
    BY DEF CallStep, Begin, GetWalletRead, GetWalletInsert, AdoptLookup, AdoptCharge, PetLoad, PutRename,
           PetSave, DeleteKey, ActDecide, ClaimCheck, ClaimSave, ClaimAward, StoreFails, Settle, Return
  <2> QED BY <1>0, <2>1, <2>2 DEF Running
<1>2. Lasting
  BY <1>0, <1>1 DEF Lasting, KeepsOthers
<1>3. RewardStep(c)
  BY <1>1 DEF RewardStep, CallStep, Begin, GetWalletRead, GetWalletInsert, AdoptLookup, AdoptCharge,
              PetLoad, PutRename, PetSave, DeleteKey, ActDecide, ClaimCheck, ClaimSave, ClaimAward,
              StoreFails
<1> QED BY <1>2, <1>3

\* The other calls keep what the invariant says of them.
LEMMA OthersInv ==
  ASSUME Typed, RewardsMade, NEW c \in Calls, CallStep(c), CallInv(c),
         NEW x \in Calls \ {c}, CallInv(x)
  PROVE  CallInv(x)'
<1>0. /\ KeepsOthers(c) /\ Lasting /\ RewardStep(c) /\ CallsTyped
      /\ Running(x) /\ Accounted(x) /\ Carries(x) /\ Waited(x)
  BY OthersKept, StepsLast, TypedParts DEF CallInv, PartsTyped
<1>1. Running(x)'
  BY <1>0 DEF KeepsOthers, Running
<1>2. {e \in ledger' : e.call = x} = {e \in ledger : e.call = x}
  BY <1>0 DEF KeepsOthers
<1>3. Accounted(x)'
  BY <1>0, <1>2 DEF KeepsOthers, Accounted, Settled
<1>4. Carries(x)'
  <2>1. held[x].writes \subseteq Calls
    BY <1>0 DEF CallsTyped, PetFields
  <2>2. HoldsPet(x)' => HoldsPet(x)
    BY <1>0 DEF KeepsOthers, HoldsPet
  <2>3. \A y \in Calls : kind[y] = "adopt" => kind'[y] = "adopt"
    BY <1>0 DEF Lasting
  <2>4. \A y \in Calls : result[y] = "ok" => result'[y] = "ok"
    BY <1>0 DEF Lasting
  <2>5. held'[x] = held[x] /\ pc'[x] = pc[x]
    BY <1>0 DEF KeepsOthers
  <2> QED BY <1>0, <2>1, <2>2, <2>3, <2>4, <2>5 DEF Carries
<1>5. Waited(x)'
  <2>1. Claimants \subseteq Claimants'
    BY <1>0 DEF RewardStep, Claimants
  <2>2. seen'[x] = seen[x] /\ (Passed(x)' <=> Passed(x)) /\ clock' = clock
    BY <1>0 DEF KeepsOthers, Passed, RewardStep
  <2>3. ASSUME NEW r \in rewards', r.call \in seen[x] PROVE r \in rewards
    <3>1. CASE result[c] = "none" /\ r = Reward(c, due[c])
      <4>1. r.call = c
        BY <3>1 DEF Reward
      <4>2. PICK s \in rewards : s.call = c
        BY <4>1, <2>3, <1>0 DEF Waited, Claimants
      <4>3. c # Before
        BY GameplayAssumption DEF Before
      <4> QED BY <3>1, <4>2, <4>3 DEF RewardsMade
    <3> QED BY <1>0, <2>3, <3>1 DEF RewardStep
  <2> QED BY <1>0, <2>1, <2>2, <2>3 DEF Waited
<1> QED BY <1>1, <1>3, <1>4, <1>5 DEF CallInv

\* A call that returns: what is left to say of it is how it ended.
LEMMA ReturnInv ==
  ASSUME Typed, NEW c \in Calls, NEW how \in {"ok", "refused", "lost"}, Return(c, how),
         kind[c] # "none", CallInv(c), Claimants \subseteq Claimants',
         how = "ok" => Settled(c, due[c])', how = "refused" => Settled(c, 0)'
  PROVE  CallInv(c)'
<1>0. CallsTyped /\ Waited(c)
  BY TypedParts DEF CallInv, PartsTyped
<1>1. /\ pc'[c] = "idle" /\ result'[c] = how /\ kind'[c] = kind[c] /\ due'[c] = due[c]
      /\ seen'[c] = seen[c] /\ kind[c] \in Kinds
  BY <1>0 DEF Return, Goto, CallsTyped
<1>2. Running(c)'
  <2>1. Methods("idle") = Kinds \cup {"none"}
    BY DEF Methods, Kinds
  <2>2. Methods(pc[c])' = Kinds \cup {"none"}
    BY <1>1, <2>1 DEF Methods
  <2> QED BY <1>1, <2>2 DEF Running
<1>3. Accounted(c)'
  BY <1>1 DEF Accounted, Settled, Kinds
<1>4. Carries(c)'
  BY <1>1 DEF Carries, HoldsPet
<1>5. Waited(c)'
  BY <1>0, <1>1 DEF Waited, Passed
<1> QED BY <1>2, <1>3, <1>4, <1>5 DEF CallInv

\* A refused call has moved nothing.
LEMMA RefusedInv ==
  ASSUME Typed, NEW c \in Calls, Return(c, "refused"), UNCHANGED <<ledger, rewards>>,
         pc[c] \notin {"idle", "save"}, CallInv(c)
  PROVE  CallInv(c)'
<1>1. Settled(c, 0) /\ kind[c] # "none"
  <2>1. Settled(c, 0)
    BY DEF CallInv, Accounted
  <2>2. CallsTyped /\ kind[c] \in Methods(pc[c])
    BY TypedParts DEF CallInv, Running, PartsTyped
  <2>3. pc[c] \in Labels \ {"idle"}
    BY <2>2 DEF CallsTyped
  <2>4. "none" \notin Methods(pc[c])
    BY <2>3 DEF Methods, Kinds, Labels
  <2> QED BY <2>1, <2>2, <2>4
<1>2. Settled(c, 0)' /\ Claimants \subseteq Claimants'
  BY <1>1 DEF Settled, Claimants
<1> QED BY <1>1, <1>2, ReturnInv

\* A call that goes on to a label before its settlement and holds nothing yet.
LEMMA GoesOnInv ==
  ASSUME Typed, NEW c \in Calls, CallInv(c), pc[c] \notin {"idle", "save"},
         NEW l \in {"insert", "charge", "award", "remove"}, Goto(c, l), kind[c] \in Methods(l),
         UNCHANGED <<kind, held, due, result, ledger, rewards>>, Waited(c)'
  PROVE  CallInv(c)'
<1>0. CallsTyped
  BY TypedParts DEF PartsTyped
<1>1. pc'[c] = l /\ kind'[c] = kind[c] /\ due'[c] = due[c] /\ result'[c] = result[c]
  BY <1>0 DEF Goto, CallsTyped
<1>2. Running(c)'
  <2>1. Methods(pc[c])' = Methods(l)
    BY <1>1 DEF Methods
  <2>2. "none" \notin Methods(l)
    BY DEF Methods, Kinds
  <2>3. result[c] = "none"
    BY DEF CallInv, Running
  <2> QED BY <1>1, <2>1, <2>2, <2>3 DEF Running
<1>3. Accounted(c)'
  BY <1>1 DEF CallInv, Accounted, Settled
<1>4. Carries(c)'
  BY <1>1 DEF Carries, HoldsPet
<1> QED BY <1>2, <1>3, <1>4 DEF CallInv

\* A settlement: its entry is the only one of the call.
LEMMA SettleInv ==
  ASSUME Typed, NEW c \in Calls, CallInv(c), pc[c] \in {"charge", "decide", "award"},
         NEW delta \in (-MaxInt) .. MaxInt, NEW next, Settle(c, delta, next),
         UNCHANGED <<rewards, clock>>,
         kind[c] = "claim" => delta >= 0,
         kind[c] # "claim" => /\ \A x \in next.writes : result[x] = "ok" \/ x = c
                              /\ \E x \in next.writes : kind[x] = "adopt",
         kind[c] # "claim" => next.writes \subseteq Calls,
         kind[c] = "claim" => pc[c] = "award"
  PROVE  CallInv(c)'
<1>0. CallsTyped /\ Waited(c) /\ Accounted(c) /\ Running(c)
  BY TypedParts DEF CallInv, PartsTyped
<1>1. CASE UNCHANGED walletVars /\ Return(c, "refused")
  BY <1>1, RefusedInv DEF walletVars
<1>2. CASE /\ \/ delta = 0 /\ UNCHANGED walletVars
              \/ AddTransaction(c, delta)
           /\ due' = [due EXCEPT ![c] = delta]
           /\ held' = [held EXCEPT ![c] = next]
           /\ Goto(c, "save")
           /\ UNCHANGED <<kind, pet, seen, result>>
  <2>1. /\ pc'[c] = "save" /\ kind'[c] = kind[c] /\ due'[c] = delta /\ result'[c] = result[c]
        /\ held'[c] = next /\ seen'[c] = seen[c] /\ result' = result /\ kind' = kind
    BY <1>0, <1>2 DEF Goto, CallsTyped
  <2>2. /\ result[c] = "none" /\ kind[c] \in {"adopt", "act", "claim"}
        /\ kind[c] = "claim" <=> pc[c] = "award"
    BY <1>0 DEF Running, Methods, Kinds
  <2>3. Running(c)'
    <3>1. Methods("save") = {"adopt", "act", "put", "claim"}
      BY DEF Methods, Kinds
    <3>2. Methods(pc[c])' = {"adopt", "act", "put", "claim"}
      BY <2>1, <3>1 DEF Methods
    <3> QED BY <2>1, <2>2, <3>2 DEF Running
  <2>4. {e \in ledger : e.call = c} = {}
    BY <1>0 DEF Accounted, Settled
  <2>5. Settled(c, delta)'
    <3>1. CASE delta = 0 /\ UNCHANGED walletVars
      BY <2>4, <3>1 DEF Settled, walletVars
    <3>2. CASE AddTransaction(c, delta)
      BY <2>4, <3>2 DEF Settled, AddTransaction
    <3> QED BY <1>2, <3>1, <3>2
  <2>6. Accounted(c)'
    BY <2>1, <2>2, <2>5 DEF Accounted, Settled
  <2>7. Carries(c)'
    BY <2>1 DEF Carries, HoldsPet
  <2>8. Waited(c)'
    BY <1>0, <2>1, <2>2 DEF Waited, Passed, Claimants
  <2> QED BY <2>3, <2>6, <2>7, <2>8 DEF CallInv
<1> QED BY <1>1, <1>2 DEF Settle

\* onCooldown looks at the latest reward, so that all of them are old enough
\* when it is over.
LEMMA CooldownOver ==
  ASSUME Typed, HasLatest, ~onCooldown, NEW r \in rewards
  PROVE  clock - r.at >= Cooldown
<1> DEFINE S == {s.at : s \in rewards}
<1>1. RewardsTyped /\ clock \in 0 .. MaxTime /\ MaxTime \in Nat
  BY TypedParts, GameplayAssumption DEF PartsTyped
<1>2. PICK m \in rewards : \A s \in rewards : s.at <= m.at
  BY DEF HasLatest
<1>3. S \subseteq Int /\ r.at \in S
  BY <1>1 DEF RewardsTyped
<1>4. m.at \in S /\ \A y \in S : m.at >= y
  BY <1>1, <1>2 DEF RewardsTyped
<1>5. Max(S) \in S /\ \A y \in S : Max(S) >= y
  <2> HIDE DEF S
  <2> QED BY <1>4, Zenon DEF Max
<1>6. ~(clock - Max(S) < Cooldown)
  BY DEF onCooldown
<1> HIDE DEF S
<1>7. Max(S) \in Int /\ Max(S) >= r.at /\ r.at \in Int
  BY <1>3, <1>5
<1> QED BY <1>1, <1>6, <1>7, GameplayAssumption

\* The call that takes the step.
LEMMA MoverInv ==
  ASSUME Typed, PetsMade, HasLatest, NEW c \in Calls, CallStep(c), CallInv(c)
  PROVE  CallInv(c)'
<1>0. /\ CallsTyped /\ Running(c) /\ Accounted(c) /\ Carries(c) /\ Waited(c) /\ RewardStep(c)
      /\ pets \in [PetIds -> PetFields]
  BY TypedParts, StepsLast DEF CallInv, PartsTyped
<1>m. /\ Methods("get_wallet") = {"get_wallet"} /\ Methods("insert") = {"get_wallet"}
      /\ Methods("adopt") = {"adopt"} /\ Methods("charge") = {"adopt"}
      /\ Methods("act") = {"act"} /\ Methods("decide") = {"act"}
      /\ Methods("put") = {"put"} /\ Methods("rename") = {"put"}
      /\ Methods("delete") = {"delete"} /\ Methods("remove") = {"delete"}
      /\ Methods("claim") = {"claim"} /\ Methods("award") = {"claim"}
      /\ Methods("save") = {"adopt", "act", "put", "claim"}
  BY DEF Methods, Kinds
<1>c. Claimants \subseteq Claimants'
  BY <1>0 DEF RewardStep, Claimants
<1>1. ASSUME NEW k \in Kinds, NEW i \in PetIds, Begin(c, k, i) PROVE CallInv(c)'
  <2>1. /\ pc'[c] = k /\ kind'[c] = k /\ due'[c] = due[c] /\ result'[c] = result[c]
        /\ kind[c] = "none" /\ seen'[c] = seen[c] /\ k \in Kinds
        /\ UNCHANGED <<ledger, rewards, clock>>
    BY <1>0, <1>1 DEF Begin, Goto, CallsTyped, walletVars
  <2>2. Running(c)'
    <3>1. Methods(pc[c])' = {k}
      BY <2>1 DEF Methods, Kinds
    <3> QED BY <1>0, <2>1, <3>1 DEF Running
  <2>3. Accounted(c)'
    BY <1>0, <2>1 DEF Accounted, Settled, Running, Kinds
  <2>4. Carries(c)'
    BY <2>1 DEF Carries, HoldsPet, Kinds
  <2>5. Waited(c)'
    BY <1>0, <2>1 DEF Waited, Passed, Claimants, Kinds
  <2> QED BY <2>2, <2>3, <2>4, <2>5 DEF CallInv
<1>2. CASE GetWalletRead(c)
  <2>1. pc[c] = "get_wallet" /\ kind[c] = "get_wallet" /\ UNCHANGED <<ledger, rewards, clock>>
    BY <1>0, <1>2, <1>m DEF GetWalletRead, Running, walletVars
  <2>2. CASE Return(c, "ok")
    <3>1. Settled(c, due[c])
      BY <1>0, <2>1 DEF Accounted
    <3>2. Settled(c, due[c])'
      BY <1>0, <2>1, <2>2, <3>1 DEF Settled, Return
    <3> QED BY <1>c, <2>1, <2>2, <3>2, ReturnInv
  <2>3. CASE Goto(c, "insert") /\ UNCHANGED <<kind, pet, held, due, seen, result>>
    <3>1. Waited(c)'
      BY <1>0, <2>1, <2>3 DEF Waited, Passed, Claimants, Goto, CallsTyped
    <3> QED BY <1>m, <2>1, <2>3, <3>1, GoesOnInv
  <2> QED BY <1>2, <2>2, <2>3 DEF GetWalletRead
<1>3. CASE GetWalletInsert(c)
  <2>1. pc[c] = "insert" /\ kind[c] = "get_wallet" /\ UNCHANGED <<ledger, rewards, clock>>
    BY <1>0, <1>3, <1>m DEF GetWalletInsert, Running, walletVars
  <2>2. Settled(c, due[c]) /\ Settled(c, 0)
    BY <1>0, <2>1 DEF Accounted
  <2>3. due' = due
    BY <1>3 DEF GetWalletInsert, Return
  <2>4. Settled(c, due[c])' /\ Settled(c, 0)'
    BY <2>1, <2>2, <2>3 DEF Settled
  <2> QED BY <1>3, <1>c, <2>1, <2>4, ReturnInv DEF GetWalletInsert
<1>4. CASE AdoptLookup(c)
  <2>1. pc[c] = "adopt" /\ kind[c] = "adopt" /\ UNCHANGED <<ledger, rewards, clock>>
    BY <1>0, <1>4, <1>m DEF AdoptLookup, Running, walletVars
  <2>2. CASE Return(c, "refused")
    BY <2>1, <2>2, RefusedInv
  <2>3. CASE Goto(c, "charge") /\ UNCHANGED <<kind, pet, held, due, seen, result>>
    <3>1. Waited(c)'
      BY <1>0, <2>1, <2>3 DEF Waited, Passed, Claimants, Goto, CallsTyped
    <3> QED BY <1>m, <2>1, <2>3, <3>1, GoesOnInv
  <2> QED BY <1>4, <2>2, <2>3 DEF AdoptLookup
<1>5. CASE AdoptCharge(c)
  <2>1. pc[c] = "charge" /\ kind[c] = "adopt" /\ UNCHANGED <<rewards, clock>>
    BY <1>0, <1>5, <1>m DEF AdoptCharge, Running
  <2>2. newPet(c).writes = {c}
    BY DEF newPet
  <2>3. -AdoptCost \in (-MaxInt) .. MaxInt
    BY GameplayAssumption
  <2>4. Settle(c, -AdoptCost, newPet(c))
    BY <1>5 DEF AdoptCharge
  <2> QED BY <2>1, <2>2, <2>3, <2>4, SettleInv
<1>6. CASE PetLoad(c)
  <2>1. /\ pc[c] \in {"act", "put", "delete"} /\ kind[c] = pc[c]
        /\ UNCHANGED <<ledger, rewards, clock>>
    BY <1>0, <1>6, <1>m DEF PetLoad, Running, walletVars
  <2>2. CASE Return(c, "refused")
    BY <2>1, <2>2, RefusedInv
  <2>3. CASE ~Return(c, "refused")
    <3>1. /\ Stored(pet[c]) /\ held' = [held EXCEPT ![c] = pets[pet[c]]]
          /\ UNCHANGED <<kind, pet, due, seen, result>>
      BY <1>6, <2>3 DEF PetLoad
    <3>2. pc' = [pc EXCEPT ![c] = IF pc[c] = "act" THEN "decide" ELSE IF pc[c] = "put" THEN "rename"
                                  ELSE "remove"]
      BY <1>6, <2>1, <2>3 DEF PetLoad, Goto
    <3>3. /\ pc'[c] \in {"decide", "rename", "remove"} /\ kind'[c] = kind[c] /\ due'[c] = due[c]
          /\ result'[c] = result[c] /\ held'[c] = pets[pet[c]] /\ seen'[c] = seen[c]
          /\ result' = result /\ kind' = kind /\ pet[c] \in PetIds
          /\ kind[c] \in Methods(pc[c])'
      BY <1>0, <1>m, <2>1, <3>1, <3>2 DEF CallsTyped
    <3>4. result[c] = "none" /\ kind[c] # "none"
      BY <1>0, <2>1 DEF Running
    <3>5. Running(c)'
      BY <3>3, <3>4 DEF Running
    <3>6. Accounted(c)'
      BY <1>0, <2>1, <3>3, <3>4 DEF Accounted, Settled
    <3>7. Carries(c)'
      BY <3>1, <3>3 DEF Carries, PetsMade
    <3>8. Waited(c)'
      BY <1>0, <2>1, <3>3 DEF Waited, Passed, Claimants
    <3> QED BY <3>5, <3>6, <3>7, <3>8 DEF CallInv
  <2> QED BY <2>2, <2>3
<1>7. CASE PutRename(c)
  <2>1. pc[c] = "rename" /\ kind[c] = "put" /\ UNCHANGED <<ledger, rewards, clock>>
    BY <1>0, <1>7, <1>m DEF PutRename, Running, walletVars
  <2>2. /\ pc'[c] = "save" /\ UNCHANGED <<kind, pet, due, seen, result>>
        /\ held'[c].writes = held[c].writes \cup {c}
    BY <1>0, <1>7 DEF PutRename, Goto, CallsTyped, PetFields
  <2>3. Running(c)'
    <3>1. Methods(pc[c])' = {"adopt", "act", "put", "claim"}
      BY <1>m, <2>2 DEF Methods
    <3> QED BY <1>0, <2>1, <2>2, <3>1 DEF Running
  <2>4. Accounted(c)'
    BY <1>0, <2>1, <2>2 DEF Accounted, Settled, Running
  <2>5. Carries(c)'
    BY <1>0, <2>1, <2>2 DEF Carries, HoldsPet
  <2>6. Waited(c)'
    BY <1>0, <2>1, <2>2 DEF Waited, Passed, Claimants
  <2> QED BY <2>3, <2>4, <2>5, <2>6 DEF CallInv
<1>8. CASE PetSave(c) \/ DeleteKey(c) \/ ClaimSave(c)
  <2>1. /\ pc[c] \in {"save", "remove"} /\ UNCHANGED <<ledger, clock>> /\ Return(c, "ok")
        /\ kind[c] # "none"
    BY <1>0, <1>8, <1>m DEF PetSave, DeleteKey, ClaimSave, Running, walletVars
  <2>2. Settled(c, due[c])
    BY <1>0, <2>1 DEF Accounted
  <2>3. Settled(c, due[c])'
    BY <2>1, <2>2 DEF Settled, Return
  <2> QED BY <1>c, <2>1, <2>3, ReturnInv
<1>9. CASE StoreFails(c)
  <2>1. pc[c] \in {"save", "remove"} /\ Return(c, "lost") /\ kind[c] # "none"
    BY <1>0, <1>9, <1>m DEF StoreFails, Running
  <2> QED BY <1>c, <2>1, ReturnInv
<1>10. ASSUME NEW d \in PetDecisions, ActDecide(c, d) PROVE CallInv(c)'
  <2>1. pc[c] = "decide" /\ kind[c] = "act" /\ UNCHANGED <<rewards, clock>>
    BY <1>0, <1>10, <1>m DEF ActDecide, Running
  <2>2. PICK next : next = applyDecision(held[c], d, c)
    OBVIOUS
  <2>3. next.writes = held[c].writes \cup {c} /\ held[c].writes \subseteq Calls
    BY <1>0, <2>2 DEF applyDecision, CallsTyped, PetFields
  <2>4. /\ \A x \in held[c].writes : result[x] = "ok" \/ x = c
        /\ \E x \in held[c].writes : kind[x] = "adopt"
    BY <1>0, <2>1 DEF Carries, HoldsPet
  <2>5. d.points \in (-MaxInt) .. MaxInt
    BY GameplayAssumption
  <2>6. CASE Settle(c, d.points, next)
    BY <2>1, <2>3, <2>4, <2>5, <2>6, SettleInv
  <2>7. CASE Return(c, "refused") /\ UNCHANGED walletVars
    BY <2>1, <2>7, RefusedInv DEF walletVars
  <2> QED BY <1>10, <2>2, <2>6, <2>7 DEF ActDecide
<1>11. CASE ClaimCheck(c)
  <2>1. pc[c] = "claim" /\ kind[c] = "claim" /\ UNCHANGED <<ledger, rewards, clock>>
    BY <1>0, <1>11, <1>m DEF ClaimCheck, Running, walletVars
  <2>2. CASE Return(c, "refused")
    BY <2>1, <2>2, RefusedInv
  <2>3. CASE ~Return(c, "refused")
    <3>1. /\ ~onCooldown /\ seen'[c] = Claimants /\ Goto(c, "award")
          /\ UNCHANGED <<kind, pet, held, due, result>>
      BY <1>0, <1>11, <2>3 DEF ClaimCheck, Claimants, CallsTyped
    <3>2. \A r \in rewards : clock - r.at >= Cooldown
      BY <3>1, CooldownOver
    <3>3. Waited(c)'
      BY <2>1, <3>1, <3>2 DEF Waited, Claimants
    <3> QED BY <1>m, <2>1, <3>1, <3>3, GoesOnInv
  <2> QED BY <2>2, <2>3
<1>12. ASSUME NEW d \in RewardDecisions, ClaimAward(c, d) PROVE CallInv(c)'
  <2>1. pc[c] = "award" /\ kind[c] = "claim" /\ UNCHANGED <<rewards, clock>>
    BY <1>0, <1>12, <1>m DEF ClaimAward, Running
  <2>2. d.points \in (-MaxInt) .. MaxInt
    BY GameplayAssumption
  <2>3. CASE d.points >= 0 /\ Settle(c, d.points, NoPet)
    BY <2>1, <2>2, <2>3, SettleInv
  <2>4. CASE Return(c, "refused") /\ UNCHANGED walletVars
    BY <2>1, <2>4, RefusedInv DEF walletVars
  <2> QED BY <1>12, <2>3, <2>4 DEF ClaimAward
<1> QED
  BY <1>1, <1>2, <1>3, <1>4, <1>5, <1>6, <1>7, <1>8, <1>9, <1>10, <1>11, <1>12 DEF CallStep

-----------------------------------------------------------------------------
(* The stored records                                                      *)

\* savePet writes what the call holds, DeleteKey removes; the calls behind a
\* record stay well ended.
LEMMA PetsKept ==
  ASSUME Typed, PetsMade, NEW c \in Calls, CallStep(c), CallInv(c)
  PROVE  PetsMade'
<1>0. /\ Lasting /\ CallsTyped /\ pets \in [PetIds -> PetFields] /\ Running(c) /\ Carries(c)
  BY StepsLast, TypedParts DEF CallInv, PartsTyped
<1>1. /\ \A x \in Calls : result[x] = "ok" => result'[x] = "ok"
      /\ \A x \in Calls : kind[x] = "adopt" => kind'[x] = "adopt"
  BY <1>0 DEF Lasting
<1>2. \A i \in PetIds : pets[i].writes \subseteq Calls
  BY <1>0 DEF PetFields
<1>3. CASE PetSave(c)
  <2>1. pc[c] = "save" /\ kind[c] # "claim" /\ pets' = [pets EXCEPT ![pet[c]] = held[c]]
        /\ result'[c] = "ok" /\ pet[c] \in PetIds
    BY <1>0, <1>3 DEF PetSave, Return, CallsTyped
  <2>2. /\ \A x \in held[c].writes : result[x] = "ok" \/ x = c
        /\ \E x \in held[c].writes : kind[x] = "adopt"
        /\ held[c].writes \subseteq Calls
    BY <1>0, <2>1 DEF Carries, HoldsPet, CallsTyped, PetFields
  <2>3. ASSUME NEW i \in PetIds
        PROVE  /\ \A x \in pets'[i].writes : result'[x] = "ok"
               /\ Stored(i)' => \E x \in pets'[i].writes : kind'[x] = "adopt"
    <3>1. CASE i = pet[c]
      BY <1>0, <1>1, <2>1, <2>2, <3>1
    <3>2. CASE i # pet[c]
      <4>1. pets'[i] = pets[i]
        BY <1>0, <2>1, <3>2
      <4> QED BY <1>1, <1>2, <4>1 DEF PetsMade, Stored
    <3> QED BY <3>1, <3>2
  <2> QED BY <2>3 DEF PetsMade
<1>4. CASE DeleteKey(c)
  <2>1. pets' = [pets EXCEPT ![pet[c]] = NoPet] /\ pet[c] \in PetIds
    BY <1>0, <1>4 DEF DeleteKey, CallsTyped
  <2>2. ASSUME NEW i \in PetIds
        PROVE  /\ \A x \in pets'[i].writes : result'[x] = "ok"
               /\ Stored(i)' => \E x \in pets'[i].writes : kind'[x] = "adopt"
    <3>1. CASE i = pet[c]
      BY <1>0, <2>1, <3>1 DEF NoPet, Stored
    <3>2. CASE i # pet[c]
      <4>1. pets'[i] = pets[i]
        BY <1>0, <2>1, <3>2
      <4> QED BY <1>1, <1>2, <4>1 DEF PetsMade, Stored
    <3> QED BY <3>1, <3>2
  <2> QED BY <2>2 DEF PetsMade
<1>5. CASE pets' = pets
  BY <1>1, <1>2, <1>5 DEF PetsMade, Stored
<1> QED
  BY <1>3, <1>4, <1>5
     DEF CallStep, Begin, GetWalletRead, GetWalletInsert, AdoptLookup, AdoptCharge, PetLoad, PutRename,
         ActDecide, ClaimCheck, ClaimSave, ClaimAward, StoreFails

\* saveReward adds the reward of a call that has waited for every reward it saw.
LEMMA RewardsKept ==
  ASSUME Typed, RewardInv, NEW c \in Calls, CallStep(c), CallInv(c)
  PROVE  RewardInv'
<1>0. /\ Lasting /\ RewardStep(c) /\ CallsTyped /\ RewardsTyped /\ clock \in Nat
      /\ RewardsMade /\ HasLatest /\ CooldownAfterRecord /\ Waited(c)
      /\ c # Before
  BY StepsLast, TypedParts, GameplayAssumption DEF CallInv, PartsTyped, RewardInv, Before
<1>1. CASE UNCHANGED <<rewards, clock>>
  <2>1. RewardsMade'
    BY <1>0, <1>1 DEF RewardsMade, Lasting, Claimants
  <2>2. HasLatest' /\ CooldownAfterRecord'
    BY <1>0, <1>1 DEF HasLatest, CooldownAfterRecord
  <2> QED BY <2>1, <2>2 DEF RewardInv
<1>2. CASE ClaimSave(c)
  <2>1. PICK n : n = Reward(c, due[c])
    OBVIOUS
  <2>2. n.call = c /\ n.points = due[c] /\ n.at = clock /\ n.seen = seen[c]
    BY <2>1 DEF Reward
  <2>3. /\ rewards' = rewards \cup {n} /\ clock' = clock /\ result'[c] = "ok" /\ due' = due
        /\ Passed(c) /\ result[c] = "none"
    BY <1>0, <1>2, <2>1 DEF ClaimSave, Return, CallsTyped, Passed, CallInv, Running
  <2>4. \A r \in rewards : r.call # c
    BY <1>0, <2>3 DEF RewardsMade
  <2>5. /\ \A r \in rewards : r.at <= clock /\ r.at \in Nat
        /\ \A r \in rewards : r.call \in seen[c] => clock - r.at >= Cooldown
        /\ c \notin seen[c]
    BY <1>0, <2>3, <2>4 DEF RewardsMade, RewardsTyped, Waited, Claimants
  <2>6. RewardsMade'
    <3>1. Claimants \subseteq Claimants' /\ seen[c] \subseteq Claimants
      BY <1>0, <2>3 DEF Claimants, Waited
    <3>2. \A r \in rewards : r.call = Before \/ (r.call \in Calls /\ result'[r.call] = "ok" /\ r.points = due'[r.call])
      BY <1>0 DEF RewardsMade, Lasting
    <3>3. \A r \in rewards : r.at <= clock' /\ r.seen \subseteq Claimants'
      BY <1>0, <2>3, <3>1 DEF RewardsMade
    <3>4. n.at <= clock' /\ n.seen \subseteq Claimants' /\ n.call \in Calls /\ result'[n.call] = "ok"
          /\ n.points = due'[n.call]
      BY <1>0, <2>2, <2>3, <3>1
    <3> QED BY <2>3, <3>2, <3>3, <3>4 DEF RewardsMade
  <2>7. HasLatest'
    <3>1. n \in rewards' /\ \A s \in rewards' : s.at <= n.at
      BY <1>0, <2>2, <2>3, <2>5
    <3> QED BY <3>1 DEF HasLatest
  <2>8. CooldownAfterRecord'
    <3>1. ASSUME NEW r \in rewards', NEW s \in rewards', r.call \in s.seen
          PROVE  s.at - r.at >= Cooldown
      <4>1. CASE r = n
        <5>1. s = n \/ s \in rewards
          BY <2>3
        <5>2. s.seen \subseteq Claimants
          BY <1>0, <2>2, <5>1 DEF Waited, RewardsMade
        <5>3. c \in Claimants
          BY <2>2, <3>1, <4>1, <5>2
        <5> QED BY <2>4, <5>3 DEF Claimants
      <4>2. CASE r \in rewards /\ s = n
        BY <2>2, <2>5, <3>1, <4>2
      <4>3. CASE r \in rewards /\ s \in rewards
        BY <1>0, <3>1, <4>3 DEF CooldownAfterRecord
      <4> QED BY <2>3, <4>1, <4>2, <4>3
    <3> QED BY <3>1 DEF CooldownAfterRecord
  <2> QED BY <2>6, <2>7, <2>8 DEF RewardInv
<1> QED
  BY <1>1, <1>2
     DEF CallStep, Begin, GetWalletRead, GetWalletInsert, AdoptLookup, AdoptCharge, PetLoad, PutRename,
         PetSave, DeleteKey, ActDecide, ClaimCheck, ClaimAward, StoreFails

-----------------------------------------------------------------------------
(* The steps of no call                                                    *)

\* Time passes: rewards only grow older.
LEMMA TickInv ==
  ASSUME Typed, PetsMade, RewardInv, \A c \in Calls : CallInv(c), Tick
  PROVE  PetsMade' /\ RewardInv' /\ \A c \in Calls : CallInv(c)'
<1>0. /\ clock \in Nat /\ clock' = clock + 1 /\ RewardsTyped /\ Cooldown \in Nat
      /\ UNCHANGED <<ledger, pets, rewards, kind, pc, pet, held, due, seen, result>>
  BY TypedParts, GameplayAssumption DEF PartsTyped, Tick, walletVars, callVars
<1>1. PetsMade'
  BY <1>0 DEF PetsMade, Stored
<1>2. RewardInv'
  <2>1. RewardsMade'
    BY <1>0 DEF RewardInv, RewardsMade, Claimants, RewardsTyped
  <2>2. HasLatest' /\ CooldownAfterRecord'
    BY <1>0 DEF RewardInv, HasLatest, CooldownAfterRecord
  <2> QED BY <2>1, <2>2 DEF RewardInv
<1>3. ASSUME NEW x \in Calls PROVE CallInv(x)'
  <2>1. Running(x)' /\ Accounted(x)'
    BY <1>0 DEF CallInv, Running, Accounted, Settled, Methods
  <2>2. Carries(x)'
    BY <1>0 DEF CallInv, Carries, HoldsPet
  <2>3. Waited(x)'
    BY <1>0 DEF CallInv, Waited, Passed, Claimants, RewardsTyped
  <2> QED BY <2>1, <2>2, <2>3 DEF CallInv
<1> QED BY <1>1, <1>2, <1>3

\* A crash ends the calls under way: what they moved stays moved, and no record
\* speaks of them.
LEMMA CrashInv ==
  ASSUME Typed, PetsMade, RewardInv, \A c \in Calls : CallInv(c), Crash
  PROVE  PetsMade' /\ RewardInv' /\ \A c \in Calls : CallInv(c)'
<1>0. /\ CallsTyped /\ pets \in [PetIds -> PetFields]
      /\ UNCHANGED <<ledger, pets, rewards, clock, kind, due, seen>>
      /\ result' = [c \in Calls |-> IF pc[c] # "idle" THEN "lost" ELSE result[c]]
      /\ pc' = [c \in Calls |-> "idle"]
  BY TypedParts DEF PartsTyped, Crash, walletVars
<1>1. \A c \in Calls : result[c] = "ok" => result'[c] = "ok"
  BY <1>0 DEF CallInv, Running
<1>2. PetsMade'
  BY <1>0, <1>1 DEF PetsMade, Stored, PetFields
<1>3. RewardInv'
  <2>1. RewardsMade'
    BY <1>0, <1>1 DEF RewardInv, RewardsMade, Claimants
  <2>2. HasLatest' /\ CooldownAfterRecord'
    BY <1>0 DEF RewardInv, HasLatest, CooldownAfterRecord
  <2> QED BY <2>1, <2>2 DEF RewardInv
<1>4. ASSUME NEW x \in Calls PROVE CallInv(x)'
  <2>1. pc'[x] = "idle" /\ result'[x] = (IF pc[x] # "idle" THEN "lost" ELSE result[x])
    BY <1>0
  <2>2. Methods("idle") = Kinds \cup {"none"} /\ Methods(pc[x])' = Methods("idle")
    BY <2>1 DEF Methods, Kinds
  <2>3. Running(x)'
    <3>1. kind[x] = "none" => pc[x] = "idle"
      BY <1>0 DEF CallInv, Running, Methods, Kinds, CallsTyped, Labels
    <3>2. kind[x] \in Kinds \cup {"none"}
      BY <1>0 DEF CallsTyped
    <3> QED BY <1>0, <2>1, <2>2, <3>1, <3>2 DEF CallInv, Running
  <2>4. Accounted(x)'
    <3>1. kind[x] = "none" => Settled(x, 0) /\ due[x] = 0
      BY DEF CallInv, Accounted
    <3> QED BY <1>0, <2>1, <3>1 DEF CallInv, Accounted, Settled
  <2>5. Carries(x)' /\ Waited(x)'
    BY <1>0, <2>1 DEF CallInv, Carries, HoldsPet, Waited, Passed, Claimants
  <2> QED BY <2>3, <2>4, <2>5 DEF CallInv
<1> QED BY <1>2, <1>3, <1>4

-----------------------------------------------------------------------------
(* The theorems                                                            *)

LEMMA InitInv == Init => IInv
<1> SUFFICES ASSUME Init PROVE IInv
  OBVIOUS
<1>1. Typed /\ Balanced
  BY TypedInit, BalancedInit
<1>2. PetsMade
  BY DEF Init, PetsMade, Stored, NoPet
<1>3. RewardInv
  BY GameplayAssumption DEF Init, RewardInv, RewardsMade, HasLatest, CooldownAfterRecord, OpeningReward, Claimants
<1>4. ASSUME NEW c \in Calls PROVE CallInv(c)
  <2>1. kind[c] = "none" /\ pc[c] = "idle" /\ result[c] = "none" /\ due[c] = 0 /\ seen[c] = {}
    BY DEF Init
  <2>2. Settled(c, 0)
    BY GameplayAssumption DEF Init, Settled, OpeningEntry, Before
  <2>3. Running(c)
    BY <2>1 DEF Running, Methods, Kinds
  <2> QED BY <2>1, <2>2, <2>3 DEF CallInv, Accounted, Carries, HoldsPet, Waited, Passed
<1> QED BY <1>1, <1>2, <1>3, <1>4 DEF IInv

LEMMA NextInv == IInv /\ [Next]_vars => IInv'
<1> SUFFICES ASSUME IInv, [Next]_vars PROVE IInv'
  OBVIOUS
<1>0. Typed /\ Balanced /\ PetsMade /\ RewardInv /\ \A c \in Calls : CallInv(c)
  BY DEF IInv
<1>1. CASE Next
  <2>1. Typed'
    BY <1>0, <1>1, TypedNext DEF RewardInv
  <2>2. Balanced'
    BY <1>0, <1>1, BalancedNext
  <2>3. CASE Tick \/ Crash
    <3>1. PetsMade' /\ RewardInv' /\ \A c \in Calls : CallInv(c)'
      BY <1>0, <2>3, TickInv, CrashInv
    <3> QED BY <2>1, <2>2, <3>1 DEF IInv
  <2>4. CASE \E c \in Calls : CallStep(c)
    <3>1. PICK c \in Calls : CallStep(c)
      BY <2>4
    <3>2. PetsMade' /\ RewardInv' /\ CallInv(c)'
      BY <1>0, <3>1, PetsKept, RewardsKept, MoverInv DEF RewardInv
    <3>3. \A x \in Calls \ {c} : CallInv(x)'
      BY <1>0, <3>1, OthersInv DEF RewardInv
    <3> QED BY <2>1, <2>2, <3>2, <3>3 DEF IInv
  <2> QED BY <1>1, <2>3, <2>4 DEF Next, CallStep
<1>2. CASE UNCHANGED vars
  <2>1. UNCHANGED <<row, points, ledger, pets, rewards, clock, kind, pc, pet, held, due, seen, result>>
    BY <1>2 DEF vars, walletVars, callVars
  <2>2. Typed'
    BY <1>0, <2>1 DEF Typed, TypeOK
  <2>3. Balanced'
    <3>1. points = Sum(ledger) /\ (ledger # {} => row) /\ IsFiniteSet(ledger)
      BY <1>0, BalanceSum DEF Balanced
    <3>2. (BalanceIsLedger <=> points = Sum(ledger) /\ (ledger # {} => row))'
      BY BalanceSum, PTL
    <3> QED BY <2>1, <3>1, <3>2 DEF Balanced
  <2>4. PetsMade' /\ RewardInv'
    BY <1>0, <2>1 DEF PetsMade, Stored, RewardInv, RewardsMade, HasLatest, CooldownAfterRecord, Claimants
  <2>5. ASSUME NEW c \in Calls PROVE CallInv(c)'
    <3>1. Running(c)' /\ Accounted(c)'
      BY <1>0, <2>1 DEF CallInv, Running, Accounted, Settled, Methods
    <3>2. Carries(c)' /\ Waited(c)'
      BY <1>0, <2>1 DEF CallInv, Carries, HoldsPet, Waited, Passed, Claimants
    <3> QED BY <3>1, <3>2 DEF CallInv
  <2> QED BY <2>2, <2>3, <2>4, <2>5 DEF IInv
<1> QED BY <1>1, <1>2

\* In every reachable state the balance is that of the ledger, and each call of
\* wallet, pet and reward accounts for what it has moved, holds and has seen.
THEOREM Invariant == Spec => []IInv
BY InitInv, NextInv, PTL DEF Spec

\* The wallet, the pets, the rewards and the calls keep their types; the balance
\* is a non-negative int64.
THEOREM TypeCorrect == Spec => []TypeOK
<1>1. IInv => TypeOK
  BY DEF IInv, Typed
<1> QED BY <1>1, Invariant, PTL

\* For any number of calls the balance is the sum of the ledger, whatever rows
\* are made, charged and credited at once and whatever sum would wrap.
THEOREM BalanceAddsUp == Spec => []BalanceIsLedger
<1>1. IInv => BalanceIsLedger
  BY DEF IInv, Balanced
<1> QED BY <1>1, Invariant, PTL

\* Every pet and reward that is stored, and every call that reported success,
\* moved exactly the points of its decision, and a refused call none.
THEOREM RecordsAreSettled == Spec => []PointsAreSettled
<1>1. IInv => PointsAreSettled
  <2> SUFFICES ASSUME IInv PROVE PointsAreSettled
    OBVIOUS
  <2>1. \A c \in Calls : Accounted(c)
    BY DEF IInv, CallInv
  <2>2. CallsAreSettled
    BY <2>1 DEF Accounted, CallsAreSettled
  <2>3. PetsMade /\ RewardsMade /\ pets \in [PetIds -> PetFields]
    BY TypedParts DEF IInv, RewardInv, PartsTyped
  <2>4. \A i \in PetIds : pets[i].writes \subseteq Calls
    BY <2>3 DEF PetFields
  <2>5. StoredIsSettled
    BY <2>1, <2>3, <2>4 DEF StoredIsSettled, PetsMade, RewardsMade, Accounted
  <2> QED BY <2>2, <2>5 DEF PointsAreSettled
<1> QED BY <1>1, Invariant, PTL

\* Two rewards one of which was recorded before the other's claim was checked
\* are a cooldown apart, though the record is dated long after the check.
THEOREM CooldownKept == Spec => []CooldownAfterRecord
<1>1. IInv => CooldownAfterRecord
  BY DEF IInv, RewardInv
<1> QED BY <1>1, Invariant, PTL

-----------------------------------------------------------------------------
(* The labels of the calls, and who may be at them.                        *)

\* The types of what the handlers read and write.
StoresTyped ==
  /\ db \in Stores
  /\ call \in [Handlers -> CallFields]
  /\ calls \in 0 .. MaxCalls /\ unborn \in BOOLEAN
  /\ faults \in 0 .. MaxFaults /\ unfinished \in BOOLEAN
  /\ clash \in {None, "additions", "mixed"}

AddingFriend ==
  {"add_friend", "f_workspace", "f_grant1", "f_grant2", "f_undo", "f_rows", "f_revoke1", "f_revoke2"}
DeletingFriend == {"delete_friend", "x_revoke1", "x_revoke2", "x_workspace", "x_rows"}
Writing == {"m_read", "m_member", "m_belong", "i_member", "i_belong"}
Granting == {"m_group", "m_grant"}
Restoring == {"r_member", "r_belong"}
Removing == {"d_role", "d_member", "d_belong", "d_back", "d_group", "d_revoke"}
Creating == {"create", "g_grant", "g_record", "g_owner", "g_undo", "g_undo2", "g_undo3"}
Deleting ==
  {"delete", "e_list", "e_members", "e_belongs", "e_token", "e_bindings", "e_workspace", "e_record"}

\* The kinds of call at each label.
KindAtLabel(e) ==
  /\ e.pc \in AddingFriend => e.req.kind = "add_friend"
  /\ e.pc \in DeletingFriend => e.req.kind = "delete_friend"
  /\ e.pc \in Writing => e.req.kind \in {"create", "put", "add", "join"}
  /\ e.pc \in Granting => e.req.kind \in {"add", "join"}
  /\ e.pc \in Restoring => e.req.kind \in {"add", "join", "remove"}
  /\ e.pc \in {"join", "m_get", "m_revoke"} => e.req.kind = "join"
  /\ e.pc \in {"add", "a_target"} => e.req.kind = "add"
  /\ e.pc \in {"put", "p_target"} => e.req.kind = "put"
  /\ e.pc \in {"remove"} \cup Removing => e.req.kind = "remove"
  /\ e.pc \in Creating => e.req.kind = "create"
  /\ e.pc \in {"invite", "n_token"} => e.req.kind = "invite"
  /\ e.pc \in Deleting => e.req.kind = "delete"
  /\ e.req.kind = None => e.pc = "idle"

\* A call has the request that Receive admits, and writes a role that its kind
\* may give.
RequestFits(e) ==
  /\ e.pc = "idle" => e = Idle
  /\ e.req.kind \in FriendKinds => {e.req.who, e.req.about} = Pair
  /\ e.req.kind \in {"join", "create", "invite", "delete"} => e.req.about = e.req.who
  /\ e.req.kind = "create" => e.req.who = Owner
  /\ e.req.role = "owner" => e.req.admin
  /\ e.pc \in Writing \cup Granting \cup {"m_get", "m_revoke"} =>
       CASE e.req.kind = "create" -> e.role = "owner"
         [] e.req.kind = "join" -> e.role = "member"
         [] OTHER -> e.role = e.req.role
  /\ e.pc \in Writing \cup Granting \cup {"m_get", "m_revoke"} \cup Restoring \cup Removing =>
       /\ e.req.kind \in {"put", "remove"} => e.prior # None
       /\ e.req.kind = "join" => e.prior = None

Shaped == \A c \in Handlers : KindAtLabel(call[c]) /\ RequestFits(call[c])

\* What a call goes back to after a failure.
AfterFault ==
  {"f_undo", "f_revoke1", "f_revoke2", "i_member", "i_belong", "d_back", "g_undo", "g_undo2", "g_undo3"}
FaultsSeen == \A c \in Handlers : call[c].pc \in AfterFault => faults > 0

-----------------------------------------------------------------------------
(* Who is alone.                                                           *)

\* What clash says of the calls under way.
ClashKnown ==
  \A c, d \in Busy : c # d =>
    /\ clash = None => ~SameSubject(call[c].req, call[d].req)
    /\ clash # "mixed" /\ SameSubject(call[c].req, call[d].req) => SameAddition(call[c].req, call[d].req)

NoMember(p) == db.members[p] = None /\ db.belongs[p] = None /\ p \notin db.bind["group"]
NoGroup ==
  /\ ~db.group /\ "group" \notin db.ws /\ ~db.token
  /\ \A p \in Peers : NoMember(p)

\* Before the group is made nobody calls it, and while it is made only its owner.
Creation ==
  /\ unborn => NoGroup /\ \A c \in Busy : Kind(c) \in FriendKinds
  /\ \A c \in Busy : Kind(c) = "create" =>
       /\ ~unborn /\ ~db.token
       /\ \A d \in Busy : d # c => Kind(d) \in FriendKinds
       /\ \A p \in Peers : p # Owner => NoMember(p)

WritesMembers ==
  Writing \cup Granting \cup Restoring \cup Removing \cup {"m_get", "m_revoke"}

\* A peer's call that writes a member, and does not make the group, has found no
\* owner; if the member is one now, another call has made him so since.
OwnerKnown(c) ==
  call[c].pc \in WritesMembers /\ Kind(c) # "create" /\ ~ByAdmin(c) =>
    /\ call[c].prior # "owner"
    /\ db.members[About(c)] = "owner" => c \in overtaken
NotTheOwner == \A c \in Handlers : OwnerKnown(c)

-----------------------------------------------------------------------------
(* The friendship.                                                         *)

FriendBegun == {"f_grant1", "f_grant2", "f_undo", "f_rows", "f_revoke1", "f_revoke2"}
FriendEnding == {"x_revoke2", "x_workspace", "x_rows"}

Bound == db.bind["direct"]
BindingsOfFriends == db.bind["direct"] \subseteq Pair

FriendKnows(c) ==
  /\ call[c].pc \in {"f_grant1", "f_grant2", "f_rows"} => "direct" \in db.ws
  /\ call[c].pc \in {"f_grant2", "f_rows"} => Who(c) \in db.bind["direct"]
  /\ call[c].pc = "f_rows" => About(c) \in db.bind["direct"]
  /\ clash = None /\ call[c].pc \in FriendBegun \cup {"f_workspace"} => ~db.rows
  /\ clash = None /\ call[c].pc \in FriendBegun => call[c].made
  /\ call[c].pc \in FriendEnding \cup {"x_revoke1"} => db.rows
  /\ call[c].pc = "x_rows" => "direct" \notin db.ws

\* The friendship as its calls know it, with them and without.
FriendsKnow == \A c \in Handlers : FriendKnows(c)
FriendsWhole ==
  db.rows /\ (\A c \in Handlers : call[c].pc \notin FriendEnding) => "direct" \in db.ws /\ Bound = Pair
StrangersClean ==
  ~db.rows /\ (\A c \in Handlers : call[c].pc \notin FriendBegun \cup FriendEnding \cup {"x_revoke1"}) =>
    "direct" \notin db.ws

FriendInv == FriendsKnow /\ FriendsWhole /\ StrangersClean

\* No more bindings than writes that failed.
FewBindings == (faults = 0 => Bound = {}) /\ (faults < 2 => Bound # Pair)

\* What the calls on the friendship know of its bindings, and what they leave.
BindingsKnown(c) ==
  /\ clash = None /\ call[c].pc \in {"f_grant1", "f_undo"} => FewBindings
  /\ clash = None /\ call[c].pc = "f_grant2" /\ faults = 0 => Bound \subseteq {Who(c)}
  /\ clash = None /\ call[c].pc = "f_revoke2" => Who(c) \notin Bound
  /\ call[c].pc = "x_revoke2" => Who(c) \notin Bound
  /\ call[c].pc \in {"x_workspace", "x_rows"} => Bound = {}
StrangersUnbound ==
  ~db.rows /\ (\A c \in Handlers : call[c].pc \notin FriendBegun \cup FriendEnding \cup {"x_revoke1"}) =>
    FewBindings
BindInv == (\A c \in Handlers : BindingsKnown(c)) /\ StrangersUnbound

-----------------------------------------------------------------------------
(* The group.                                                              *)

HasGroup == db.group /\ "group" \in db.ws
MemberAgrees(p) ==
  /\ db.belongs[p] = db.members[p]
  /\ p \in db.bind["group"] <=> db.members[p] # None

\* Nobody else is about the member of c.
Alone(c) == clash = None \/ Kind(c) # "join"

MemberKnows(c) ==
  LET e == call[c]
      p == About(c)
  IN
  /\ e.req.kind \in {"add", "put", "join", "remove", "invite"} /\ e.pc \notin {"add", "put", "join", "remove", "invite"} =>
       HasGroup
  /\ e.pc \in {"m_belong", "m_get"} \cup Granting => db.members[p] = e.role
  /\ e.pc \in {"m_get"} \cup Granting => db.belongs[p] = e.role
  /\ e.pc = "m_get" => p \in db.bind["group"]
  /\ e.pc # "m_revoke"
  /\ e.pc \in Restoring => faults > 0
  /\ e.pc \in {"d_belong", "d_back", "d_group", "d_revoke"} => db.members[p] = None
  /\ e.pc \in {"d_group", "d_revoke"} => db.belongs[p] = None
  /\ Alone(c) =>
       /\ e.pc \in Writing \cup Granting \cup Restoring \cup Removing => (p \in db.bind["group"] <=> e.prior # None)
       /\ e.pc \in Writing \ {"m_read"} => (e.found <=> e.prior # None)
       /\ e.pc \in {"m_read", "m_member", "d_role", "d_member", "r_belong"} => db.members[p] = e.prior
       /\ e.pc \in {"m_read", "m_member", "d_role", "d_member", "m_belong", "d_belong", "d_back"} => db.belongs[p] = e.prior
       /\ e.pc = "i_belong" => db.members[p] = Undone(c)

CreateKnows(c) ==
  LET l == call[c].pc IN
  /\ db.belongs[Owner] = None
  /\ db.members[Owner] = (IF l \in {"m_belong", "i_member"} THEN "owner" ELSE None)
  /\ "group" \in db.ws <=> l \notin {"create", "g_undo2", "g_undo3"}
  /\ l \in {"create", "g_grant", "g_undo3"} => Owner \notin db.bind["group"]
  /\ l \in {"g_record", "g_owner"} \cup Writing /\ ~ByAdmin(c) => Owner \in db.bind["group"]
  /\ ByAdmin(c) => Owner \notin db.bind["group"] /\ ~db.group /\ l \in {"create", "g_record", "g_undo"}
  /\ l \in {"create", "g_grant", "g_record"} => ~db.group
  /\ l \in {"g_owner"} \cup Writing => db.group
  /\ l \in Writing \ {"m_read"} => ~call[c].found

DeleteKnows(c) ==
  LET e == call[c] IN
  /\ e.pc \in {"delete", "e_list"} => (db.group <=> "group" \in db.ws)
  /\ e.pc \in Deleting \ {"delete", "e_list", "e_record"} => HasGroup
  /\ e.pc = "e_record" => "group" \notin db.ws
  /\ e.pc \in {"e_belongs", "e_token", "e_bindings", "e_workspace", "e_record"} => \A p \in Peers : db.members[p] = None
  /\ e.pc \in {"e_members", "e_belongs"} => \A p \in Peers : db.belongs[p] # None => p \in e.list["e_belongs"]
  /\ e.pc \in {"e_token", "e_bindings", "e_workspace", "e_record"} => \A p \in Peers : db.belongs[p] = None
  /\ e.pc \in {"e_members", "e_belongs", "e_token", "e_bindings"} => db.bind["group"] \subseteq e.list["e_bindings"]
  /\ e.pc \in {"e_workspace", "e_record"} => db.bind["group"] = {}
  /\ e.pc \in {"e_bindings", "e_workspace", "e_record"} => ~db.token

\* Between two of its writes about p.
HalfWay(c) ==
  \/ call[c].pc \in {"m_belong", "i_member", "i_belong", "m_get"} \cup Granting \cup Restoring
                       \cup {"d_belong", "d_back", "d_group", "d_revoke"}
  \/ Kind(c) = "create" /\ call[c].pc \notin {"create", "g_grant"}

MembersKnow == \A c \in Handlers : Kind(c) \notin {"create", "delete"} => MemberKnows(c)
CreatorsKnow == \A c \in Handlers : Kind(c) = "create" => CreateKnows(c)
DeletersKnow == \A c \in Handlers : Kind(c) = "delete" => DeleteKnows(c)

\* A member and a token have a group; its record and its workspace come and go
\* together; and a member's records agree while nobody is half way with them.
MembersGrouped == \A p \in Peers : db.members[p] # None => HasGroup
TokenGrouped == db.token => HasGroup
RecordHasSpace ==
  (\A c \in Handlers : Kind(c) \notin {"create", "delete"}) => (db.group <=> "group" \in db.ws)
LeftAlone(p) ==
  \A c \in Handlers :
    /\ Kind(c) = "delete" => call[c].pc \in {"delete", "e_list", "e_members"}
    /\ About(c) = p => ~HalfWay(c)
MembersSettled == \A p \in Peers : LeftAlone(p) => MemberAgrees(p)

GroupInv ==
  /\ MembersKnow /\ CreatorsKnow /\ DeletersKnow
  /\ MembersGrouped /\ TokenGrouped /\ RecordHasSpace /\ MembersSettled

SocialInv ==
  /\ overtaken \subseteq Busy
  /\ StoresTyped /\ Shaped /\ FaultsSeen /\ ClashKnown /\ Creation /\ NotTheOwner /\ BindingsOfFriends
  /\ Orderly => FriendInv /\ BindInv /\ GroupInv

-----------------------------------------------------------------------------
(* The stores and the calls as functions of their fields.                  *)

DbFields(d) ==
  /\ d.ws \in SUBSET Chats /\ d.bind \in [Chats -> SUBSET Peers]
  /\ d.rows \in BOOLEAN /\ d.group \in BOOLEAN /\ d.token \in BOOLEAN
  /\ d.members \in [Peers -> Roles \cup {None}] /\ d.belongs \in [Peers -> Roles \cup {None}]

\* The stores by their fields.
LEMMA StoreFields ==
  ASSUME db \in Stores
  PROVE  DbFields(db)
BY DEF Stores, DbFields

\* A write of a member's record under the group changes nothing else.
LEMMA MemberFacts ==
  ASSUME db \in Stores, NEW p \in Peers, NEW r \in Roles \cup {None}, NEW d, d = Member(p, r)
  PROVE  /\ d \in Stores
         /\ d.ws = db.ws /\ d.bind = db.bind /\ d.rows = db.rows /\ d.group = db.group /\ d.token = db.token
         /\ d.belongs = db.belongs
         /\ d.members[p] = r /\ \A q \in Peers \ {p} : d.members[q] = db.members[q]
BY DEF Stores, Member

LEMMA BelongFacts ==
  ASSUME db \in Stores, NEW p \in Peers, NEW r \in Roles \cup {None}, NEW d, d = Belong(p, r)
  PROVE  /\ d \in Stores
         /\ d.ws = db.ws /\ d.bind = db.bind /\ d.rows = db.rows /\ d.group = db.group /\ d.token = db.token
         /\ d.members = db.members
         /\ d.belongs[p] = r /\ \A q \in Peers \ {p} : d.belongs[q] = db.belongs[q]
BY DEF Stores, Belong

LEMMA GrantedFacts ==
  ASSUME db \in Stores, NEW p \in Peers, NEW x \in Chats, NEW d, d = Granted(x, p)
  PROVE  /\ d \in Stores
         /\ d.ws = db.ws /\ d.rows = db.rows /\ d.group = db.group /\ d.token = db.token
         /\ d.members = db.members /\ d.belongs = db.belongs
         /\ d.bind[x] = db.bind[x] \cup {p} /\ \A y \in Chats \ {x} : d.bind[y] = db.bind[y]
BY DEF Stores, Granted

LEMMA RevokedFacts ==
  ASSUME db \in Stores, NEW p \in Peers, NEW x \in Chats, NEW d, d = Revoked(x, p)
  PROVE  /\ d \in Stores
         /\ d.ws = db.ws /\ d.rows = db.rows /\ d.group = db.group /\ d.token = db.token
         /\ d.members = db.members /\ d.belongs = db.belongs
         /\ d.bind[x] = db.bind[x] \ {p} /\ \A y \in Chats \ {x} : d.bind[y] = db.bind[y]
BY DEF Stores, Revoked

LEMMA WithoutFacts ==
  ASSUME db \in Stores, NEW x \in Chats, NEW d, d = Without(x)
  PROVE  /\ d \in Stores
         /\ d.ws = db.ws \ {x} /\ d.bind = db.bind /\ d.rows = db.rows /\ d.group = db.group
         /\ d.token = db.token /\ d.members = db.members /\ d.belongs = db.belongs
BY DEF Stores, Without

LEMMA WorkspaceFacts ==
  ASSUME db \in Stores, NEW x \in Chats, NEW d, d = [db EXCEPT !.ws = @ \cup {x}]
  PROVE  /\ d \in Stores
         /\ d.ws = db.ws \cup {x} /\ d.bind = db.bind /\ d.rows = db.rows /\ d.group = db.group
         /\ d.token = db.token /\ d.members = db.members /\ d.belongs = db.belongs
BY DEF Stores

LEMMA RowsFacts ==
  ASSUME db \in Stores, NEW b \in BOOLEAN, NEW d, d = [db EXCEPT !.rows = b]
  PROVE  /\ d \in Stores
         /\ d.ws = db.ws /\ d.bind = db.bind /\ d.rows = b /\ d.group = db.group
         /\ d.token = db.token /\ d.members = db.members /\ d.belongs = db.belongs
BY DEF Stores

LEMMA RecordFacts ==
  ASSUME db \in Stores, NEW b \in BOOLEAN, NEW d, d = [db EXCEPT !.group = b]
  PROVE  /\ d \in Stores
         /\ d.ws = db.ws /\ d.bind = db.bind /\ d.rows = db.rows /\ d.group = b
         /\ d.token = db.token /\ d.members = db.members /\ d.belongs = db.belongs
BY DEF Stores

LEMMA TokenFacts ==
  ASSUME db \in Stores, NEW b \in BOOLEAN, NEW d, d = [db EXCEPT !.token = b]
  PROVE  /\ d \in Stores
         /\ d.ws = db.ws /\ d.bind = db.bind /\ d.rows = db.rows /\ d.group = db.group
         /\ d.token = b /\ d.members = db.members /\ d.belongs = db.belongs
BY DEF Stores

LEMMA NobodyFacts ==
  ASSUME db \in Stores, NEW d, d = [db EXCEPT !.members = [p \in Peers |-> None]]
  PROVE  /\ d \in Stores
         /\ d.ws = db.ws /\ d.bind = db.bind /\ d.rows = db.rows /\ d.group = db.group
         /\ d.token = db.token /\ d.belongs = db.belongs
         /\ \A p \in Peers : d.members[p] = None
BY DEF Stores, Roles

\* What the fields of a call can be.
LEMMA CallTypes ==
  ASSUME StoresTyped, NEW c \in Handlers
  PROVE  /\ call[c] \in CallFields
         /\ About(c) \in Peers /\ Who(c) \in Peers
         /\ call[c].role \in Roles \cup {None} /\ call[c].prior \in Roles \cup {None}
         /\ call[c].found \in BOOLEAN /\ call[c].made \in BOOLEAN
         /\ call[c].list \in [Sweeps -> SUBSET Peers]
         /\ Undone(c) \in Roles \cup {None}
         /\ Kind(c) \in RequestKinds \cup {None}
         /\ call[c].req.role \in Roles
         /\ call[c].req \in Request \cup {NoRequest}
BY SocialAssumption DEF StoresTyped, CallFields, About, Who, Undone, Kind, Request, NoRequest, Roles

\* The record of a handler that serves no call.
LEMMA IdleFacts ==
  /\ Idle \in CallFields
  /\ Idle.pc = "idle" /\ Idle.req = NoRequest /\ Idle.req.kind = None /\ Idle.role = None /\ Idle.prior = None
  /\ ~Idle.found /\ ~Idle.made
<1>1. NoList \in [Sweeps -> SUBSET Peers]
  BY DEF NoList
<1>2. NoRequest \in Request \cup {NoRequest} /\ NoRequest.kind = None
  BY DEF NoRequest
<1>3. None \in Roles \cup {None} /\ FALSE \in BOOLEAN /\ "idle" \in HandlerSteps
  BY DEF HandlerSteps
<1>4. QED
  BY <1>1, <1>2, <1>3 DEF Idle, CallFields

\* A call that goes on at l as the record to.
GoesOn(c, l, to) ==
  /\ call' \in [Handlers -> CallFields]
  /\ \A x \in Handlers \ {c} : call'[x] = call[x]
  /\ l = "idle" => call'[c] = Idle
  /\ l # "idle" =>
       /\ call'[c].pc = l /\ call'[c].req = to.req /\ call'[c].role = to.role /\ call'[c].prior = to.prior
       /\ call'[c].found = to.found /\ call'[c].made = to.made /\ call'[c].list = to.list

\* What the call that takes a step is afterwards; the others stay.
LEMMA ContinueFacts ==
  ASSUME StoresTyped, NEW c \in Handlers, NEW l \in HandlerSteps, NEW to \in CallFields, Continue(c, l, to)
  PROVE  GoesOn(c, l, to)
<1> DEFINE e == IF l = "idle" THEN Idle ELSE [to EXCEPT !.pc = l]
<1>1. call' = [call EXCEPT ![c] = e]
  BY DEF Continue
<1>2. e \in CallFields
  BY IdleFacts DEF CallFields
<1>3. l # "idle" =>
        /\ e.pc = l /\ e.req = to.req /\ e.role = to.role /\ e.prior = to.prior
        /\ e.found = to.found /\ e.made = to.made /\ e.list = to.list
  BY DEF CallFields
<1>4. l = "idle" => e = Idle
  OBVIOUS
<1> HIDE DEF e
<1>5. call' \in [Handlers -> CallFields] /\ call'[c] = e /\ \A x \in Handlers \ {c} : call'[x] = call[x]
  BY <1>1, <1>2 DEF StoresTyped
<1>6. QED
  BY <1>3, <1>4, <1>5 DEF GoesOn

\* What a write does to everything but the stores: it is made, or it fails.
Wrote(c, ok) ==
  GoesOn(c, ok, call[c]) /\ faults' = faults /\ unfinished' = unfinished
Failed(c) ==
  /\ db' = db /\ faults' = faults + 1 /\ faults' \in 0 .. MaxFaults
  /\ unfinished' = (unfinished \/ Kind(c) \in {"delete_friend", "delete"} \/ call[c].pc \in Rollbacks)
Quiet == calls' = calls /\ unborn' = unborn /\ clash' = clash

\* A write that fails is counted and changes no store.
LEMMA FaultFacts ==
  ASSUME StoresTyped, NEW c \in Handlers, Fault(c)
  PROVE  Failed(c)
BY SocialAssumption DEF StoresTyped, Fault, Failed

\* A write takes effect or fails; a read takes no effect.
LEMMA WriteFacts ==
  ASSUME StoresTyped, NEW c \in Handlers, NEW at, NEW new, NEW ok \in HandlerSteps, NEW bad \in HandlerSteps,
         Write(c, at, new, ok, bad)
  PROVE  /\ call[c].pc = at /\ Quiet
         /\ \/ db' = new /\ Wrote(c, ok)
            \/ Failed(c) /\ GoesOn(c, bad, call[c])
BY CallTypes, ContinueFacts, FaultFacts DEF Write, At, Proceed, Quiet, Wrote

LEMMA ReadIntoFacts ==
  ASSUME StoresTyped, NEW c \in Handlers, NEW at, NEW l \in HandlerSteps, NEW to \in CallFields,
         ReadInto(c, at, l, to)
  PROVE  /\ call[c].pc = at /\ Quiet
         /\ db' = db /\ faults' = faults /\ unfinished' = unfinished
         /\ GoesOn(c, l, to)
BY ContinueFacts DEF ReadInto, At, Quiet

LEMMA ReadFacts ==
  ASSUME StoresTyped, NEW c \in Handlers, NEW at, NEW l \in HandlerSteps, Read(c, at, l)
  PROVE  /\ call[c].pc = at /\ Quiet
         /\ db' = db /\ Wrote(c, l)
BY CallTypes, ReadIntoFacts DEF Read, Wrote

-----------------------------------------------------------------------------
(* Every step of a call: who moves, and the types.                         *)

HandlerStep(c) ==
  /\ StoresTyped'
  /\ call[c].pc # "idle" /\ Quiet
  /\ \A x \in Handlers \ {c} : call'[x] = call[x]
  /\ call'[c] = Idle \/ (call'[c].req = call[c].req /\ call'[c].pc # "idle")
  /\ (faults' = faults /\ unfinished' = unfinished) \/ Failed(c)

\* Every value that a handler writes is one of the stores.
LEMMA StoresClosed ==
  ASSUME db \in Stores
  PROVE  /\ \A p \in Peers, r \in Roles \cup {None} : Member(p, r) \in Stores /\ Belong(p, r) \in Stores
         /\ \A x \in Chats : Without(x) \in Stores /\ [db EXCEPT !.ws = @ \cup {x}] \in Stores
         /\ \A x \in Chats, p \in Peers : Granted(x, p) \in Stores /\ Revoked(x, p) \in Stores
         /\ \A b \in BOOLEAN : /\ [db EXCEPT !.rows = b] \in Stores
                               /\ [db EXCEPT !.group = b] \in Stores
                               /\ [db EXCEPT !.token = b] \in Stores
         /\ [db EXCEPT !.members = [p \in Peers |-> None]] \in Stores
<1>1. \A p \in Peers, r \in Roles \cup {None} : Member(p, r) \in Stores /\ Belong(p, r) \in Stores
  BY MemberFacts, BelongFacts
<1>2. \A x \in Chats : Without(x) \in Stores /\ [db EXCEPT !.ws = @ \cup {x}] \in Stores
  BY WithoutFacts, WorkspaceFacts
<1>3. \A x \in Chats, p \in Peers : Granted(x, p) \in Stores /\ Revoked(x, p) \in Stores
  BY GrantedFacts, RevokedFacts
<1>4. \A b \in BOOLEAN : /\ [db EXCEPT !.rows = b] \in Stores
                         /\ [db EXCEPT !.group = b] \in Stores
                         /\ [db EXCEPT !.token = b] \in Stores
  BY RowsFacts, RecordFacts, TokenFacts
<1>5. [db EXCEPT !.members = [p \in Peers |-> None]] \in Stores
  BY NobodyFacts
<1>6. QED
  BY <1>1, <1>2, <1>3, <1>4, <1>5

\* What makes a step of a call from its parts.
LEMMA StepFromParts ==
  ASSUME StoresTyped, NEW c \in Handlers, NEW l \in HandlerSteps, NEW to \in CallFields, to.req = call[c].req,
         GoesOn(c, l, to), Quiet, call[c].pc # "idle", db' \in Stores,
         (faults' = faults /\ unfinished' = unfinished) \/ Failed(c)
  PROVE  HandlerStep(c)
<1>1. faults' \in 0 .. MaxFaults /\ unfinished' \in BOOLEAN
  BY DEF StoresTyped, Failed
<1>2. StoresTyped'
  BY <1>1 DEF StoresTyped, GoesOn, Quiet
<1>3. QED
  BY <1>2 DEF HandlerStep, GoesOn

\* A write, a read and what follows from them are steps of one call.
LEMMA WriteStep ==
  ASSUME StoresTyped, NEW c \in Handlers, NEW at, NEW new \in Stores, NEW ok \in HandlerSteps, NEW bad \in HandlerSteps,
         at # "idle", Write(c, at, new, ok, bad)
  PROVE  HandlerStep(c)
<1>1. call[c].pc = at /\ Quiet /\ call[c] \in CallFields /\ db \in Stores
  BY WriteFacts, CallTypes DEF StoresTyped
<1>2. CASE db' = new /\ Wrote(c, ok)
  BY <1>1, <1>2, StepFromParts DEF Wrote
<1>3. CASE Failed(c) /\ GoesOn(c, bad, call[c])
  <2>1. db' \in Stores
    BY <1>1, <1>3 DEF Failed
  <2>2. QED
    BY <1>1, <1>3, <2>1, StepFromParts
<1>4. QED
  BY <1>2, <1>3, WriteFacts

LEMMA ReadIntoStep ==
  ASSUME StoresTyped, NEW c \in Handlers, NEW at, NEW l \in HandlerSteps, NEW to \in CallFields,
         to.req = call[c].req, at # "idle", ReadInto(c, at, l, to)
  PROVE  HandlerStep(c)
<1>1. /\ call[c].pc = at /\ Quiet /\ db' = db /\ db \in Stores
      /\ faults' = faults /\ unfinished' = unfinished /\ GoesOn(c, l, to)
  BY ReadIntoFacts DEF StoresTyped
<1>2. QED
  BY <1>1, StepFromParts

LEMMA ReadStep ==
  ASSUME StoresTyped, NEW c \in Handlers, NEW at, NEW l \in HandlerSteps, at # "idle", Read(c, at, l)
  PROVE  HandlerStep(c)
BY CallTypes, ReadIntoStep DEF Read

-----------------------------------------------------------------------------
(* The steps that keep something of what they have read.                   *)

OthersStay(c) == \A x \in Handlers \ {c} : call'[x] = call[x]
NoFault == faults' = faults /\ unfinished' = unfinished

\* The reads that a call keeps something of, one by one.
LEMMA ToWriteMemberFacts ==
  ASSUME StoresTyped, NEW c \in Handlers, NEW at, at # "idle", NEW r \in Roles, ToWriteMember(c, at, r)
  PROVE  /\ HandlerStep(c)
         /\ call[c].pc = at /\ Quiet /\ OthersStay(c) /\ db' = db /\ NoFault
         /\ call'[c].pc = "m_read" /\ call'[c].req = call[c].req
         /\ call'[c].role = r /\ call'[c].prior = db.members[About(c)]
         /\ call'[c].found = call[c].found
<1>1. PICK to : to = [call[c] EXCEPT !.role = r, !.prior = db.members[About(c)]]
  OBVIOUS
<1>2. db.members[About(c)] \in Roles \cup {None}
  BY CallTypes, StoreFields DEF StoresTyped, DbFields
<1>3. to \in CallFields /\ to.req = call[c].req /\ to.role = r /\ to.prior = db.members[About(c)]
         /\ to.found = call[c].found
  BY <1>1, <1>2, CallTypes DEF CallFields
<1>4. ReadInto(c, at, "m_read", to)
  BY <1>1 DEF ToWriteMember
<1>5. "m_read" \in HandlerSteps /\ "m_read" # "idle"
  BY DEF HandlerSteps
<1>6. HandlerStep(c)
  BY <1>3, <1>4, <1>5, ReadIntoStep
<1>7. call[c].pc = at /\ Quiet /\ db' = db /\ NoFault /\ GoesOn(c, "m_read", to)
  BY <1>3, <1>4, <1>5, ReadIntoFacts DEF NoFault
<1>8. QED
  BY <1>3, <1>5, <1>6, <1>7 DEF GoesOn, OthersStay

\* The first step of writeMember.
LEMMA FindFacts ==
  ASSUME StoresTyped, NEW c \in Handlers,
         ReadInto(c, "m_read", "m_member", [call[c] EXCEPT !.found = db.members[About(c)] # None])
  PROVE  /\ HandlerStep(c)
         /\ call[c].pc = "m_read" /\ Quiet /\ OthersStay(c) /\ db' = db /\ NoFault
         /\ call'[c].pc = "m_member" /\ call'[c].req = call[c].req
         /\ call'[c].role = call[c].role /\ call'[c].prior = call[c].prior
         /\ call'[c].found = (db.members[About(c)] # None)
<1> DEFINE b == db.members[About(c)] # None
<1>1. PICK to : to = [call[c] EXCEPT !.found = b]
  OBVIOUS
<1>2. b \in BOOLEAN
  OBVIOUS
<1>3. to \in CallFields /\ to.req = call[c].req /\ to.role = call[c].role /\ to.prior = call[c].prior /\ to.found = b
  BY <1>1, <1>2, CallTypes DEF CallFields
<1>4. ReadInto(c, "m_read", "m_member", to)
  BY <1>1
<1>5. "m_member" \in HandlerSteps /\ "m_member" # "idle" /\ "m_read" # "idle"
  BY DEF HandlerSteps
<1>6. HandlerStep(c)
  BY <1>3, <1>4, <1>5, ReadIntoStep
<1>7. call[c].pc = "m_read" /\ Quiet /\ db' = db /\ NoFault /\ GoesOn(c, "m_member", to)
  BY <1>3, <1>4, <1>5, ReadIntoFacts DEF NoFault
<1>8. QED
  BY <1>3, <1>5, <1>6, <1>7 DEF GoesOn, OthersStay

\* The first step of RemoveMember.
LEMMA RoleFacts ==
  ASSUME StoresTyped, NEW c \in Handlers,
         ReadInto(c, "remove", "d_role", [call[c] EXCEPT !.prior = db.members[About(c)]])
  PROVE  /\ HandlerStep(c)
         /\ call[c].pc = "remove" /\ Quiet /\ OthersStay(c) /\ db' = db /\ NoFault
         /\ call'[c].pc = "d_role" /\ call'[c].req = call[c].req
         /\ call'[c].role = call[c].role /\ call'[c].prior = db.members[About(c)]
<1>1. PICK to : to = [call[c] EXCEPT !.prior = db.members[About(c)]]
  OBVIOUS
<1>2. db.members[About(c)] \in Roles \cup {None}
  BY CallTypes, StoreFields DEF StoresTyped, DbFields
<1>3. to \in CallFields /\ to.req = call[c].req /\ to.role = call[c].role /\ to.prior = db.members[About(c)]
  BY <1>1, <1>2, CallTypes DEF CallFields
<1>4. ReadInto(c, "remove", "d_role", to)
  BY <1>1
<1>5. "d_role" \in HandlerSteps /\ "d_role" # "idle" /\ "remove" # "idle"
  BY DEF HandlerSteps
<1>6. HandlerStep(c)
  BY <1>3, <1>4, <1>5, ReadIntoStep
<1>7. call[c].pc = "remove" /\ Quiet /\ db' = db /\ NoFault /\ GoesOn(c, "d_role", to)
  BY <1>3, <1>4, <1>5, ReadIntoFacts DEF NoFault
<1>8. QED
  BY <1>3, <1>5, <1>6, <1>7 DEF GoesOn, OthersStay

\* A workspace is made, was there, or cannot be made.
LEMMA MakeWorkspaceFacts ==
  ASSUME StoresTyped, NEW c \in Handlers, NEW at, at # "idle", NEW chat \in Chats,
         NEW ok \in HandlerSteps, ok # "idle", MakeWorkspace(c, at, chat, ok)
  PROVE  /\ HandlerStep(c)
         /\ call[c].pc = at /\ Quiet /\ OthersStay(c)
         /\ \/ /\ db' = [db EXCEPT !.ws = @ \cup {chat}] /\ NoFault
               /\ call'[c].pc = ok /\ call'[c].req = call[c].req /\ call'[c].made = (chat \notin db.ws)
            \/ Failed(c) /\ GoesOn(c, "idle", call[c])
<1>0. call[c].pc = at /\ Quiet /\ call[c] \in CallFields /\ "idle" \in HandlerSteps /\ db \in Stores
  BY CallTypes DEF MakeWorkspace, At, Quiet, HandlerSteps, StoresTyped
<1>1. CASE /\ db' = [db EXCEPT !.ws = @ \cup {chat}]
           /\ Continue(c, ok, [call[c] EXCEPT !.made = chat \notin db.ws])
           /\ UNCHANGED <<faults, unfinished>>
  <2> DEFINE b == chat \notin db.ws
  <2>1. PICK to : to = [call[c] EXCEPT !.made = b]
    OBVIOUS
  <2>2. b \in BOOLEAN
    OBVIOUS
  <2>3. to \in CallFields /\ to.req = call[c].req /\ to.made = b
    BY <2>1, <2>2, CallTypes DEF CallFields
  <2>4. GoesOn(c, ok, to) /\ NoFault
    BY <1>1, <2>1, <2>3, ContinueFacts DEF NoFault
  <2>5. db' \in Stores
    BY <1>0, <1>1, StoresClosed
  <2>6. HandlerStep(c)
    BY <1>0, <2>3, <2>4, <2>5, StepFromParts DEF NoFault
  <2>7. QED
    BY <1>0, <1>1, <2>3, <2>4, <2>6 DEF GoesOn, OthersStay
<1>2. CASE Fault(c) /\ Proceed(c, "idle")
  <2>1. Failed(c) /\ GoesOn(c, "idle", call[c])
    BY <1>0, <1>2, FaultFacts, ContinueFacts DEF Proceed
  <2>2. HandlerStep(c)
    BY <1>0, <2>1, StepFromParts DEF Failed
  <2>3. QED
    BY <1>0, <2>1, <2>2 DEF GoesOn, OthersStay
<1>3. QED
  BY <1>1, <1>2 DEF MakeWorkspace

\* The members as a deletion lists them.
LEMMA ListMembersFacts ==
  ASSUME StoresTyped, NEW c \in Handlers, NEW at, at # "idle", NEW next \in HandlerSteps, next # "idle",
         ListMembers(c, at, next)
  PROVE  /\ HandlerStep(c)
         /\ call[c].pc = at /\ Quiet /\ OthersStay(c) /\ db' = db /\ NoFault
         /\ call'[c].pc = next /\ call'[c].req = call[c].req
         /\ \A s \in Sweeps : call'[c].list[s] = {p \in Peers : db.members[p] # None}
<1>1. PICK all : all = {p \in Peers : db.members[p] # None}
  OBVIOUS
<1>2. PICK f : f = [s \in Sweeps |-> all]
  OBVIOUS
<1>3. f \in [Sweeps -> SUBSET Peers] /\ \A s \in Sweeps : f[s] = all
  BY <1>1, <1>2
<1>4. PICK to : to = [call[c] EXCEPT !.list = f]
  OBVIOUS
<1>5. to \in CallFields /\ to.req = call[c].req /\ to.list = f
  BY <1>3, <1>4, CallTypes DEF CallFields
<1>6. ReadInto(c, at, next, to)
  BY <1>1, <1>2, <1>4 DEF ListMembers
<1>7. HandlerStep(c)
  BY <1>5, <1>6, ReadIntoStep
<1>8. call[c].pc = at /\ Quiet /\ db' = db /\ NoFault /\ GoesOn(c, next, to)
  BY <1>5, <1>6, ReadIntoFacts DEF NoFault
<1>9. QED
  BY <1>1, <1>3, <1>5, <1>7, <1>8 DEF GoesOn, OthersStay

\* One step of a sweep: it is over, takes one member, or fails.
LEMMA SweepFacts ==
  ASSUME StoresTyped, NEW c \in Handlers, NEW at \in Sweeps, NEW next \in HandlerSteps, Sweep(c, at, next)
  PROVE  /\ HandlerStep(c)
         /\ call[c].pc = at /\ Quiet /\ OthersStay(c)
         /\ \/ call[c].list[at] = {} /\ db' = db /\ Wrote(c, next)
            \/ \E p \in call[c].list[at] :
                 /\ p \in Peers
                 /\ db' = IF at = "e_belongs" THEN Belong(p, None) ELSE Revoked("group", p)
                 /\ NoFault
                 /\ call'[c].pc = at /\ call'[c].req = call[c].req
                 /\ call'[c].list[at] = call[c].list[at] \ {p}
                 /\ \A s \in Sweeps \ {at} : call'[c].list[s] = call[c].list[s]
            \/ Failed(c) /\ GoesOn(c, "idle", call[c])
<1>0. /\ call[c] \in CallFields /\ "idle" \in HandlerSteps /\ at \in HandlerSteps /\ at # "idle" /\ db \in Stores
      /\ call[c].list \in [Sweeps -> SUBSET Peers] /\ None \in Roles \cup {None} /\ "group" \in Chats
  BY CallTypes DEF HandlerSteps, StoresTyped, Sweeps, Chats
<1>1. CASE call[c].list[at] = {} /\ Read(c, at, next)
  <2>1. HandlerStep(c)
    BY <1>0, <1>1, ReadStep
  <2>2. call[c].pc = at /\ Quiet /\ db' = db /\ Wrote(c, next)
    BY <1>1, ReadFacts
  <2>3. QED
    BY <1>1, <2>1, <2>2 DEF Wrote, GoesOn, OthersStay
<1>2. ASSUME NEW p \in call[c].list[at], At(c, at), UNCHANGED <<calls, unborn, clash>>,
             db' = IF at = "e_belongs" THEN Belong(p, None) ELSE Revoked("group", p),
             Continue(c, at, [call[c] EXCEPT !.list[at] = @ \ {p}]),
             UNCHANGED <<faults, unfinished>>
      PROVE  /\ HandlerStep(c)
             /\ call[c].pc = at /\ Quiet /\ OthersStay(c)
             /\ p \in Peers /\ NoFault
             /\ call'[c].pc = at /\ call'[c].req = call[c].req
             /\ call'[c].list[at] = call[c].list[at] \ {p}
             /\ \A s \in Sweeps \ {at} : call'[c].list[s] = call[c].list[s]
  <2>1. PICK f : f = [call[c].list EXCEPT ![at] = @ \ {p}]
    OBVIOUS
  <2>2. /\ f \in [Sweeps -> SUBSET Peers] /\ f[at] = call[c].list[at] \ {p}
        /\ \A s \in Sweeps \ {at} : f[s] = call[c].list[s]
    BY <1>0, <2>1
  <2>3. PICK to : to = [call[c] EXCEPT !.list = f]
    OBVIOUS
  <2>4. to \in CallFields /\ to.req = call[c].req /\ to.list = f
    BY <2>2, <2>3, CallTypes DEF CallFields
  <2>5. to = [call[c] EXCEPT !.list[at] = @ \ {p}]
    BY <1>0, <2>1, <2>3 DEF CallFields
  <2>6. GoesOn(c, at, to)
    BY <1>0, <1>2, <2>4, <2>5, ContinueFacts
  <2>7. p \in Peers
    BY <1>0
  <2>8. db' \in Stores
    BY <1>0, <1>2, <2>7, StoresClosed
  <2>9. Quiet /\ call[c].pc = at /\ NoFault
    BY <1>2 DEF Quiet, At, NoFault
  <2>10. HandlerStep(c)
    BY <1>0, <2>4, <2>6, <2>8, <2>9, StepFromParts DEF NoFault
  <2>11. QED
    BY <1>0, <2>2, <2>4, <2>6, <2>7, <2>9, <2>10 DEF GoesOn, OthersStay
<1>3. CASE Fault(c) /\ Proceed(c, "idle") /\ At(c, at) /\ UNCHANGED <<calls, unborn, clash>>
  <2>1. Failed(c) /\ GoesOn(c, "idle", call[c]) /\ Quiet /\ call[c].pc = at
    BY <1>0, <1>3, FaultFacts, ContinueFacts DEF Proceed, Quiet, At
  <2>2. HandlerStep(c)
    BY <1>0, <2>1, StepFromParts DEF Failed
  <2>3. QED
    BY <1>0, <2>1, <2>2 DEF GoesOn, OthersStay
<1>4. QED
  BY <1>1, <1>2, <1>3 DEF Sweep

-----------------------------------------------------------------------------
(* Every action of a call is such a step.                                  *)

\* Every action of a handler is a step of its call, and keeps the types.
LEMMA FriendCallStep ==
  ASSUME StoresTyped, NEW c \in Handlers,
         AddFriendCheck(c) \/ AddFriendWorkspace(c) \/ AddFriendRows(c) \/ DeleteFriend(c)
  PROVE  HandlerStep(c)
<1>0. /\ db \in Stores /\ About(c) \in Peers /\ Who(c) \in Peers
      /\ "direct" \in Chats /\ TRUE \in BOOLEAN /\ FALSE \in BOOLEAN
  BY CallTypes DEF StoresTyped, Chats
<1>1. CASE AddFriendCheck(c)
  BY <1>1, ReadStep DEF AddFriendCheck, HandlerSteps
<1>2. CASE AddFriendWorkspace(c)
  BY ZenonT(60), <1>0, <1>2, ReadStep, WriteStep, MakeWorkspaceFacts, StoresClosed DEF AddFriendWorkspace, HandlerSteps
<1>3. CASE AddFriendRows(c)
  BY <1>0, <1>3, WriteStep, StoresClosed DEF AddFriendRows, HandlerSteps
<1>4. CASE DeleteFriend(c)
  BY ZenonT(60), <1>0, <1>4, ReadStep, WriteStep, StoresClosed DEF DeleteFriend, HandlerSteps
<1>5. QED
  BY <1>1, <1>2, <1>3, <1>4

LEMMA MemberCallStep ==
  ASSUME StoresTyped, NEW c \in Handlers,
         \/ WriteMember(c) \/ GrantMember(c) \/ RestoreMember(c)
         \/ Join(c) \/ AddMember(c) \/ PutMember(c) \/ RemoveMember(c)
  PROVE  HandlerStep(c)
<1>0. /\ db \in Stores /\ About(c) \in Peers /\ Who(c) \in Peers /\ "group" \in Chats
      /\ None \in Roles \cup {None} /\ Undone(c) \in Roles \cup {None}
      /\ call[c].role \in Roles \cup {None} /\ call[c].prior \in Roles \cup {None}
      /\ "member" \in Roles /\ call[c].req.role \in Roles
  BY CallTypes DEF StoresTyped, Chats, Roles
<1>1. CASE WriteMember(c)
  <2>1. AfterMember(c) \in HandlerSteps /\ MemberFailed(c) \in HandlerSteps
    BY DEF AfterMember, MemberFailed, HandlerSteps
  <2>2. {"i_member", "i_belong", "m_belong"} \subseteq HandlerSteps
    BY DEF HandlerSteps
  <2>3. QED
    BY <1>0, <1>1, <2>1, <2>2, WriteStep, FindFacts, StoresClosed DEF WriteMember
<1>2. CASE GrantMember(c)
  BY <1>0, <1>2, ReadStep, WriteStep, StoresClosed DEF GrantMember, HandlerSteps
<1>3. CASE RestoreMember(c)
  BY <1>0, <1>3, WriteStep, StoresClosed DEF RestoreMember, HandlerSteps
<1>4. CASE Join(c)
  BY <1>0, <1>4, ReadStep, ToWriteMemberFacts DEF Join, HandlerSteps
<1>5. CASE AddMember(c)
  BY <1>0, <1>5, ReadStep, ToWriteMemberFacts DEF AddMember, HandlerSteps
<1>6. CASE PutMember(c)
  BY <1>0, <1>6, ReadStep, ToWriteMemberFacts DEF PutMember, HandlerSteps
<1>7. CASE RemoveMember(c)
  BY <1>0, <1>7, ReadStep, RoleFacts, WriteStep, StoresClosed DEF RemoveMember, HandlerSteps
<1>8. QED
  BY <1>1, <1>2, <1>3, <1>4, <1>5, <1>6, <1>7

LEMMA GroupCallStep ==
  ASSUME StoresTyped, NEW c \in Handlers,
         CreateGroup(c) \/ Invite(c) \/ DeleteGroup(c)
  PROVE  HandlerStep(c)
<1>0. /\ db \in Stores /\ About(c) \in Peers /\ Who(c) \in Peers /\ "group" \in Chats
      /\ TRUE \in BOOLEAN /\ FALSE \in BOOLEAN /\ "owner" \in Roles
      /\ "e_belongs" \in Sweeps /\ "e_bindings" \in Sweeps
  BY CallTypes DEF StoresTyped, Chats, Roles, Sweeps
<1>1. CASE CreateGroup(c)
  <2>1. /\ {"g_grant", "g_record", "g_undo", "g_undo2", "g_undo3", "idle"} \subseteq HandlerSteps
        /\ ForOwner(c, "g_grant", "g_record") \in HandlerSteps \ {"idle"}
        /\ ForOwner(c, "g_owner", "idle") \in HandlerSteps /\ ForOwner(c, "g_undo2", "idle") \in HandlerSteps
    BY DEF HandlerSteps, ForOwner
  <2>2. CASE MakeWorkspace(c, "create", "group", ForOwner(c, "g_grant", "g_record"))
    BY <1>0, <2>1, <2>2, MakeWorkspaceFacts
  <2>3. CASE ToWriteMember(c, "g_owner", "owner")
    BY <1>0, <2>3, ToWriteMemberFacts
  <2>4. CASE \/ Write(c, "g_grant", Granted("group", Who(c)), "g_record", "g_undo")
             \/ Write(c, "g_record", [db EXCEPT !.group = TRUE], ForOwner(c, "g_owner", "idle"), "g_undo")
             \/ Write(c, "g_undo", Without("group"), ForOwner(c, "g_undo2", "idle"), ForOwner(c, "g_undo2", "idle"))
             \/ Write(c, "g_undo2", Revoked("group", Who(c)), "g_undo3", "g_undo3")
             \/ Write(c, "g_undo3", [db EXCEPT !.group = FALSE], "idle", "idle")
    BY <1>0, <2>1, <2>4, WriteStep, StoresClosed
  <2>5. QED
    BY <1>1, <2>2, <2>3, <2>4 DEF CreateGroup
<1>2. CASE Invite(c)
  BY <1>0, <1>2, ReadStep, WriteStep, StoresClosed DEF Invite, HandlerSteps
<1>3. CASE DeleteGroup(c)
  BY ZenonT(60), <1>0, <1>3, ReadStep, WriteStep, SweepFacts, ListMembersFacts, StoresClosed DEF DeleteGroup, HandlerSteps
<1>4. QED
  BY <1>1, <1>2, <1>3

CallAction(c) ==
  \/ AddFriendCheck(c) \/ AddFriendWorkspace(c) \/ AddFriendRows(c) \/ DeleteFriend(c)
  \/ WriteMember(c) \/ GrantMember(c) \/ RestoreMember(c)
  \/ Join(c) \/ AddMember(c) \/ PutMember(c) \/ RemoveMember(c)
  \/ CreateGroup(c) \/ Invite(c) \/ DeleteGroup(c)

\* All of them.
LEMMA EveryCallStep ==
  ASSUME StoresTyped, NEW c \in Handlers, CallAction(c)
  PROVE  HandlerStep(c)
BY FriendCallStep, MemberCallStep, GroupCallStep DEF CallAction

\* A request arrives.
LEMMA ReceiveFacts ==
  ASSUME StoresTyped, NEW c \in Handlers, NEW r \in Asked, Receive(c, r)
  PROVE  /\ StoresTyped'
         /\ call[c] = Idle /\ OthersStay(c)
         /\ call'[c].req = r /\ call'[c].pc = r.kind /\ call'[c].pc # "idle"
         /\ UNCHANGED <<db, faults, unfinished>>
         /\ unborn' = (unborn /\ r.kind # "create")
<1>1. PICK e : e = [Idle EXCEPT !.req = r, !.pc = r.kind]
  OBVIOUS
<1>2. r.kind \in RequestKinds /\ r.kind \in HandlerSteps /\ r.kind # "idle"
  BY DEF Asked, Request, HandlerSteps, RequestKinds
<1>r. r \in Request
  BY DEF Asked
<1>3. e \in CallFields /\ e.req = r /\ e.pc = r.kind
  BY <1>1, <1>2, <1>r, IdleFacts DEF CallFields
<1>4. call' = [call EXCEPT ![c] = e]
  BY <1>1 DEF Receive
<1>5. call' \in [Handlers -> CallFields] /\ call'[c] = e /\ OthersStay(c)
  BY <1>3, <1>4 DEF StoresTyped, OthersStay
<1>6. calls' \in 0 .. MaxCalls
  BY SocialAssumption DEF Receive, StoresTyped
<1>7. clash' \in {None, "additions", "mixed"}
  BY DEF Receive, StoresTyped
<1>8. unborn' \in BOOLEAN
  BY DEF Receive, StoresTyped
<1>9. QED
  BY <1>2, <1>3, <1>5, <1>6, <1>7, <1>8 DEF Receive, StoresTyped

\* An invitation ends: nothing else changes.
LEMMA TokenGoneFacts ==
  ASSUME StoresTyped, TokenGone
  PROVE  /\ StoresTyped'
         /\ UNCHANGED <<call, calls, unborn, faults, clash, unfinished>>
         /\ ~db'.token /\ db'.ws = db.ws /\ db'.bind = db.bind /\ db'.rows = db.rows /\ db'.group = db.group
         /\ db'.members = db.members /\ db'.belongs = db.belongs
<1>1. PICK d : d = [db EXCEPT !.token = FALSE]
  OBVIOUS
<1>2. d \in Stores /\ ~d.token /\ d.ws = db.ws /\ d.bind = db.bind /\ d.rows = db.rows /\ d.group = db.group
         /\ d.members = db.members /\ d.belongs = db.belongs
  BY <1>1, TokenFacts DEF StoresTyped
<1>3. db' = d /\ UNCHANGED <<call, calls, unborn, faults, clash, unfinished>>
  BY <1>1 DEF TokenGone
<1>4. QED
  BY <1>2, <1>3 DEF StoresTyped

-----------------------------------------------------------------------------
(* HandlerSteps, kinds and requests fit together.                                *)

ShapeOf(e) == KindAtLabel(e) /\ RequestFits(e)

LEMMA IdleShape == ShapeOf(Idle)
BY IdleFacts DEF ShapeOf, KindAtLabel, RequestFits, AddingFriend, DeletingFriend, Writing, Granting, Restoring,
   Removing, Creating, Deleting, FriendKinds, NoRequest, None

\* The moves of the calls between labels that carry the fields along.
Follows(e, l) ==
  \/ e.pc \in AddingFriend /\ l \in AddingFriend
  \/ e.pc \in DeletingFriend /\ l \in DeletingFriend
  \/ e.pc \in Writing /\ l \in Writing
  \/ e.pc \in Writing /\ e.req.kind = "create" /\ l \in Creating
  \/ e.pc \in Writing /\ e.req.kind \in {"add", "join"} /\ l \in Granting
  \/ e.pc \in Granting /\ l \in Granting \cup Restoring
  \/ e.pc \in Granting \cup {"m_get"} /\ e.req.kind = "join" /\ l \in {"m_get", "m_revoke"}
  \/ e.pc \in {"m_revoke"} \cup Restoring \cup Removing /\ l \in Restoring
  \/ e.pc = "add" /\ l = "a_target"
  \/ e.pc = "put" /\ l = "p_target"
  \/ e.pc \in Removing /\ l \in Removing
  \/ e.pc \in Creating /\ l \in Creating
  \/ e.pc = "invite" /\ l = "n_token"
  \/ e.pc \in Deleting /\ l \in Deleting

\* A step along the labels of a handler keeps kind, request and role in shape.
LEMMA ShapeFollows ==
  ASSUME NEW e, NEW f, ShapeOf(e), Follows(e, f.pc),
         f.req = e.req, f.role = e.role, f.prior = e.prior
  PROVE  ShapeOf(f)
<1> USE DEF ShapeOf, AddingFriend, DeletingFriend, Writing, Granting, Restoring, Removing, Creating, Deleting
<1>1. KindAtLabel(f)
  BY DEF KindAtLabel, Follows
<1>2. f.pc # "idle" /\ e.pc # "idle"
  BY DEF Follows
<1>3. RequestFits(f)
  BY <1>2 DEF RequestFits, Follows, KindAtLabel
<1>4. QED
  BY <1>1, <1>3

LEMMA MoveShape ==
  ASSUME NEW c \in Handlers, ShapeOf(call[c]), NEW l, GoesOn(c, l, call[c]),
         l = "idle" \/ Follows(call[c], l)
  PROVE  ShapeOf(call'[c])
<1>1. CASE l = "idle"
  BY <1>1, IdleShape DEF GoesOn
<1>2. CASE l # "idle"
  BY <1>2, ShapeFollows DEF GoesOn
<1>3. QED
  BY <1>1, <1>2

LEMMA WriteShape ==
  ASSUME StoresTyped, NEW c \in Handlers, ShapeOf(call[c]),
         NEW at, NEW new, NEW ok \in HandlerSteps, NEW bad \in HandlerSteps, Write(c, at, new, ok, bad),
         call[c].pc = at => ok = "idle" \/ Follows(call[c], ok),
         call[c].pc = at => bad = "idle" \/ Follows(call[c], bad)
  PROVE  ShapeOf(call'[c])
BY WriteFacts, MoveShape DEF Wrote

LEMMA ReadShape ==
  ASSUME StoresTyped, NEW c \in Handlers, ShapeOf(call[c]),
         NEW at, NEW l \in HandlerSteps, Read(c, at, l),
         call[c].pc = at => l = "idle" \/ Follows(call[c], l)
  PROVE  ShapeOf(call'[c])
BY ReadFacts, MoveShape DEF Wrote

\* The actions keep the shape of their call.
LEMMA FriendShape ==
  ASSUME StoresTyped, NEW c \in Handlers, ShapeOf(call[c]),
         AddFriendCheck(c) \/ AddFriendWorkspace(c) \/ AddFriendRows(c) \/ DeleteFriend(c)
  PROVE  ShapeOf(call'[c])
<1>1. CASE AddFriendCheck(c)
  BY <1>1, ReadShape DEF AddFriendCheck, Follows, AddingFriend, HandlerSteps
<1>2. CASE AddFriendWorkspace(c)
  <2>1. CASE MakeWorkspace(c, "f_workspace", "direct", "f_grant1")
    <3>1. "f_workspace" # "idle" /\ "f_grant1" # "idle" /\ "f_grant1" \in HandlerSteps /\ "direct" \in Chats
      BY DEF HandlerSteps, Chats
    <3>2. call[c].pc = "f_workspace"
      BY <2>1, <3>1, MakeWorkspaceFacts
    <3>3. CASE call'[c].pc = "f_grant1" /\ call'[c].req = call[c].req
      BY <3>2, <3>3 DEF ShapeOf, KindAtLabel, RequestFits, AddingFriend, DeletingFriend, Writing, Granting, Restoring,
           Removing, Creating, Deleting
    <3>4. CASE GoesOn(c, "idle", call[c])
      BY <3>4, MoveShape
    <3>5. QED
      BY <2>1, <3>1, <3>3, <3>4, MakeWorkspaceFacts
  <2>2. CASE Write(c, "f_grant1", Granted("direct", Who(c)), "f_grant2", "f_undo")
    BY <2>2, WriteShape DEF Follows, AddingFriend, HandlerSteps
  <2>3. CASE Write(c, "f_grant2", Granted("direct", About(c)), "f_rows", "f_undo")
    BY <2>3, WriteShape DEF Follows, AddingFriend, HandlerSteps
  <2>4. CASE Write(c, "f_undo", Without("direct"), "idle", "idle")
    BY <2>4, WriteShape DEF HandlerSteps
  <2>5. CASE Read(c, "f_undo", "idle")
    BY <2>5, ReadShape DEF HandlerSteps
  <2>6. QED
    BY <1>2, <2>1, <2>2, <2>3, <2>4, <2>5 DEF AddFriendWorkspace
<1>3. CASE AddFriendRows(c)
  BY <1>3, WriteShape DEF AddFriendRows, Follows, AddingFriend, HandlerSteps
<1>4. CASE DeleteFriend(c)
  BY <1>4, WriteShape, ReadShape DEF DeleteFriend, Follows, DeletingFriend, HandlerSteps
<1>5. QED
  BY <1>1, <1>2, <1>3, <1>4

\* A call that turns to writeMember.
LEMMA ToWriteShape ==
  ASSUME StoresTyped, NEW c \in Handlers, ShapeOf(call[c]), NEW at, at # "idle", NEW r \in Roles,
         ToWriteMember(c, at, r),
         \/ at = "g_owner" /\ r = "owner"
         \/ at = "join" /\ r = "member" /\ db.members[About(c)] = None
         \/ at = "a_target" /\ r = call[c].req.role
         \/ at = "p_target" /\ r = call[c].req.role /\ db.members[About(c)] # None
  PROVE  ShapeOf(call'[c])
<1>1. /\ call[c].pc = at /\ call'[c].pc = "m_read" /\ call'[c].req = call[c].req
      /\ call'[c].role = r /\ call'[c].prior = db.members[About(c)]
  BY ToWriteMemberFacts
<1>2. PICK e, f : e = call[c] /\ f = call'[c]
  OBVIOUS
<1>3. KindAtLabel(f) /\ e.req.kind \in {"create", "join", "add", "put"}
  BY <1>1, <1>2 DEF ShapeOf, KindAtLabel, AddingFriend, DeletingFriend, Writing, Granting, Restoring,
           Removing, Creating, Deleting
<1>4. CASE at = "g_owner"
  <2>1. e.req.kind = "create"
    BY <1>1, <1>2, <1>4 DEF ShapeOf, KindAtLabel, Creating
  <2>2. RequestFits(f)
    BY <1>1, <1>2, <1>4, <2>1 DEF ShapeOf, RequestFits, Writing, FriendKinds
  <2>3. QED
    BY <1>2, <1>3, <2>2 DEF ShapeOf
<1>5. CASE at = "join"
  <2>1. e.req.kind = "join"
    BY <1>1, <1>2, <1>5 DEF ShapeOf, KindAtLabel
  <2>2. RequestFits(f)
    BY <1>1, <1>2, <1>5, <2>1 DEF ShapeOf, RequestFits, Writing, FriendKinds
  <2>3. QED
    BY <1>2, <1>3, <2>2 DEF ShapeOf
<1>6. CASE at = "a_target"
  <2>1. e.req.kind = "add"
    BY <1>1, <1>2, <1>6 DEF ShapeOf, KindAtLabel
  <2>2. RequestFits(f)
    BY <1>1, <1>2, <1>6, <2>1 DEF ShapeOf, RequestFits, Writing, FriendKinds
  <2>3. QED
    BY <1>2, <1>3, <2>2 DEF ShapeOf
<1>7. CASE at = "p_target"
  <2>1. e.req.kind = "put"
    BY <1>1, <1>2, <1>7 DEF ShapeOf, KindAtLabel
  <2>2. RequestFits(f)
    BY <1>1, <1>2, <1>7, <2>1 DEF ShapeOf, RequestFits, Writing, FriendKinds
  <2>3. QED
    BY <1>2, <1>3, <2>2 DEF ShapeOf
<1>8. QED
  BY <1>4, <1>5, <1>6, <1>7

LEMMA MemberShape ==
  ASSUME StoresTyped, NEW c \in Handlers, ShapeOf(call[c]),
         \/ WriteMember(c) \/ GrantMember(c) \/ RestoreMember(c)
         \/ Join(c) \/ AddMember(c) \/ PutMember(c) \/ RemoveMember(c)
  PROVE  ShapeOf(call'[c])
<1>0. About(c) \in Peers /\ call[c].req.role \in Roles /\ "member" \in Roles
  BY CallTypes DEF Roles
<1>1. CASE WriteMember(c)
  <2>0. AfterMember(c) \in HandlerSteps /\ MemberFailed(c) \in HandlerSteps
    BY DEF AfterMember, MemberFailed, HandlerSteps
  <2>1. call[c].pc \in Writing =>
          /\ AfterMember(c) = "idle" \/ Follows(call[c], AfterMember(c))
          /\ MemberFailed(c) = "idle" \/ Follows(call[c], MemberFailed(c))
    BY DEF AfterMember, MemberFailed, Follows, Kind, ShapeOf, KindAtLabel, Writing, Granting, Creating
  <2>m. /\ {"m_belong", "i_member", "i_belong"} \subseteq HandlerSteps
        /\ call[c].pc = "m_member" => Follows(call[c], "m_belong")
        /\ call[c].pc = "m_belong" => Follows(call[c], "i_member")
    BY DEF Follows, Writing, HandlerSteps
  <2>2. CASE ReadInto(c, "m_read", "m_member", [call[c] EXCEPT !.found = db.members[About(c)] # None])
    <3>1. /\ call[c].pc = "m_read" /\ call'[c].pc = "m_member" /\ call'[c].req = call[c].req
          /\ call'[c].role = call[c].role /\ call'[c].prior = call[c].prior
      BY <2>2, FindFacts
    <3>2. Follows(call[c], "m_member")
      BY <3>1 DEF Follows, Writing
    <3>3. QED
      BY <3>1, <3>2, ShapeFollows
  <2>3. CASE Write(c, "m_member", Member(About(c), call[c].role), "m_belong", MemberFailed(c))
    BY <2>m, <2>0, <2>1, <2>3, WriteShape DEF Writing
  <2>4. CASE Write(c, "m_belong", Belong(About(c), call[c].role), AfterMember(c), "i_member")
    BY <2>m, <2>0, <2>1, <2>4, WriteShape DEF Writing
  <2>5. CASE Write(c, "i_member", Member(About(c), Undone(c)), "i_belong", "i_belong")
    BY <2>5, WriteShape DEF Follows, Writing, HandlerSteps
  <2>6. CASE Write(c, "i_belong", Belong(About(c), Undone(c)), MemberFailed(c), MemberFailed(c))
    BY <2>0, <2>1, <2>6, WriteShape DEF Writing
  <2>7. QED
    BY <1>1, <2>2, <2>3, <2>4, <2>5, <2>6 DEF WriteMember
<1>2. CASE GrantMember(c)
  <2>1. call[c].pc = "m_get" => call[c].req.kind = "join"
    BY DEF ShapeOf, KindAtLabel
  <2>2. QED
    BY <1>2, <2>1, WriteShape, ReadShape DEF GrantMember, Follows, Granting, Restoring, HandlerSteps, Kind
<1>3. CASE RestoreMember(c)
  BY <1>3, WriteShape DEF RestoreMember, Follows, Restoring, HandlerSteps
<1>4. CASE Join(c)
  <2>1. At(c, "join") => Who(c) = About(c)
    BY DEF ShapeOf, KindAtLabel, RequestFits, Who, About, At
  <2>2. CASE Read(c, "join", "idle")
    BY <2>2, ReadShape DEF HandlerSteps
  <2>3. CASE db.members[Who(c)] = None /\ ToWriteMember(c, "join", "member")
    BY <1>0, <2>1, <2>3, ToWriteShape DEF ToWriteMember, ReadInto
  <2>4. QED
    BY <1>4, <2>2, <2>3 DEF Join
<1>5. CASE AddMember(c)
  BY <1>0, <1>5, ReadShape, ToWriteShape DEF AddMember, Follows, HandlerSteps
<1>6. CASE PutMember(c)
  BY <1>0, <1>6, ReadShape, ToWriteShape DEF PutMember, Follows, HandlerSteps
<1>7. CASE RemoveMember(c)
  <2>1. CASE /\ db.members[About(c)] \in Removable(c)
             /\ ReadInto(c, "remove", "d_role", [call[c] EXCEPT !.prior = db.members[About(c)]])
    <3>1. /\ call[c].pc = "remove" /\ call'[c].pc = "d_role" /\ call'[c].req = call[c].req
          /\ call'[c].prior = db.members[About(c)]
      BY <2>1, RoleFacts
    <3>2. PICK e, f : e = call[c] /\ f = call'[c]
      OBVIOUS
    <3>3. e.req.kind = "remove"
      BY <3>1, <3>2 DEF ShapeOf, KindAtLabel
    <3>4. KindAtLabel(f)
      BY <3>1, <3>2, <3>3 DEF None, KindAtLabel, AddingFriend, DeletingFriend, Writing, Granting, Restoring,
           Removing, Creating, Deleting
    <3>5. RequestFits(f)
      <4>1. db.members[About(c)] # None
        BY <2>1 DEF Removable, None
      <4>2. QED
        BY <3>1, <3>2, <3>3, <4>1 DEF ShapeOf, RequestFits, FriendKinds, Writing, Granting, Restoring, Removing
    <3>6. QED
      BY <3>2, <3>4, <3>5 DEF ShapeOf
  <2>2. CASE \/ Read(c, "remove", "idle")
             \/ Read(c, "d_role", IF MayRemove(c) THEN "d_member" ELSE "idle")
             \/ Write(c, "d_member", Member(About(c), None), "d_belong", "idle")
             \/ Write(c, "d_belong", Belong(About(c), None), "d_group", "d_back")
             \/ Write(c, "d_back", Member(About(c), call[c].prior), "idle", "idle")
             \/ Read(c, "d_group", IF db.group THEN "d_revoke" ELSE "r_member")
             \/ Write(c, "d_revoke", Revoked("group", About(c)), "idle", "r_member")
    BY <2>2, WriteShape, ReadShape DEF Follows, Removing, Restoring, HandlerSteps
  <2>3. QED
    BY <1>7, <2>1, <2>2 DEF RemoveMember
<1>8. QED
  BY <1>1, <1>2, <1>3, <1>4, <1>5, <1>6, <1>7

LEMMA GroupShape ==
  ASSUME StoresTyped, NEW c \in Handlers, ShapeOf(call[c]),
         CreateGroup(c) \/ Invite(c) \/ DeleteGroup(c)
  PROVE  ShapeOf(call'[c])
<1>0. /\ "group" \in Chats /\ "owner" \in Roles /\ "g_grant" \in HandlerSteps
      /\ "e_belongs" \in Sweeps /\ "e_bindings" \in Sweeps /\ {"e_token", "e_workspace"} \subseteq HandlerSteps
  BY DEF Chats, Roles, HandlerSteps, Sweeps
<1>1. CASE CreateGroup(c)
  <2>0. \A l \in Creating, m \in Creating \cup {"idle"} : ForOwner(c, l, m) \in {l, m}
    BY DEF ForOwner
  <2>1. CASE MakeWorkspace(c, "create", "group", ForOwner(c, "g_grant", "g_record"))
    <3>1. PICK l : l = ForOwner(c, "g_grant", "g_record")
      OBVIOUS
    <3>2. /\ l \in {"g_grant", "g_record"} \cap HandlerSteps /\ l # "idle" /\ "create" # "idle"
          /\ MakeWorkspace(c, "create", "group", l)
      BY <2>0, <2>1, <3>1 DEF Creating, HandlerSteps
    <3>3. /\ call[c].pc = "create"
          /\ \/ call'[c].pc = l /\ call'[c].req = call[c].req
             \/ GoesOn(c, "idle", call[c])
      BY <1>0, <3>2, MakeWorkspaceFacts
    <3>4. CASE call'[c].pc \in {"g_grant", "g_record"} /\ call'[c].req = call[c].req
      BY <3>4, <3>3 DEF ShapeOf, KindAtLabel, RequestFits, AddingFriend, DeletingFriend, Writing, Granting, Restoring,
           Removing, Creating, Deleting
    <3>5. CASE GoesOn(c, "idle", call[c])
      BY <3>5, MoveShape
    <3>6. QED
      BY <3>2, <3>4, <3>5, <3>3
  <2>2. CASE ToWriteMember(c, "g_owner", "owner")
    BY <1>0, <2>2, ToWriteShape
  <2>3. CASE \/ Write(c, "g_grant", Granted("group", Who(c)), "g_record", "g_undo")
             \/ Write(c, "g_record", [db EXCEPT !.group = TRUE], ForOwner(c, "g_owner", "idle"), "g_undo")
    BY <2>3, WriteShape DEF Follows, Creating, HandlerSteps, ForOwner
  <2>4. CASE \/ Write(c, "g_undo", Without("group"), ForOwner(c, "g_undo2", "idle"), ForOwner(c, "g_undo2", "idle"))
             \/ Write(c, "g_undo2", Revoked("group", Who(c)), "g_undo3", "g_undo3")
             \/ Write(c, "g_undo3", [db EXCEPT !.group = FALSE], "idle", "idle")
    BY <2>4, WriteShape DEF Follows, Creating, HandlerSteps, ForOwner
  <2>5. QED
    BY <1>1, <2>1, <2>2, <2>3, <2>4 DEF CreateGroup
<1>2. CASE Invite(c)
  BY <1>2, ReadShape, WriteShape DEF Invite, Follows, HandlerSteps
<1>3. CASE DeleteGroup(c)
  <2>1. ASSUME NEW at \in Sweeps, NEW next \in {"e_token", "e_workspace"}, Sweep(c, at, next)
        PROVE  ShapeOf(call'[c])
    <3>1. at \in Deleting /\ next \in Deleting /\ next \in HandlerSteps
      BY <1>0 DEF Deleting, Sweeps
    <3>2. call[c].pc = at
      BY <2>1, <3>1, SweepFacts
    <3>3. CASE GoesOn(c, next, call[c])
      BY <3>1, <3>2, <3>3, MoveShape DEF Follows
    <3>4. CASE GoesOn(c, "idle", call[c])
      BY <3>4, MoveShape
    <3>5. CASE call'[c].pc = at /\ call'[c].req = call[c].req
      <4>1. PICK e, f : e = call[c] /\ f = call'[c]
        OBVIOUS
      <4>2. ShapeOf(f)
        BY <3>1, <3>2, <3>5, <4>1 DEF ShapeOf, KindAtLabel, RequestFits, AddingFriend, DeletingFriend, Writing, Granting,
           Restoring, Removing, Creating, Deleting
      <4>3. QED
        BY <4>1, <4>2
    <3>6. QED
      BY <2>1, <3>1, <3>3, <3>4, <3>5, SweepFacts DEF Wrote
  <2>2. CASE db.group /\ ListMembers(c, "e_list", "e_members")
    <3>1. "e_list" # "idle" /\ "e_members" # "idle" /\ "e_members" \in HandlerSteps
      BY DEF HandlerSteps
    <3>2. call[c].pc = "e_list" /\ call'[c].pc = "e_members" /\ call'[c].req = call[c].req
      BY <2>2, <3>1, ListMembersFacts
    <3>3. QED
      BY <3>2 DEF ShapeOf, KindAtLabel, RequestFits, AddingFriend, DeletingFriend, Writing, Granting,
           Restoring, Removing, Creating, Deleting
  <2>3. CASE \/ Read(c, "delete", IF MayDelete(c) THEN "e_list" ELSE "idle")
             \/ Read(c, "e_list", "idle")
             \/ Write(c, "e_members", [db EXCEPT !.members = [p \in Peers |-> None]], "e_belongs", "idle")
    BY <2>3, ReadShape, WriteShape DEF Follows, Deleting, HandlerSteps
  <2>4. CASE \/ Write(c, "e_token", [db EXCEPT !.token = FALSE], "e_bindings", "idle")
             \/ Write(c, "e_workspace", Without("group"), "e_record", "idle")
             \/ Write(c, "e_record", [db EXCEPT !.group = FALSE], "idle", "idle")
    BY <2>4, WriteShape DEF Follows, Deleting, HandlerSteps
  <2>5. QED
    BY <1>0, <1>3, <2>1, <2>2, <2>3, <2>4 DEF DeleteGroup
<1>4. QED
  BY <1>1, <1>2, <1>3

\* Every call is in shape after a step of one of them.
LEMMA EveryShape ==
  ASSUME StoresTyped, Shaped, NEW c \in Handlers, CallAction(c)
  PROVE  Shaped'
<1>1. ShapeOf(call[c])
  BY DEF Shaped, ShapeOf
<1>2. ShapeOf(call'[c])
  BY <1>1, FriendShape, MemberShape, GroupShape DEF CallAction
<1>3. \A x \in Handlers \ {c} : call'[x] = call[x]
  BY EveryCallStep DEF HandlerStep
<1>4. QED
  BY <1>2, <1>3 DEF Shaped, ShapeOf

\* A new call has the request that Receive admits.
LEMMA ReceiveShape ==
  ASSUME StoresTyped, Shaped, NEW c \in Handlers, NEW r \in Asked, Receive(c, r)
  PROVE  Shaped'
<1>1. PICK f : f = call'[c]
  OBVIOUS
<1>2. f.req = r /\ f.pc = r.kind /\ r.kind \in RequestKinds /\ \A x \in Handlers \ {c} : call'[x] = call[x]
  BY <1>1, ReceiveFacts DEF OthersStay, Asked, Request
<1>3. KindAtLabel(f)
  BY <1>2 DEF KindAtLabel, RequestKinds, AddingFriend, DeletingFriend, Writing, Granting, Restoring, Removing,
     Creating, Deleting, None
<1>4. /\ r.kind \in {"join", "create", "invite", "delete"} => r.about = r.who
      /\ r.kind = "create" => r.who = Owner
      /\ r.kind \in FriendKinds => {r.who, r.about} = Pair
      /\ r.role = "owner" => r.admin
  BY DEF Asked
<1>5. RequestFits(f)
  BY <1>2, <1>4 DEF RequestFits, RequestKinds, Writing, Granting, Restoring, Removing
<1>6. QED
  BY <1>1, <1>2, <1>3, <1>5 DEF Shaped

-----------------------------------------------------------------------------
(* What the actions leave alone.                                           *)

SameGroup ==
  /\ db'.group = db.group /\ db'.token = db.token
  /\ "group" \in db'.ws <=> "group" \in db.ws
SameMember(p) ==
  /\ db'.members[p] = db.members[p] /\ db'.belongs[p] = db.belongs[p]
  /\ p \in db'.bind["group"] <=> p \in db.bind["group"]
SameFriends ==
  /\ db'.rows = db.rows /\ db'.bind["direct"] = db.bind["direct"]
  /\ "direct" \in db'.ws <=> "direct" \in db.ws

\* A step that writes nothing leaves group, members and friendship as they were.
LEMMA SameIfUnchanged ==
  ASSUME db' = db
  PROVE  SameGroup /\ SameFriends /\ \A p \in Peers : SameMember(p)
BY DEF SameGroup, SameFriends, SameMember

\* The actions on the friendship change nothing of the group and its members.
LEMMA FriendEffect ==
  ASSUME StoresTyped, NEW c \in Handlers,
         AddFriendCheck(c) \/ AddFriendWorkspace(c) \/ AddFriendRows(c) \/ DeleteFriend(c)
  PROVE  SameGroup /\ \A p \in Peers : SameMember(p)
<1>0. /\ db \in Stores /\ About(c) \in Peers /\ Who(c) \in Peers
      /\ "direct" \in Chats /\ "group" \in Chats /\ "direct" # "group"
      /\ {"f_grant2", "f_undo", "f_grant1", "f_rows", "idle", "f_workspace", "f_revoke1", "f_revoke2",
          "x_revoke1", "x_revoke2", "x_workspace", "x_rows"} \subseteq HandlerSteps
  BY CallTypes DEF StoresTyped, Chats, HandlerSteps
<1>1. \/ db' = db \/ db' = Without("direct") \/ db' = [db EXCEPT !.ws = @ \cup {"direct"}]
      \/ db' = Granted("direct", Who(c)) \/ db' = Granted("direct", About(c))
      \/ db' = Revoked("direct", Who(c)) \/ db' = Revoked("direct", About(c))
      \/ db' = [db EXCEPT !.rows = TRUE] \/ db' = [db EXCEPT !.rows = FALSE]
  BY DEF AddFriendCheck, AddFriendWorkspace, AddFriendRows, DeleteFriend, Write, Read, ReadInto, MakeWorkspace, Fault
<1>2. CASE db' = Without("direct") \/ db' = [db EXCEPT !.ws = @ \cup {"direct"}]
  BY <1>0, <1>2, WithoutFacts, WorkspaceFacts DEF SameGroup, SameMember
<1>3. CASE db' = Granted("direct", Who(c)) \/ db' = Granted("direct", About(c))
  BY <1>0, <1>3, GrantedFacts DEF SameGroup, SameMember
<1>4. CASE db' = Revoked("direct", Who(c)) \/ db' = Revoked("direct", About(c))
  BY <1>0, <1>4, RevokedFacts DEF SameGroup, SameMember
<1>5. CASE db' = [db EXCEPT !.rows = TRUE] \/ db' = [db EXCEPT !.rows = FALSE]
  BY <1>0, <1>5, RowsFacts DEF SameGroup, SameMember
<1>6. QED
  BY <1>1, <1>2, <1>3, <1>4, <1>5, SameIfUnchanged

MemberAction(c) ==
  \/ WriteMember(c) \/ GrantMember(c) \/ RestoreMember(c)
  \/ Join(c) \/ AddMember(c) \/ PutMember(c) \/ RemoveMember(c)

\* The actions about a member change nothing of any other member.
LEMMA MemberEffect ==
  ASSUME StoresTyped, NEW c \in Handlers, MemberAction(c)
  PROVE  SameGroup /\ SameFriends /\ \A p \in Peers \ {About(c)} : SameMember(p)
<1>0. /\ db \in Stores /\ About(c) \in Peers
      /\ "direct" \in Chats /\ "group" \in Chats /\ "direct" # "group"
      /\ None \in Roles \cup {None} /\ Undone(c) \in Roles \cup {None}
      /\ call[c].role \in Roles \cup {None} /\ call[c].prior \in Roles \cup {None}
  BY CallTypes DEF StoresTyped, Chats
<1>1. \/ db' = db
      \/ \E r \in Roles \cup {None} : db' = Member(About(c), r) \/ db' = Belong(About(c), r)
      \/ db' = Granted("group", About(c)) \/ db' = Revoked("group", About(c))
  BY <1>0 DEF MemberAction, WriteMember, GrantMember, RestoreMember, Join, AddMember, PutMember, RemoveMember,
     Write, Read, ReadInto, ToWriteMember, Fault
<1>2. ASSUME NEW r \in Roles \cup {None}, db' = Member(About(c), r) \/ db' = Belong(About(c), r)
      PROVE  SameGroup /\ SameFriends /\ \A p \in Peers \ {About(c)} : SameMember(p)
  BY <1>0, <1>2, MemberFacts, BelongFacts DEF SameGroup, SameFriends, SameMember
<1>3. CASE db' = Granted("group", About(c)) \/ db' = Revoked("group", About(c))
  BY <1>0, <1>3, GrantedFacts, RevokedFacts DEF SameGroup, SameFriends, SameMember
<1>4. QED
  BY <1>1, <1>2, <1>3, SameIfUnchanged

\* What making the group may change: its owner and nobody else.
LEMMA CreateEffect ==
  ASSUME StoresTyped, NEW c \in Handlers, Shaped, CreateGroup(c)
  PROVE  /\ SameFriends /\ db'.token = db.token
         /\ \A p \in Peers \ {Owner} : SameMember(p)
         /\ Kind(c) = "create" /\ Who(c) = Owner /\ About(c) = Owner
<1>0. /\ db \in Stores /\ Owner \in Peers
      /\ "direct" \in Chats /\ "group" \in Chats /\ "direct" # "group"
  BY SocialAssumption DEF StoresTyped, Chats
<1>1. call[c].pc \in Creating
  BY DEF CreateGroup, MakeWorkspace, Write, ToWriteMember, ReadInto, At, Creating
<1>2. Kind(c) = "create" /\ Who(c) = Owner /\ About(c) = Owner
  BY <1>1 DEF Shaped, KindAtLabel, RequestFits, Kind, Who, About
<1>3. \/ db' = db \/ db' = Without("group") \/ db' = [db EXCEPT !.ws = @ \cup {"group"}]
      \/ db' = Granted("group", Owner) \/ db' = Revoked("group", Owner)
      \/ db' = [db EXCEPT !.group = TRUE] \/ db' = [db EXCEPT !.group = FALSE]
  BY <1>2 DEF CreateGroup, MakeWorkspace, Write, ToWriteMember, ReadInto, Fault
<1>4. CASE db' = Without("group") \/ db' = [db EXCEPT !.ws = @ \cup {"group"}]
  BY <1>0, <1>2, <1>4, WithoutFacts, WorkspaceFacts DEF SameFriends, SameMember
<1>5. CASE db' = Granted("group", Owner) \/ db' = Revoked("group", Owner)
  BY <1>0, <1>2, <1>5, GrantedFacts, RevokedFacts DEF SameFriends, SameMember
<1>6. CASE db' = [db EXCEPT !.group = TRUE] \/ db' = [db EXCEPT !.group = FALSE]
  BY <1>0, <1>2, <1>6, RecordFacts DEF SameFriends, SameMember
<1>7. QED
  BY <1>2, <1>3, <1>4, <1>5, <1>6, SameIfUnchanged DEF SameGroup

\* An invitation changes nothing but the token.
LEMMA InviteEffect ==
  ASSUME StoresTyped, NEW c \in Handlers, Invite(c)
  PROVE  /\ SameFriends /\ \A p \in Peers : SameMember(p)
         /\ db'.group = db.group /\ db'.ws = db.ws
<1>1. db' = db \/ db' = [db EXCEPT !.token = TRUE]
  BY DEF Invite, Read, ReadInto, Write, Fault
<1>2. CASE db' = [db EXCEPT !.token = TRUE]
  BY <1>2, TokenFacts DEF StoresTyped, SameFriends, SameMember
<1>3. QED
  BY <1>1, <1>2, SameIfUnchanged DEF SameGroup

\* A deletion leaves the friendship alone.
LEMMA DeleteEffect ==
  ASSUME StoresTyped, NEW c \in Handlers, Shaped, DeleteGroup(c)
  PROVE  SameFriends /\ Kind(c) = "delete" /\ \A p \in Peers : db'.members[p] = db.members[p] \/ db'.members[p] = None
<1>0. /\ db \in Stores /\ {"e_list", "e_members", "e_token", "e_workspace"} \subseteq HandlerSteps
      /\ "direct" \in Chats /\ "group" \in Chats /\ "direct" # "group" /\ None \in Roles \cup {None}
      /\ Sweeps = {"e_belongs", "e_bindings"}
  BY DEF StoresTyped, Chats, Sweeps, HandlerSteps
<1>1. call[c].pc \in Deleting
  BY DEF DeleteGroup, ListMembers, Sweep, Write, Read, ReadInto, At, Deleting
<1>2. Kind(c) = "delete"
  BY <1>1 DEF Shaped, KindAtLabel, Kind
<1>3. ASSUME NEW at \in Sweeps, NEW next \in HandlerSteps, Sweep(c, at, next)
      PROVE  db' = db \/ \E p \in Peers : db' = Belong(p, None) \/ db' = Revoked("group", p)
  BY <1>3, SweepFacts DEF Failed
<1>4. \/ db' = db \/ db' = Without("group") \/ db' = [db EXCEPT !.group = FALSE]
      \/ db' = [db EXCEPT !.token = FALSE] \/ db' = [db EXCEPT !.members = [p \in Peers |-> None]]
      \/ \E p \in Peers : db' = Belong(p, None) \/ db' = Revoked("group", p)
  BY <1>0, <1>3 DEF DeleteGroup, ListMembers, Write, Read, ReadInto, Fault
<1>5. CASE db' = Without("group") \/ db' = [db EXCEPT !.group = FALSE]
  <2>1. CASE db' = Without("group")
    <3>1. db'.rows = db.rows /\ db'.bind = db.bind /\ db'.members = db.members /\ db'.ws = db.ws \ {"group"}
      BY <1>0, <2>1, WithoutFacts
    <3>2. QED
      BY <1>0, <1>2, <3>1 DEF SameFriends
  <2>2. CASE db' = [db EXCEPT !.group = FALSE]
    BY <1>0, <1>2, <2>2, RecordFacts DEF SameFriends
  <2>3. QED
    BY <1>5, <2>1, <2>2
<1>6. CASE db' = [db EXCEPT !.token = FALSE]
  BY <1>0, <1>2, <1>6, TokenFacts DEF SameFriends
<1>7. CASE db' = [db EXCEPT !.members = [p \in Peers |-> None]]
  BY <1>0, <1>2, <1>7, NobodyFacts DEF SameFriends
<1>8. ASSUME NEW p \in Peers, db' = Belong(p, None) \/ db' = Revoked("group", p)
      PROVE  SameFriends /\ \A q \in Peers : db'.members[q] = db.members[q]
  BY <1>0, <1>8, BelongFacts, RevokedFacts DEF SameFriends
<1>9. QED
  BY <1>2, <1>4, <1>5, <1>6, <1>7, <1>8, SameIfUnchanged DEF SameGroup, SameMember

\* The kinds of the calls that act.
LEMMA ActionKinds ==
  ASSUME Shaped, NEW c \in Handlers
  PROVE  /\ AddFriendCheck(c) \/ AddFriendWorkspace(c) \/ AddFriendRows(c) => Kind(c) = "add_friend"
         /\ DeleteFriend(c) => Kind(c) = "delete_friend"
         /\ MemberAction(c) => Kind(c) \in {"create", "put", "add", "join", "remove"}
         /\ Invite(c) => Kind(c) = "invite"
<1>0. KindAtLabel(call[c])
  BY DEF Shaped
<1>1. AddFriendCheck(c) \/ AddFriendWorkspace(c) \/ AddFriendRows(c) => call[c].pc \in AddingFriend
  BY DEF AddFriendCheck, AddFriendWorkspace, AddFriendRows, MakeWorkspace, Write, Read, ReadInto, At, AddingFriend
<1>2. DeleteFriend(c) => call[c].pc \in DeletingFriend
  BY DEF DeleteFriend, Write, Read, ReadInto, At, DeletingFriend
<1>3. MemberAction(c) => call[c].pc \in Writing \cup Granting \cup Restoring \cup Removing
                                          \cup {"m_get", "m_revoke", "join", "add", "a_target", "put", "p_target", "remove"}
  BY DEF MemberAction, WriteMember, GrantMember, RestoreMember, Join, AddMember, PutMember, RemoveMember, ToWriteMember,
     Write, Read, ReadInto, At, Writing, Granting, Restoring, Removing
<1>4. Invite(c) => call[c].pc \in {"invite", "n_token"}
  BY DEF Invite, Write, Read, ReadInto, At
<1>5. QED
  BY <1>0, <1>1, <1>2, <1>3, <1>4 DEF KindAtLabel, Kind

-----------------------------------------------------------------------------
(* The parts of the invariant that hold whatever overlaps and fails.       *)

\* A write goes on to a label of AfterFault only when it has failed.
LEMMA WriteSeen ==
  ASSUME StoresTyped, NEW c \in Handlers, FaultsSeen,
         NEW at, NEW new, NEW ok \in HandlerSteps, NEW bad \in HandlerSteps, Write(c, at, new, ok, bad),
         ok \in AfterFault => at \in AfterFault
  PROVE  call'[c].pc \in AfterFault => faults' > 0
<1>1. faults \in Nat
  BY SocialAssumption DEF StoresTyped
<1>2. "idle" \notin AfterFault /\ Idle.pc = "idle"
  BY IdleFacts DEF AfterFault
<1>3. call[c].pc = at
  BY WriteFacts
<1>4. CASE Wrote(c, ok)
  <2>1. call'[c].pc \in AfterFault => ok \in AfterFault /\ faults' = faults
    BY <1>2, <1>4 DEF Wrote, GoesOn
  <2>2. QED
    BY <1>3, <2>1 DEF FaultsSeen
<1>5. CASE Failed(c)
  BY <1>1, <1>5 DEF Failed
<1>6. QED
  BY <1>4, <1>5, WriteFacts

LEMMA ReadSeen ==
  ASSUME StoresTyped, NEW c \in Handlers, NEW at, NEW l \in HandlerSteps \ AfterFault, Read(c, at, l)
  PROVE  call'[c].pc \notin AfterFault
<1>1. "idle" \notin AfterFault /\ Idle.pc = "idle"
  BY IdleFacts DEF AfterFault
<1>2. QED
  BY <1>1, ReadFacts DEF Wrote, GoesOn

\* A call gets to a rollback only by a failure.
LEMMA ActionSeen ==
  ASSUME StoresTyped, NEW c \in Handlers, FaultsSeen, Shaped, CallAction(c)
  PROVE  call'[c].pc \in AfterFault => faults' > 0
<1>0. /\ Idle.pc = "idle" /\ "idle" \in HandlerSteps /\ Sweeps = {"e_belongs", "e_bindings"}
      /\ "direct" \in Chats /\ "group" \in Chats /\ {"owner", "member"} \subseteq Roles /\ call[c].req.role \in Roles
      /\ faults \in Nat
  BY IdleFacts, CallTypes, SocialAssumption DEF Sweeps, HandlerSteps, Chats, Roles, StoresTyped
<1>1. CASE AddFriendCheck(c) \/ AddFriendRows(c) \/ DeleteFriend(c)
  BY <1>1, WriteSeen, ReadSeen DEF AddFriendCheck, AddFriendRows, DeleteFriend, HandlerSteps, AfterFault
<1>2. CASE AddFriendWorkspace(c)
  <2>1. CASE MakeWorkspace(c, "f_workspace", "direct", "f_grant1")
    <3>1. "f_workspace" # "idle" /\ "f_grant1" # "idle" /\ "f_grant1" \in HandlerSteps /\ "f_grant1" \notin AfterFault
      BY DEF HandlerSteps, AfterFault
    <3>2. CASE call'[c].pc = "f_grant1"
      BY <3>1, <3>2
    <3>3. CASE Failed(c)
      BY <1>0, <3>3 DEF Failed
    <3>4. QED
      BY <1>0, <2>1, <3>1, <3>2, <3>3, MakeWorkspaceFacts
  <2>2. CASE ~MakeWorkspace(c, "f_workspace", "direct", "f_grant1")
    BY <1>2, <2>2, WriteSeen, ReadSeen DEF AddFriendWorkspace, HandlerSteps, AfterFault
  <2>3. QED
    BY <2>1, <2>2
<1>3. CASE WriteMember(c)
  <2>1. AfterMember(c) \in HandlerSteps \ AfterFault /\ MemberFailed(c) \in HandlerSteps
    BY DEF AfterMember, MemberFailed, HandlerSteps, AfterFault
  <2>2. /\ {"i_member", "i_belong", "m_belong"} \subseteq HandlerSteps
        /\ "m_belong" \notin AfterFault /\ "m_member" \notin AfterFault /\ {"i_member", "i_belong"} \subseteq AfterFault
    BY DEF HandlerSteps, AfterFault
  <2>3. QED
    BY <1>3, <2>1, <2>2, WriteSeen, FindFacts DEF WriteMember
<1>4. CASE GrantMember(c) \/ RestoreMember(c)
  BY <1>4, WriteSeen, ReadSeen DEF GrantMember, RestoreMember, HandlerSteps, AfterFault
<1>5. CASE Join(c) \/ AddMember(c) \/ PutMember(c)
  BY <1>0, <1>5, ReadSeen, ToWriteMemberFacts DEF Join, AddMember, PutMember, HandlerSteps, AfterFault
<1>6. CASE RemoveMember(c)
  BY <1>6, WriteSeen, ReadSeen, RoleFacts DEF RemoveMember, HandlerSteps, AfterFault
<1>7. CASE CreateGroup(c)
  <2>1. CASE MakeWorkspace(c, "create", "group", ForOwner(c, "g_grant", "g_record"))
    <3>1. /\ "create" # "idle" /\ ForOwner(c, "g_grant", "g_record") # "idle"
          /\ ForOwner(c, "g_grant", "g_record") \in HandlerSteps \ AfterFault
      BY DEF HandlerSteps, AfterFault, ForOwner
    <3>2. CASE call'[c].pc = ForOwner(c, "g_grant", "g_record")
      BY <3>1, <3>2
    <3>3. CASE Failed(c)
      BY <1>0, <3>3 DEF Failed
    <3>4. QED
      BY <1>0, <2>1, <3>1, <3>2, <3>3, MakeWorkspaceFacts
  <2>2. CASE ToWriteMember(c, "g_owner", "owner")
    BY <1>0, <2>2, ToWriteMemberFacts DEF AfterFault
  <2>3. CASE /\ ~MakeWorkspace(c, "create", "group", ForOwner(c, "g_grant", "g_record"))
             /\ ~ToWriteMember(c, "g_owner", "owner")
    <3>1. /\ {"g_record", "g_undo", "g_undo2", "g_undo3", "idle"} \subseteq HandlerSteps
          /\ ForOwner(c, "g_owner", "idle") \in HandlerSteps \ AfterFault /\ "g_record" \notin AfterFault
          /\ ForOwner(c, "g_undo2", "idle") \in HandlerSteps
          /\ {"g_undo", "g_undo2", "g_undo3"} \subseteq AfterFault /\ "idle" \notin AfterFault
      BY DEF HandlerSteps, AfterFault, ForOwner
    <3>2. QED
      BY <1>7, <2>3, <3>1, WriteSeen DEF CreateGroup
  <2>4. QED
    BY <2>1, <2>2, <2>3
<1>8. CASE Invite(c)
  BY <1>8, WriteSeen, ReadSeen DEF Invite, HandlerSteps, AfterFault
<1>9. CASE DeleteGroup(c)
  <2>1. call'[c].pc \notin AfterFault
    <3>1. call'[c] = Idle \/ (call'[c].req = call[c].req /\ HandlerStep(c))
      BY <1>9, EveryCallStep DEF HandlerStep, CallAction
    <3>2. Shaped' /\ Kind(c) = "delete"
      BY <1>9, EveryShape, DeleteEffect DEF CallAction
    <3>3. KindAtLabel(call'[c])
      BY <3>2 DEF Shaped
    <3>4. QED
      BY <1>0, <3>1, <3>2, <3>3 DEF KindAtLabel, Kind, AfterFault, AddingFriend, Writing, Removing, Creating
  <2>2. QED
    BY <2>1
<1>10. QED
  BY <1>1, <1>2, <1>3, <1>4, <1>5, <1>6, <1>7, <1>8, <1>9 DEF CallAction

\* A rollback has a failure before it, for every call.
LEMMA EverySeen ==
  ASSUME StoresTyped, Shaped, FaultsSeen, NEW c \in Handlers, CallAction(c)
  PROVE  FaultsSeen'
<1>1. call'[c].pc \in AfterFault => faults' > 0
  BY ActionSeen
<1>2. HandlerStep(c) /\ faults \in Nat
  BY EveryCallStep, SocialAssumption DEF StoresTyped
<1>3. (faults' = faults \/ faults' = faults + 1) /\ \A x \in Handlers \ {c} : call'[x] = call[x]
  BY <1>2 DEF HandlerStep, Failed
<1>4. QED
  BY <1>1, <1>2, <1>3 DEF FaultsSeen

\* Who is busy after a step was busy before it, with the same request.
LEMMA StillBusy ==
  ASSUME Shaped, NEW c \in Handlers, HandlerStep(c), NEW x \in Busy'
  PROVE  x \in Busy /\ call'[x].req = call[x].req
<1>1. call[c] # Idle
  BY IdleFacts DEF HandlerStep
<1>2. QED
  BY <1>1 DEF HandlerStep, Busy

\* A step of a call does not make two calls overlap that did not.
LEMMA EveryClash ==
  ASSUME StoresTyped, Shaped, ClashKnown, NEW c \in Handlers, CallAction(c)
  PROVE  ClashKnown'
<1>1. HandlerStep(c) /\ clash' = clash
  BY EveryCallStep DEF HandlerStep, Quiet
<1>2. SUFFICES ASSUME NEW x \in Busy', NEW y \in Busy', x # y
               PROVE  /\ clash' = None => ~SameSubject(call'[x].req, call'[y].req)
                      /\ clash' # "mixed" /\ SameSubject(call'[x].req, call'[y].req) =>
                           SameAddition(call'[x].req, call'[y].req)
  BY DEF ClashKnown
<1>3. x \in Busy /\ y \in Busy /\ call'[x].req = call[x].req /\ call'[y].req = call[y].req
  BY <1>1, StillBusy
<1>4. QED
  BY <1>1, <1>2, <1>3 DEF ClashKnown

\* An arrival notes with which calls it overlaps.
LEMMA ReceiveClash ==
  ASSUME StoresTyped, Shaped, ClashKnown, NEW c \in Handlers, NEW r \in Asked, Receive(c, r)
  PROVE  ClashKnown'
<1>1. call[c] = Idle /\ call'[c].req = r /\ \A x \in Handlers \ {c} : call'[x] = call[x]
  BY ReceiveFacts DEF OthersStay
<1> DEFINE others == {call[d].req : d \in Busy}
<1>2. clash' = IF \E o \in others : SameSubject(r, o) /\ ~SameAddition(r, o) THEN "mixed"
               ELSE IF clash = None /\ \E o \in others : SameSubject(r, o) THEN "additions" ELSE clash
  BY DEF Receive
<1>4. \A x \in Busy' : x # c => x \in Busy /\ call'[x].req = call[x].req /\ call[x].req \in others
  BY <1>1 DEF Busy
<1> HIDE DEF others
<1>3. /\ clash' # "mixed" => /\ clash # "mixed"
                             /\ \A o \in others : SameSubject(r, o) => SameAddition(r, o)
      /\ clash' = None => clash = None /\ \A o \in others : ~SameSubject(r, o)
  <2>1. CASE \E o \in others : SameSubject(r, o) /\ ~SameAddition(r, o)
    <3>1. clash' = "mixed"
      BY <1>2, <2>1
    <3>2. QED
      BY <3>1 DEF None
  <2>2. CASE /\ ~ \E o \in others : SameSubject(r, o) /\ ~SameAddition(r, o)
             /\ (\E o \in others : SameSubject(r, o)) /\ clash = None
    <3>1. clash' = "additions"
      BY <1>2, <2>2
    <3>2. \A o \in others : SameSubject(r, o) => SameAddition(r, o)
      BY <2>2
    <3>3. QED
      BY <2>2, <3>1, <3>2 DEF None
  <2>3. CASE /\ ~ \E o \in others : SameSubject(r, o) /\ ~SameAddition(r, o)
             /\ ~((\E o \in others : SameSubject(r, o)) /\ clash = None)
    <3>1. clash' = clash
      BY <1>2, <2>3
    <3>2. \A o \in others : SameSubject(r, o) => SameAddition(r, o)
      BY <2>3
    <3>3. clash = None => \A o \in others : ~SameSubject(r, o)
      BY <2>3
    <3>4. QED
      BY <3>1, <3>2, <3>3
  <2>4. QED
    BY <2>1, <2>2, <2>3
<1>5. SUFFICES ASSUME NEW x \in Busy', NEW y \in Busy', x # y
               PROVE  /\ clash' = None => ~SameSubject(call'[x].req, call'[y].req)
                      /\ clash' # "mixed" /\ SameSubject(call'[x].req, call'[y].req) =>
                           SameAddition(call'[x].req, call'[y].req)
  BY DEF ClashKnown
<1>6. CASE x # c /\ y # c
  BY <1>3, <1>4, <1>5, <1>6 DEF ClashKnown
<1>7. CASE x = c
  <2>1. y # c
    BY <1>5, <1>7
  <2>2. QED
    BY <1>1, <1>3, <1>4, <1>7, <2>1
<1>8. CASE y = c
  <2>1. x # c
    BY <1>5, <1>8
  <2>2. /\ SameSubject(r, call[x].req) <=> SameSubject(call[x].req, r)
        /\ SameAddition(r, call[x].req) <=> SameAddition(call[x].req, r)
    BY DEF SameSubject, SameAddition
  <2>3. QED
    BY <1>1, <1>3, <1>4, <1>8, <2>1, <2>2
<1>9. QED
  BY <1>6, <1>7, <1>8

\* The bindings of the direct chat are those of the friends.
LEMMA EveryFriendBinding ==
  ASSUME StoresTyped, Shaped, BindingsOfFriends, NEW c \in Handlers, CallAction(c)
  PROVE  BindingsOfFriends'
<1>0. db \in Stores /\ About(c) \in Peers /\ Who(c) \in Peers /\ "direct" \in Chats
  BY CallTypes DEF StoresTyped, Chats
<1>1. CASE AddFriendCheck(c) \/ AddFriendWorkspace(c) \/ AddFriendRows(c) \/ DeleteFriend(c)
  <2>1. About(c) \in Pair /\ Who(c) \in Pair
    <3>1. Kind(c) \in FriendKinds
      BY <1>1, ActionKinds DEF FriendKinds
    <3>2. {Who(c), About(c)} = Pair
      BY <3>1 DEF Shaped, RequestFits, Kind, Who, About
    <3>3. QED
      BY <3>2
  <2>2. \/ db' = db \/ db' = Without("direct") \/ db' = [db EXCEPT !.ws = @ \cup {"direct"}]
        \/ db' = Granted("direct", Who(c)) \/ db' = Granted("direct", About(c))
        \/ db' = Revoked("direct", Who(c)) \/ db' = Revoked("direct", About(c))
        \/ db' = [db EXCEPT !.rows = TRUE] \/ db' = [db EXCEPT !.rows = FALSE]
    BY <1>1 DEF AddFriendCheck, AddFriendWorkspace, AddFriendRows, DeleteFriend, Write, Read, ReadInto, MakeWorkspace, Fault
  <2>3. CASE db' = Without("direct") \/ db' = [db EXCEPT !.ws = @ \cup {"direct"}]
    BY <1>0, <2>3, WithoutFacts, WorkspaceFacts DEF BindingsOfFriends
  <2>4. CASE db' = Granted("direct", Who(c)) \/ db' = Granted("direct", About(c))
    BY <1>0, <2>1, <2>4, GrantedFacts DEF BindingsOfFriends
  <2>5. CASE db' = Revoked("direct", Who(c)) \/ db' = Revoked("direct", About(c))
    BY <1>0, <2>5, RevokedFacts DEF BindingsOfFriends
  <2>6. CASE db' = [db EXCEPT !.rows = TRUE] \/ db' = [db EXCEPT !.rows = FALSE]
    BY <1>0, <2>6, RowsFacts DEF BindingsOfFriends
  <2>7. QED
    BY <2>2, <2>3, <2>4, <2>5, <2>6 DEF BindingsOfFriends
<1>2. CASE MemberAction(c) \/ CreateGroup(c) \/ Invite(c) \/ DeleteGroup(c)
  <2>1. SameFriends
    BY <1>2, MemberEffect, CreateEffect, InviteEffect, DeleteEffect
  <2>2. QED
    BY <2>1 DEF SameFriends, BindingsOfFriends
<1>3. QED
  BY <1>1, <1>2 DEF CallAction, MemberAction

\* The friends' calls and the group's calls by their kinds.
LEMMA FriendsOrNot ==
  ASSUME StoresTyped, Shaped, NEW c \in Handlers, CallAction(c)
  PROVE  /\ c \in Busy
         /\ Kind(c) \in FriendKinds => SameGroup /\ \A p \in Peers : SameMember(p)
         /\ Kind(c) \notin FriendKinds => SameFriends
         /\ Kind(c) = "create" =>
              /\ About(c) = Owner /\ db'.token = db.token /\ \A p \in Peers \ {Owner} : SameMember(p)
         /\ \/ Kind(c) \in FriendKinds /\ (AddFriendCheck(c) \/ AddFriendWorkspace(c) \/ AddFriendRows(c) \/ DeleteFriend(c))
            \/ Kind(c) \in {"create", "put", "add", "join", "remove"} /\ MemberAction(c)
            \/ Kind(c) = "create" /\ CreateGroup(c)
            \/ Kind(c) = "invite" /\ Invite(c)
            \/ Kind(c) = "delete" /\ DeleteGroup(c)
<1>1. c \in Busy
  BY EveryCallStep, IdleFacts DEF HandlerStep, Busy
<1>2. CASE AddFriendCheck(c) \/ AddFriendWorkspace(c) \/ AddFriendRows(c) \/ DeleteFriend(c)
  BY <1>1, <1>2, ActionKinds, FriendEffect DEF FriendKinds
<1>3. CASE MemberAction(c)
  <2>1. Kind(c) \in {"create", "put", "add", "join", "remove"}
    BY <1>3, ActionKinds
  <2>2. Kind(c) = "create" => About(c) = Owner
    BY DEF Shaped, RequestFits, Kind, About
  <2>3. SameGroup /\ SameFriends /\ \A p \in Peers \ {About(c)} : SameMember(p)
    BY <1>3, MemberEffect
  <2>4. QED
    BY <1>1, <1>3, <2>1, <2>2, <2>3 DEF FriendKinds, SameGroup
<1>4. CASE CreateGroup(c)
  BY <1>1, <1>4, CreateEffect DEF FriendKinds
<1>5. CASE Invite(c)
  BY <1>1, <1>5, ActionKinds, InviteEffect DEF FriendKinds
<1>6. CASE DeleteGroup(c)
  BY <1>1, <1>6, DeleteEffect DEF FriendKinds
<1>7. QED
  BY <1>2, <1>3, <1>4, <1>5, <1>6 DEF CallAction, MemberAction

\* The owner who makes the group stays alone with it.
LEMMA EveryCreation ==
  ASSUME StoresTyped, Shaped, Creation, NEW c \in Handlers, CallAction(c)
  PROVE  Creation'
<1>1. HandlerStep(c) /\ unborn' = unborn
  BY EveryCallStep DEF HandlerStep, Quiet
<1>2. \A x \in Busy' : x \in Busy /\ Kind(x)' = Kind(x)
  BY <1>1, StillBusy DEF Kind
<1>3. c \in Busy
  BY FriendsOrNot
<1>4. unborn' => NoGroup' /\ \A x \in Busy' : Kind(x)' \in FriendKinds
  <2>1. SUFFICES ASSUME unborn'
                 PROVE  NoGroup' /\ \A x \in Busy' : Kind(x)' \in FriendKinds
    OBVIOUS
  <2>2. NoGroup /\ \A x \in Busy : Kind(x) \in FriendKinds
    BY <1>1, <2>1 DEF Creation
  <2>3. SameGroup /\ \A p \in Peers : SameMember(p)
    BY <1>3, <2>2, FriendsOrNot
  <2>4. NoGroup'
    BY <2>2, <2>3 DEF NoGroup, NoMember, SameGroup, SameMember
  <2>5. QED
    BY <1>2, <2>2, <2>4
<1>5. ASSUME NEW x \in Busy', Kind(x)' = "create"
      PROVE  /\ ~unborn' /\ ~db'.token
             /\ \A d \in Busy' : d # x => Kind(d)' \in FriendKinds
             /\ \A p \in Peers : p # Owner => NoMember(p)'
  <2>1. x \in Busy /\ Kind(x) = "create"
    BY <1>2, <1>5
  <2>2. /\ ~unborn /\ ~db.token
        /\ \A d \in Busy : d # x => Kind(d) \in FriendKinds
        /\ \A p \in Peers : p # Owner => NoMember(p)
    BY <2>1 DEF Creation
  <2>3. db'.token = db.token /\ \A p \in Peers \ {Owner} : SameMember(p)
    <3>1. CASE x = c
      BY <2>1, <3>1, FriendsOrNot
    <3>2. CASE x # c
      BY <1>3, <2>2, <3>2, FriendsOrNot DEF SameGroup
    <3>3. QED
      BY <3>1, <3>2
  <2>4. \A p \in Peers : p # Owner => NoMember(p)'
    BY <2>2, <2>3 DEF NoMember, SameMember
  <2>5. QED
    BY <1>1, <1>2, <2>2, <2>3, <2>4
<1>6. QED
  BY <1>4, <1>5 DEF Creation

\* Nobody calls a group that is not made yet.
LEMMA ReceiveCreation ==
  ASSUME StoresTyped, Shaped, Creation, NEW c \in Handlers, NEW r \in Asked, Receive(c, r)
  PROVE  Creation'
<1>1. /\ call[c] = Idle /\ call'[c].req = r /\ \A x \in Handlers \ {c} : call'[x] = call[x]
      /\ db' = db /\ unborn' = (unborn /\ r.kind # "create")
  BY ReceiveFacts DEF OthersStay
<1>2. /\ r.kind = "create" => unborn
      /\ r.kind \notin FriendKinds \cup {"create"} => ~unborn /\ \A d \in Busy : Kind(d) # "create"
  BY DEF Receive
<1>3. /\ \A x \in Busy' : x # c => x \in Busy /\ Kind(x)' = Kind(x)
      /\ Kind(c)' = r.kind
  BY <1>1 DEF Busy, Kind
<1>4. NoGroup' = NoGroup /\ \A p \in Peers : NoMember(p)' = NoMember(p)
  BY <1>1 DEF NoGroup, NoMember
<1>5. unborn' => NoGroup' /\ \A x \in Busy' : Kind(x)' \in FriendKinds
  BY <1>1, <1>2, <1>3, <1>4 DEF Creation
<1>6. ASSUME NEW x \in Busy', Kind(x)' = "create"
      PROVE  /\ ~unborn' /\ ~db'.token
             /\ \A d \in Busy' : d # x => Kind(d)' \in FriendKinds
             /\ \A p \in Peers : p # Owner => NoMember(p)'
  <2>1. CASE x = c
    <3>1. NoGroup /\ \A d \in Busy : Kind(d) \in FriendKinds
      BY <1>2, <1>3, <1>6, <2>1 DEF Creation
    <3>2. QED
      BY <1>1, <1>3, <1>4, <1>6, <2>1, <3>1 DEF NoGroup
  <2>2. CASE x # c
    <3>1. x \in Busy /\ Kind(x) = "create"
      BY <1>3, <1>6, <2>2
    <3>2. /\ ~unborn /\ ~db.token
          /\ \A d \in Busy : d # x => Kind(d) \in FriendKinds
          /\ \A p \in Peers : p # Owner => NoMember(p)
      BY <3>1 DEF Creation
    <3>3. r.kind \in FriendKinds
      BY <1>2, <3>1, <3>2
    <3>4. QED
      BY <1>1, <1>3, <1>4, <3>2, <3>3
  <2>3. QED
    BY <2>1, <2>2
<1>7. QED
  BY <1>5, <1>6 DEF Creation

-----------------------------------------------------------------------------
(* The owner.                                                              *)

\* A call of a peer that does not make the group writes no owner, and over one
\* only if another call has made him so since.
LEMMA MemberKeepsOwner ==
  ASSUME StoresTyped, Shaped, NEW c \in Handlers, OwnerKnown(c), MemberAction(c), Kind(c) # "create", ~ByAdmin(c)
  PROVE  \A p \in Peers :
           /\ db'.members[p] = "owner" => db.members[p] = "owner"
           /\ db.members[p] = "owner" /\ db'.members[p] # "owner" => p = About(c) /\ c \in overtaken
<1> DEFINE Kept == \A p \in Peers :
           /\ db'.members[p] = "owner" => db.members[p] = "owner"
           /\ db.members[p] = "owner" /\ db'.members[p] # "owner" => p = About(c) /\ c \in overtaken
<1>0. /\ db \in Stores /\ About(c) \in Peers /\ "group" \in Chats
      /\ None \in Roles \cup {None} /\ Undone(c) \in Roles \cup {None} /\ None # "owner"
      /\ call[c].role \in Roles \cup {None} /\ call[c].prior \in Roles \cup {None}
  BY CallTypes DEF StoresTyped, Chats, None
<1>1. \/ db' = db
      \/ /\ call[c].pc \in Writing
         /\ \E r \in {call[c].role, Undone(c)} : db' = Member(About(c), r)
      \/ /\ call[c].pc \in WritesMembers
         /\ \E r \in {call[c].prior, None} : db' = Member(About(c), r)
      \/ \E r \in {call[c].role, call[c].prior, Undone(c), None} : db' = Belong(About(c), r)
      \/ db' = Granted("group", About(c)) \/ db' = Revoked("group", About(c))
  BY DEF MemberAction, WriteMember, GrantMember, RestoreMember, Join, AddMember, PutMember, RemoveMember,
     Write, Read, ReadInto, ToWriteMember, Fault, At, WritesMembers, Writing, Restoring, Removing
<1>r. call[c].pc \in Writing => call[c].role # "owner"
  BY DEF Shaped, RequestFits, KindAtLabel, Kind, ByAdmin, Writing
<1>w. call[c].pc \in WritesMembers =>
        (db.members[About(c)] = "owner" => c \in overtaken) /\ call[c].prior # "owner"
  BY DEF OwnerKnown
<1>2. ASSUME NEW r \in Roles \cup {None}, r # "owner",
             call[c].pc \in WritesMembers, db' = Member(About(c), r)
      PROVE  Kept
  BY <1>0, <1>2, <1>w, MemberFacts
<1>6. ASSUME NEW r \in {call[c].role, Undone(c)}, call[c].pc \in Writing, db' = Member(About(c), r)
      PROVE  Kept
  <2>1. r # "owner" /\ r \in Roles \cup {None}
    BY <1>0, <1>r, <1>6 DEF Undone
  <2>2. call[c].pc \in WritesMembers
    BY <1>6 DEF WritesMembers
  <2>3. QED
    BY <1>2, <1>6, <2>1, <2>2
<1>7. ASSUME NEW r \in {call[c].prior, None}, call[c].pc \in WritesMembers, db' = Member(About(c), r)
      PROVE  Kept
  <2>1. r # "owner" /\ r \in Roles \cup {None}
    BY <1>0, <1>w, <1>7
  <2>2. QED
    BY <1>2, <1>7, <2>1
<1>3. ASSUME NEW r \in {call[c].role, call[c].prior, Undone(c), None}, db' = Belong(About(c), r)
      PROVE  db'.members = db.members
  BY <1>0, <1>3, BelongFacts
<1>4. CASE db' = Granted("group", About(c)) \/ db' = Revoked("group", About(c))
  BY <1>0, <1>4, GrantedFacts, RevokedFacts
<1>5. QED
  BY <1>1, <1>3, <1>4, <1>6, <1>7

\* Who is overtaken stays so as long as his call lasts, and only handlers that
\* serve a call are.
LEMMA StaysOvertaken ==
  ASSUME Overtake
  PROVE  /\ overtaken' \subseteq Busy'
         /\ \A c \in Busy : call'[c] # Idle /\ (c \in overtaken \/ Overtakes(c)) => c \in overtaken'
BY DEF Overtake, Busy

\* A call that goes on does not get to an owner that it did not have.
LEMMA MovedOwner ==
  ASSUME StoresTyped, Overtake, NEW c \in Busy, NEW l, GoesOn(c, l, call[c]), OwnerKnown(c), ~ByAdmin(c),
         l \in WritesMembers => call[c].pc \in WritesMembers,
         db'.members[About(c)] = "owner" => db.members[About(c)] = "owner"
  PROVE  OwnerKnown(c)'
<1>1. CASE l = "idle"
  BY <1>1, IdleFacts DEF GoesOn, OwnerKnown, WritesMembers, Writing, Granting, Restoring, Removing
<1>2. CASE l # "idle"
  <2>1. call'[c] # Idle
    BY <1>2, IdleFacts DEF GoesOn
  <2>2. c \in overtaken => c \in overtaken'
    BY <2>1, StaysOvertaken
  <2>3. /\ call'[c].pc = l /\ call'[c].req = call[c].req /\ call'[c].prior = call[c].prior
    BY <1>2 DEF GoesOn
  <2>4. QED
    BY <2>2, <2>3 DEF OwnerKnown, About, Kind, ByAdmin
<1>3. QED
  BY <1>1, <1>2

LEMMA WriteOwner ==
  ASSUME StoresTyped, Overtake, NEW c \in Busy, OwnerKnown(c), ~ByAdmin(c),
         NEW at, NEW new, NEW ok \in HandlerSteps, NEW bad \in HandlerSteps, Write(c, at, new, ok, bad),
         at \in WritesMembers,
         db'.members[About(c)] = "owner" => db.members[About(c)] = "owner"
  PROVE  OwnerKnown(c)'
BY WriteFacts, MovedOwner DEF Wrote, Busy

LEMMA ReadOwner ==
  ASSUME StoresTyped, Overtake, NEW c \in Busy, OwnerKnown(c), ~ByAdmin(c),
         NEW at, NEW l \in HandlerSteps, Read(c, at, l), l \in WritesMembers => at \in WritesMembers
  PROVE  OwnerKnown(c)'
BY ReadFacts, MovedOwner DEF Wrote, Busy

LEMMA ToWriteOwner ==
  ASSUME StoresTyped, NEW c \in Handlers, NEW at, at # "idle", NEW r \in Roles,
         ToWriteMember(c, at, r), ~ByAdmin(c) => db.members[About(c)] # "owner"
  PROVE  OwnerKnown(c)'
BY ToWriteMemberFacts DEF OwnerKnown, About, ByAdmin

\* An administrator's call may write over an owner.
LEMMA AdminOwner ==
  ASSUME StoresTyped, Shaped, NEW c \in Handlers, CallAction(c), ByAdmin(c)
  PROVE  OwnerKnown(c)'
<1>1. CASE call'[c] = Idle
  BY <1>1, IdleFacts DEF OwnerKnown, WritesMembers, Writing, Granting, Restoring, Removing
<1>2. CASE call'[c].req = call[c].req
  BY <1>2 DEF OwnerKnown, ByAdmin
<1>3. QED
  BY <1>1, <1>2, EveryCallStep DEF HandlerStep

\* The peer's call that takes the step has met no owner but one made since.
LEMMA OwnOwner ==
  ASSUME StoresTyped, Shaped, Overtake, NEW c \in Busy, OwnerKnown(c), MemberAction(c), Kind(c) # "create", ~ByAdmin(c)
  PROVE  OwnerKnown(c)'
<1>h. c \in Handlers
  BY DEF Busy
<1>1. db'.members[About(c)] = "owner" => db.members[About(c)] = "owner"
  BY <1>h, CallTypes, MemberKeepsOwner
<1>2. call[c].req.role \in Roles /\ "member" \in Roles /\ None # "owner"
  BY <1>h, CallTypes DEF Roles, None
<1>3. /\ {"m_read", "m_member", "m_belong", "i_member", "i_belong"} \subseteq WritesMembers
      /\ {"m_group", "m_grant", "r_member", "r_belong"} \subseteq WritesMembers
      /\ {"d_role", "d_member", "d_belong", "d_back", "d_group", "d_revoke", "m_get", "m_revoke"} \subseteq WritesMembers
  BY DEF WritesMembers, Writing, Granting, Restoring, Removing
<1>l. /\ {"m_read", "m_member", "m_belong", "i_member", "i_belong", "m_group", "m_grant", "r_member", "r_belong"} \subseteq HandlerSteps
      /\ {"d_role", "d_member", "d_belong", "d_back", "d_group", "d_revoke", "m_get", "m_revoke"} \subseteq HandlerSteps
      /\ {"idle", "a_target", "p_target"} \subseteq HandlerSteps
  BY DEF HandlerSteps
<1>n. \A l \in {"idle", "a_target", "p_target"} : l \notin WritesMembers
  BY DEF WritesMembers, Writing, Granting, Restoring, Removing
<1>4. AfterMember(c) \in {"idle", "m_group"} /\ MemberFailed(c) = "idle"
  BY DEF AfterMember, MemberFailed
<1>w. ASSUME NEW at \in WritesMembers, NEW new, NEW ok \in HandlerSteps, NEW bad \in HandlerSteps, Write(c, at, new, ok, bad)
      PROVE  OwnerKnown(c)'
  BY <1>1, <1>w, WriteOwner
<1>r. ASSUME NEW at, NEW l \in HandlerSteps, Read(c, at, l), l \in WritesMembers => at \in WritesMembers
      PROVE  OwnerKnown(c)'
  BY <1>r, ReadOwner
<1>5. CASE WriteMember(c)
  <2>1. CASE ReadInto(c, "m_read", "m_member", [call[c] EXCEPT !.found = db.members[About(c)] # None])
    <3>1. /\ call[c].pc = "m_read" /\ call'[c].req = call[c].req /\ db' = db
          /\ call'[c].pc = "m_member" /\ call'[c].prior = call[c].prior
      BY <1>h, <2>1, FindFacts
    <3>2. c \in overtaken => c \in overtaken'
      BY <3>1, IdleFacts, StaysOvertaken
    <3>3. QED
      BY <1>3, <3>1, <3>2 DEF OwnerKnown, About, Kind, ByAdmin
  <2>2. QED
    BY <1>3, <1>l, <1>4, <1>5, <1>w, <2>1 DEF WriteMember
<1>6. CASE GrantMember(c)
  BY <1>3, <1>l, <1>n, <1>6, <1>w, <1>r DEF GrantMember
<1>12. CASE RestoreMember(c)
  BY <1>3, <1>l, <1>n, <1>12, <1>w, <1>r DEF RestoreMember
<1>7. CASE Join(c)
  <2>1. At(c, "join") => Who(c) = About(c)
    BY <1>h DEF Shaped, KindAtLabel, RequestFits, Who, About, At
  <2>2. CASE db.members[Who(c)] = None /\ ToWriteMember(c, "join", "member")
    BY <1>h, <1>2, <2>1, <2>2, ToWriteOwner DEF ToWriteMember, ReadInto
  <2>3. QED
    BY <1>l, <1>n, <1>7, <1>r, <2>2 DEF Join
<1>8. CASE AddMember(c)
  BY <1>h, <1>2, <1>l, <1>n, <1>8, <1>r, ToWriteOwner DEF AddMember
<1>9. CASE PutMember(c)
  BY <1>h, <1>2, <1>l, <1>n, <1>9, <1>r, ToWriteOwner DEF PutMember
<1>10. CASE RemoveMember(c)
  <2>1. CASE /\ db.members[About(c)] \in Removable(c)
             /\ ReadInto(c, "remove", "d_role", [call[c] EXCEPT !.prior = db.members[About(c)]])
    <3>1. /\ call[c].pc = "remove" /\ call'[c].req = call[c].req /\ db' = db
          /\ call'[c].prior = db.members[About(c)] /\ call'[c].role = call[c].role
      BY <1>h, <2>1, RoleFacts
    <3>2. db.members[About(c)] # "owner"
      BY <2>1 DEF Removable
    <3>3. QED
      BY <3>1, <3>2 DEF OwnerKnown, About
  <2>2. CASE \/ Read(c, "remove", "idle")
             \/ Read(c, "d_role", IF MayRemove(c) THEN "d_member" ELSE "idle")
             \/ Read(c, "d_group", IF db.group THEN "d_revoke" ELSE "r_member")
    BY <1>3, <1>l, <1>n, <1>r, <2>2
  <2>3. CASE \/ Write(c, "d_member", Member(About(c), None), "d_belong", "idle")
             \/ Write(c, "d_belong", Belong(About(c), None), "d_group", "d_back")
             \/ Write(c, "d_back", Member(About(c), call[c].prior), "idle", "idle")
             \/ Write(c, "d_revoke", Revoked("group", About(c)), "idle", "r_member")
    BY <1>3, <1>l, <1>w, <2>3
  <2>4. QED
    BY <1>10, <2>1, <2>2, <2>3 DEF RemoveMember
<1>11. QED
  BY <1>5, <1>6, <1>7, <1>8, <1>9, <1>10, <1>12 DEF MemberAction

\* Who takes an owner's role.
LEMMA OwnersKept ==
  ASSUME StoresTyped, Shaped, NotTheOwner, NEW c \in Handlers, CallAction(c), NEW p \in Peers,
         db.members[p] = "owner", db'.members[p] # "owner"
  PROVE  Kind(c) \in {"create", "delete"} \/ ByAdmin(c) \/ (c \in overtaken /\ About(c) = p)
<1>1. CASE Kind(c) \in FriendKinds
  BY <1>1, FriendsOrNot DEF SameMember
<1>2. CASE MemberAction(c)
  BY <1>2, MemberKeepsOwner DEF NotTheOwner
<1>3. CASE Invite(c)
  BY <1>3, InviteEffect DEF SameMember
<1>5. QED
  BY <1>1, <1>2, <1>3, FriendsOrNot

\* A write that goes on elsewhere and takes effect moves its call.
LEMMA WriteChanges ==
  ASSUME StoresTyped, NEW c \in Handlers, NEW at, NEW new, NEW ok \in HandlerSteps, NEW bad \in HandlerSteps,
         Write(c, at, new, ok, bad), ok # at, db'.members # db.members
  PROVE  call'[c] # call[c]
<1>1. db' # db
  OBVIOUS
<1>2. call[c].pc = at /\ GoesOn(c, ok, call[c])
  BY <1>1, WriteFacts DEF Wrote, Failed
<1>3. call'[c].pc = ok
  BY <1>2, IdleFacts DEF GoesOn
<1>4. QED
  BY <1>2, <1>3

\* Whose step changes a member, has moved.
LEMMA WriterMoves ==
  ASSUME StoresTyped, Shaped, NEW c \in Handlers, CallAction(c), db'.members # db.members
  PROVE  call'[c] # call[c]
<1>0. /\ db \in Stores /\ About(c) \in Peers /\ Owner \in Peers /\ "group" \in Chats
      /\ db' # db
      /\ Sweeps = {"e_belongs", "e_bindings"}
      /\ None \in Roles \cup {None}
  BY CallTypes, SocialAssumption DEF StoresTyped, Chats, Sweeps
<1>l. /\ {"m_belong", "i_member", "i_belong", "r_member", "r_belong", "d_belong", "d_back", "idle",
          "m_get", "d_group", "g_undo", "m_group", "m_grant", "e_belongs", "e_token", "e_workspace"} \subseteq HandlerSteps
      /\ AfterMember(c) \in {"idle", "m_grant", "m_group"} /\ MemberFailed(c) \in {"idle", "g_undo"}
  BY DEF HandlerSteps, AfterMember, MemberFailed
<1>1. ASSUME AddFriendCheck(c) \/ AddFriendWorkspace(c) \/ AddFriendRows(c) \/ DeleteFriend(c)
      PROVE  FALSE
  <2>1. db'.members = db.members
    <3>1. HandlerStep(c)
      BY EveryCallStep
    <3>2. db' \in Stores
      BY <3>1 DEF HandlerStep, StoresTyped
    <3>3. \A p \in Peers : db'.members[p] = db.members[p]
      BY <1>1, FriendEffect DEF SameMember
    <3>4. QED
      BY <1>0, <3>2, <3>3 DEF Stores
  <2>2. QED
    BY <2>1
<1>2. CASE WriteMember(c)
  BY <1>0, <1>2, <1>l, WriteChanges, FindFacts DEF WriteMember
<1>3. CASE GrantMember(c)
  <2>1. db'.members = db.members
    <3>1. db' = db \/ db' = Granted("group", About(c)) \/ db' = Revoked("group", About(c))
      BY <1>3 DEF GrantMember, Read, ReadInto, Write, Fault
    <3>2. QED
      BY <1>0, <3>1, GrantedFacts, RevokedFacts
  <2>2. QED
    BY <2>1
<1>4. CASE RestoreMember(c)
  BY <1>0, <1>4, <1>l, WriteChanges DEF RestoreMember
<1>5. ASSUME Join(c) \/ AddMember(c) \/ PutMember(c)
      PROVE  FALSE
  BY <1>0, <1>5 DEF Join, AddMember, PutMember, ToWriteMember, Read, ReadInto
<1>6. CASE RemoveMember(c)
  <2>1. CASE \/ Write(c, "d_member", Member(About(c), None), "d_belong", "idle")
             \/ Write(c, "d_belong", Belong(About(c), None), "d_group", "d_back")
             \/ Write(c, "d_back", Member(About(c), call[c].prior), "idle", "idle")
    BY <1>l, <2>1, WriteChanges
  <2>2. ASSUME Write(c, "d_revoke", Revoked("group", About(c)), "idle", "r_member")
        PROVE  FALSE
    <3>1. db' = db \/ db' = Revoked("group", About(c))
      BY <2>2 DEF Write, Fault
    <3>2. QED
      BY <1>0, <3>1, RevokedFacts
  <2>3. QED
    BY <1>0, <1>6, <2>1, <2>2 DEF RemoveMember, Read, ReadInto
<1>7. ASSUME CreateGroup(c) \/ Invite(c)
      PROVE  FALSE
  <2>1. Who(c) \in Peers
    BY CallTypes
  <2>2. \/ db' = Without("group") \/ db' = [db EXCEPT !.ws = @ \cup {"group"}]
        \/ db' = Granted("group", Who(c)) \/ db' = Revoked("group", Who(c))
        \/ db' = [db EXCEPT !.group = TRUE] \/ db' = [db EXCEPT !.group = FALSE] \/ db' = [db EXCEPT !.token = TRUE]
    BY <1>0, <1>7 DEF CreateGroup, Invite, MakeWorkspace, Write, ToWriteMember, Read, ReadInto, Fault
  <2>3. db'.members = db.members
    <3>1. CASE db' = Without("group") \/ db' = [db EXCEPT !.ws = @ \cup {"group"}]
      BY <1>0, <3>1, WithoutFacts, WorkspaceFacts
    <3>2. CASE db' = Granted("group", Who(c)) \/ db' = Revoked("group", Who(c))
      BY <1>0, <2>1, <3>2, GrantedFacts, RevokedFacts
    <3>3. CASE db' = [db EXCEPT !.group = TRUE] \/ db' = [db EXCEPT !.group = FALSE]
      BY <1>0, <3>3, RecordFacts
    <3>4. CASE db' = [db EXCEPT !.token = TRUE]
      BY <1>0, <3>4, TokenFacts
    <3>5. QED
      BY <2>2, <3>1, <3>2, <3>3, <3>4
  <2>4. QED
    BY <2>3
<1>8. CASE DeleteGroup(c)
  <2>1. CASE Write(c, "e_members", [db EXCEPT !.members = [p \in Peers |-> None]], "e_belongs", "idle")
    BY <1>l, <2>1, WriteChanges
  <2>2. ASSUME NEW at \in Sweeps, NEW next \in HandlerSteps, Sweep(c, at, next)
        PROVE  FALSE
    <3>1. db' = db \/ \E p \in Peers : db' = Belong(p, None) \/ db' = Revoked("group", p)
      BY <2>2, SweepFacts DEF Failed
    <3>2. QED
      BY <1>0, <3>1, BelongFacts, RevokedFacts
  <2>3. ASSUME \/ Write(c, "e_token", [db EXCEPT !.token = FALSE], "e_bindings", "idle")
               \/ Write(c, "e_workspace", Without("group"), "e_record", "idle")
               \/ Write(c, "e_record", [db EXCEPT !.group = FALSE], "idle", "idle")
        PROVE  FALSE
    <3>1. \/ db' = [db EXCEPT !.token = FALSE] \/ db' = Without("group") \/ db' = [db EXCEPT !.group = FALSE]
      BY <1>0, <2>3 DEF Write, Fault
    <3>2. CASE db' = [db EXCEPT !.token = FALSE]
      BY <1>0, <3>2, TokenFacts
    <3>3. CASE db' = Without("group")
      BY <1>0, <3>3, WithoutFacts
    <3>4. CASE db' = [db EXCEPT !.group = FALSE]
      BY <1>0, <3>4, RecordFacts
    <3>5. QED
      BY <3>1, <3>2, <3>3, <3>4
  <2>4. QED
    BY <1>0, <1>l, <1>8, <2>1, <2>2, <2>3 DEF DeleteGroup, ListMembers, Read, ReadInto
<1>9. QED
  BY <1>1, <1>2, <1>3, <1>4, <1>5, <1>6, <1>7, <1>8 DEF CallAction

\* Who is about to write a member.
LEMMA WritersKind ==
  ASSUME Shaped, NEW c \in Handlers, call[c].pc \in WritesMembers
  PROVE  /\ Kind(c) \in {"create", "put", "add", "join", "remove"} /\ Kind(c) \notin FriendKinds
         /\ c \in Busy
<1>1. call[c] # Idle
  BY IdleFacts DEF WritesMembers, Writing, Granting, Restoring, Removing
<1>2. QED
  BY <1>1 DEF Shaped, KindAtLabel, Kind, WritesMembers, Busy, FriendKinds

\* The other calls know what they knew, unless the step has made their subject
\* an owner, which is to overtake them.
LEMMA EveryOwner ==
  ASSUME StoresTyped, Shaped, NotTheOwner, Overtake, NEW c \in Handlers, CallAction(c)
  PROVE  NotTheOwner'
<1>1. SUFFICES ASSUME NEW x \in Handlers
               PROVE  OwnerKnown(x)'
  BY DEF NotTheOwner
<1>2. HandlerStep(c) /\ c \in Busy /\ Shaped'
  BY EveryCallStep, FriendsOrNot, EveryShape
<1>3. CASE x = c /\ ~ByAdmin(c) /\ MemberAction(c) /\ Kind(c) # "create"
  BY <1>2, <1>3, OwnOwner DEF NotTheOwner
<1>4. CASE x = c /\ ByAdmin(c)
  BY <1>4, AdminOwner
<1>5. CASE x = c /\ ~(MemberAction(c) /\ Kind(c) # "create")
  <2>1. Kind(c) \in FriendKinds \cup {"create", "invite", "delete"}
    BY <1>5, FriendsOrNot DEF FriendKinds
  <2>2. call'[c] = Idle \/ call'[c].req = call[c].req
    BY <1>2 DEF HandlerStep
  <2>3. call'[c].pc \in WritesMembers => Kind(c)' = "create"
    <3>1. CASE call'[c] = Idle
      BY <3>1, IdleFacts DEF WritesMembers, Writing, Granting, Restoring, Removing
    <3>2. CASE call'[c].req = call[c].req
      <4>1. KindAtLabel(call'[c]) /\ call'[c].req.kind \in FriendKinds \cup {"create", "invite", "delete"}
        BY <1>2, <2>1, <3>2 DEF Shaped, Kind
      <4>2. QED
        BY <4>1 DEF KindAtLabel, Kind, WritesMembers, FriendKinds
    <3>3. QED
      BY <2>2, <3>1, <3>2
  <2>4. QED
    BY <1>5, <2>3 DEF OwnerKnown
<1>6. CASE x # c /\ call'[x].pc \in WritesMembers
  <2>1. call'[x] = call[x] /\ call[x].pc \in WritesMembers
    BY <1>2, <1>6 DEF HandlerStep
  <2>2. x \in Busy /\ call'[x] # Idle
    BY <2>1, WritersKind DEF Busy
  <2>3. About(x)' = About(x) /\ Kind(x)' = Kind(x) /\ ByAdmin(x)' = ByAdmin(x)
    BY <2>1 DEF About, Kind, ByAdmin
  <2>4. OwnerKnown(x)
    BY DEF NotTheOwner
  <2>5. CASE db'.members[About(x)] = "owner" /\ db.members[About(x)] # "owner"
    <3>1. Overtakes(x)
      BY <2>1, <2>5 DEF Overtakes
    <3>2. x \in overtaken'
      BY <2>2, <3>1, StaysOvertaken
    <3>3. QED
      BY <2>1, <2>3, <2>4, <3>2 DEF OwnerKnown
  <2>6. CASE db.members[About(x)] = "owner" \/ db'.members[About(x)] # "owner"
    <3>1. x \in overtaken => x \in overtaken'
      BY <2>2, StaysOvertaken
    <3>2. QED
      BY <2>1, <2>3, <2>4, <2>6, <3>1 DEF OwnerKnown
  <2>7. QED
    BY <2>5, <2>6
<1>7. CASE call'[x].pc \notin WritesMembers
  BY <1>7 DEF OwnerKnown
<1>8. QED
  BY <1>3, <1>4, <1>5, <1>6, <1>7

\* An orderly history was orderly before its last step, and what that step can be.
LEMMA OrderlyBefore ==
  ASSUME StoresTyped, NEW c \in Handlers, HandlerStep(c), Orderly'
  PROVE  /\ Orderly
         /\ clash' = clash
         /\ \/ NoFault
            \/ /\ Failed(c) /\ clash = None /\ faults' > 0
               /\ Kind(c) \notin {"delete_friend", "delete"} /\ call[c].pc \notin Rollbacks
<1>1. faults \in Nat /\ clash' = clash /\ unfinished \in BOOLEAN
  BY SocialAssumption DEF HandlerStep, Quiet, StoresTyped
<1>2. CASE NoFault
  BY <1>1, <1>2 DEF Orderly, NoFault
<1>3. CASE Failed(c)
  <2>1. ~unfinished /\ Kind(c) \notin {"delete_friend", "delete"} /\ call[c].pc \notin Rollbacks
    BY <1>1, <1>3 DEF Failed, Orderly
  <2>2. faults' > 0
    BY <1>1, <1>3 DEF Failed
  <2>3. clash = None
    BY <1>1, <2>2 DEF Orderly
  <2>4. QED
    BY <1>1, <1>3, <2>1, <2>2, <2>3 DEF Orderly
<1>4. QED
  BY <1>2, <1>3 DEF HandlerStep, NoFault

\* A request that leaves the overlaps orderly.
LEMMA ReceiveOrderly ==
  ASSUME StoresTyped, NEW c \in Handlers, NEW r \in Asked, Receive(c, r), Orderly'
  PROVE  /\ Orderly
         /\ clash' = None => clash = None
<1>1. clash \in {None, "additions", "mixed"} /\ clash' \in {None, "additions", "mixed"}
  BY ReceiveFacts DEF StoresTyped
<1>2. clash' # "mixed" => clash # "mixed"
  BY DEF Receive, None
<1>3. clash' = None => clash = None
  BY DEF Receive, None
<1>4. faults' = faults /\ unfinished' = unfinished
  BY DEF Receive
<1>5. QED
  BY <1>1, <1>2, <1>3, <1>4 DEF Orderly, None

-----------------------------------------------------------------------------
(* The steps of the friends' calls, as they change the friendship.         *)

SameDirect == "direct" \in db'.ws <=> "direct" \in db.ws

\* An addition goes on.
AddMoves(c) ==
  \/ /\ call[c].pc = "add_friend" /\ SameFriends
     /\ call'[c].pc = "idle" \/ (call'[c].pc = "f_workspace" /\ ~db.rows)
  \/ /\ call[c].pc = "f_workspace" /\ call'[c].pc = "f_grant1"
     /\ db'.rows = db.rows /\ Bound' = Bound /\ "direct" \in db'.ws
     /\ call'[c].made = ("direct" \notin db.ws)
  \/ /\ call[c].pc = "f_grant1" /\ call'[c].pc = "f_grant2"
     /\ db'.rows = db.rows /\ Bound' = Bound \cup {Who(c)} /\ SameDirect /\ call'[c].made = call[c].made
  \/ /\ call[c].pc = "f_grant2" /\ call'[c].pc = "f_rows"
     /\ db'.rows = db.rows /\ Bound' = Bound \cup {About(c)} /\ SameDirect /\ call'[c].made = call[c].made
  \/ /\ call[c].pc = "f_rows" /\ call'[c].pc = "idle"
     /\ db'.rows /\ Bound' = Bound /\ SameDirect

\* An addition fails, or takes back what it has done.
UndoMoves(c) ==
  \/ call[c].pc = "f_workspace" /\ call'[c].pc = "idle" /\ SameFriends /\ Failed(c)
  \/ /\ call[c].pc \in {"f_grant1", "f_grant2"} /\ call'[c].pc = "f_undo"
     /\ SameFriends /\ call'[c].made = call[c].made /\ Failed(c)
  \/ /\ call[c].pc = "f_rows" /\ call'[c].pc = "f_revoke1"
     /\ SameFriends /\ call'[c].made = call[c].made /\ Failed(c)
  \/ /\ call[c].pc = "f_revoke1" /\ call'[c].pc = "f_revoke2"
     /\ db'.rows = db.rows /\ Bound' = Bound \ {Who(c)} /\ call'[c].made = call[c].made
  \/ /\ call[c].pc = "f_revoke2" /\ call'[c].pc = "f_undo"
     /\ db'.rows = db.rows /\ Bound' = Bound \ {About(c)} /\ call'[c].made = call[c].made
  \/ /\ call[c].pc = "f_undo" /\ call'[c].pc = "idle"
     /\ db'.rows = db.rows /\ Bound' = Bound
     /\ call[c].made => "direct" \notin db'.ws

\* A deletion goes on.
DeleteMoves(c) ==
  \/ /\ call[c].pc = "delete_friend" /\ SameFriends
     /\ (call'[c].pc = "x_revoke1" /\ db.rows) \/ call'[c].pc = "idle"
  \/ /\ call[c].pc = "x_revoke1" /\ call'[c].pc = "x_revoke2"
     /\ db'.rows = db.rows /\ Bound' = Bound \ {Who(c)}
  \/ /\ call[c].pc = "x_revoke2" /\ call'[c].pc = "x_workspace"
     /\ db'.rows = db.rows /\ Bound' = Bound \ {About(c)}
  \/ /\ call[c].pc = "x_workspace" /\ call'[c].pc = "x_rows"
     /\ db'.rows = db.rows /\ Bound' = Bound /\ "direct" \notin db'.ws
  \/ /\ call[c].pc = "x_rows" /\ call'[c].pc = "idle"
     /\ ~db'.rows /\ Bound' = Bound /\ SameDirect

\* Every step of an addition is one of its moves.
LEMMA AddMoved ==
  ASSUME StoresTyped, NEW c \in Handlers, Failed(c) => call[c].pc \notin Rollbacks,
         AddFriendCheck(c) \/ AddFriendWorkspace(c) \/ AddFriendRows(c)
  PROVE  AddMoves(c) \/ UndoMoves(c)
<1>0. /\ db \in Stores /\ About(c) \in Peers /\ Who(c) \in Peers /\ Idle.pc = "idle"
      /\ "direct" \in Chats /\ TRUE \in BOOLEAN
  BY CallTypes, IdleFacts DEF StoresTyped, Chats
<1>l. {"idle", "f_workspace", "f_grant1", "f_grant2", "f_rows", "f_undo", "f_revoke1", "f_revoke2"} \subseteq HandlerSteps
  BY DEF HandlerSteps
<1>1. CASE AddFriendCheck(c)
  <2>1. /\ call[c].pc = "add_friend" /\ db' = db
        /\ call'[c].pc = "idle" \/ (call'[c].pc = "f_workspace" /\ ~db.rows)
    BY <1>0, <1>1, <1>l, ReadFacts DEF AddFriendCheck, Wrote, GoesOn
  <2>2. SameFriends
    BY <2>1, SameIfUnchanged
  <2>3. QED
    BY <2>1, <2>2 DEF AddMoves
<1>2. CASE MakeWorkspace(c, "f_workspace", "direct", "f_grant1")
  <2>0. "f_workspace" # "idle" /\ "f_grant1" # "idle" /\ "f_grant1" \in HandlerSteps
    BY <1>l
  <2>1. CASE db' = [db EXCEPT !.ws = @ \cup {"direct"}] /\ call'[c].pc = "f_grant1" /\ call'[c].made = ("direct" \notin db.ws)
    <3>1. db'.rows = db.rows /\ db'.bind = db.bind /\ "direct" \in db'.ws
      BY <1>0, <2>1, WorkspaceFacts
    <3>2. call[c].pc = "f_workspace"
      BY <1>2 DEF MakeWorkspace, At
    <3>3. QED
      BY <2>1, <3>1, <3>2 DEF AddMoves, Bound
  <2>2. CASE Failed(c) /\ GoesOn(c, "idle", call[c])
    <3>1. call[c].pc = "f_workspace" /\ call'[c].pc = "idle"
      BY <1>0, <1>2, <2>2 DEF MakeWorkspace, At, GoesOn
    <3>2. SameFriends
      BY <2>2, SameIfUnchanged DEF Failed
    <3>3. QED
      BY <2>2, <3>1, <3>2 DEF UndoMoves
  <2>3. QED
    BY <1>0, <1>2, <2>0, <2>1, <2>2, MakeWorkspaceFacts
<1>3. ASSUME NEW new, NEW at \in {"f_grant1", "f_grant2", "f_rows"}, NEW ok \in {"f_grant2", "f_rows", "idle"},
             NEW bad \in {"f_undo", "f_revoke1"}, Write(c, at, new, ok, bad),
             ok # "idle" \/ at = "f_rows", bad = (IF at = "f_rows" THEN "f_revoke1" ELSE "f_undo")
      PROVE  \/ /\ call[c].pc = at /\ db' = new /\ call'[c].pc = ok
                /\ ok # "idle" => call'[c].made = call[c].made
             \/ UndoMoves(c)
  <2>1. call[c].pc = at /\ ((db' = new /\ Wrote(c, ok)) \/ (Failed(c) /\ GoesOn(c, bad, call[c])))
    BY <1>3, <1>l, WriteFacts
  <2>2. CASE db' = new /\ Wrote(c, ok)
    BY <1>0, <2>1, <2>2 DEF Wrote, GoesOn
  <2>3. CASE Failed(c) /\ GoesOn(c, bad, call[c])
    <3>1. SameFriends
      BY <2>3, SameIfUnchanged DEF Failed
    <3>2. call'[c].pc = bad /\ call'[c].made = call[c].made
      BY <1>3, <2>3 DEF GoesOn
    <3>3. QED
      BY <1>3, <2>1, <2>3, <3>1, <3>2 DEF UndoMoves
  <2>4. QED
    BY <2>1, <2>2, <2>3
<1>4. CASE Write(c, "f_grant1", Granted("direct", Who(c)), "f_grant2", "f_undo")
  <2>1. CASE call[c].pc = "f_grant1" /\ db' = Granted("direct", Who(c)) /\ call'[c].pc = "f_grant2" /\ call'[c].made = call[c].made
    <3>1. db'.rows = db.rows /\ db'.ws = db.ws /\ Bound' = Bound \cup {Who(c)}
      BY <1>0, <2>1, GrantedFacts DEF Bound
    <3>2. QED
      BY <2>1, <3>1 DEF AddMoves, SameDirect
  <2>2. QED
    BY <1>3, <1>4, <2>1
<1>5. CASE Write(c, "f_grant2", Granted("direct", About(c)), "f_rows", "f_undo")
  <2>1. CASE call[c].pc = "f_grant2" /\ db' = Granted("direct", About(c)) /\ call'[c].pc = "f_rows" /\ call'[c].made = call[c].made
    <3>1. db'.rows = db.rows /\ db'.ws = db.ws /\ Bound' = Bound \cup {About(c)}
      BY <1>0, <2>1, GrantedFacts DEF Bound
    <3>2. QED
      BY <2>1, <3>1 DEF AddMoves, SameDirect
  <2>2. QED
    BY <1>3, <1>5, <2>1
<1>6. CASE Write(c, "f_rows", [db EXCEPT !.rows = TRUE], "idle", "f_revoke1")
  <2>1. CASE call[c].pc = "f_rows" /\ db' = [db EXCEPT !.rows = TRUE] /\ call'[c].pc = "idle"
    <3>1. db'.rows /\ db'.ws = db.ws /\ Bound' = Bound
      BY <1>0, <2>1, RowsFacts DEF Bound
    <3>2. QED
      BY <2>1, <3>1 DEF AddMoves, SameDirect
  <2>2. QED
    BY <1>3, <1>6, <2>1
<1>7. ASSUME NEW new, NEW at \in Rollbacks, NEW ok \in HandlerSteps, NEW bad \in HandlerSteps, Write(c, at, new, ok, bad)
      PROVE  /\ call[c].pc = at /\ db' = new /\ call'[c].pc = ok
             /\ ok # "idle" => call'[c].made = call[c].made
  <2>1. call[c].pc = at /\ ((db' = new /\ Wrote(c, ok)) \/ (Failed(c) /\ GoesOn(c, bad, call[c])))
    BY <1>7, WriteFacts
  <2>2. QED
    BY <1>0, <1>7, <2>1 DEF Wrote, GoesOn
<1>r. {"f_undo", "f_revoke1", "f_revoke2"} \subseteq Rollbacks
  BY DEF Rollbacks
<1>8. CASE Write(c, "f_revoke1", Revoked("direct", Who(c)), "f_revoke2", "f_undo")
  <2>1. /\ call[c].pc = "f_revoke1" /\ db' = Revoked("direct", Who(c)) /\ call'[c].pc = "f_revoke2"
        /\ call'[c].made = call[c].made
    BY <1>l, <1>r, <1>7, <1>8
  <2>2. db'.rows = db.rows /\ Bound' = Bound \ {Who(c)}
    BY <1>0, <2>1, RevokedFacts DEF Bound
  <2>3. QED
    BY <2>1, <2>2 DEF UndoMoves
<1>9. CASE Write(c, "f_revoke2", Revoked("direct", About(c)), "f_undo", "f_undo")
  <2>1. /\ call[c].pc = "f_revoke2" /\ db' = Revoked("direct", About(c)) /\ call'[c].pc = "f_undo"
        /\ call'[c].made = call[c].made
    BY <1>l, <1>r, <1>7, <1>9
  <2>2. db'.rows = db.rows /\ Bound' = Bound \ {About(c)}
    BY <1>0, <2>1, RevokedFacts DEF Bound
  <2>3. QED
    BY <2>1, <2>2 DEF UndoMoves
<1>10. CASE Write(c, "f_undo", Without("direct"), "idle", "idle")
  <2>1. call[c].pc = "f_undo" /\ db' = Without("direct") /\ call'[c].pc = "idle"
    BY <1>l, <1>r, <1>7, <1>10
  <2>2. db'.rows = db.rows /\ Bound' = Bound /\ "direct" \notin db'.ws
    BY <1>0, <2>1, WithoutFacts DEF Bound
  <2>3. QED
    BY <2>1, <2>2 DEF UndoMoves
<1>11. CASE ~call[c].made /\ Read(c, "f_undo", "idle")
  <2>1. call[c].pc = "f_undo" /\ db' = db /\ call'[c].pc = "idle"
    BY <1>0, <1>l, <1>11, ReadFacts DEF Wrote, GoesOn
  <2>2. QED
    BY <1>11, <2>1 DEF UndoMoves, Bound
<1>12. QED
  BY <1>1, <1>2, <1>4, <1>5, <1>6, <1>8, <1>9, <1>10, <1>11 DEF AddFriendWorkspace, AddFriendRows

\* Every step of a deletion is one of its moves.
LEMMA DeleteMoved ==
  ASSUME StoresTyped, NEW c \in Handlers, ~Failed(c), DeleteFriend(c)
  PROVE  DeleteMoves(c)
<1>0. /\ db \in Stores /\ About(c) \in Peers /\ Who(c) \in Peers /\ Idle.pc = "idle"
      /\ "direct" \in Chats /\ FALSE \in BOOLEAN
  BY CallTypes, IdleFacts DEF StoresTyped, Chats
<1>l. {"idle", "x_revoke1", "x_revoke2", "x_workspace", "x_rows"} \subseteq HandlerSteps
  BY DEF HandlerSteps
<1>1. CASE Read(c, "delete_friend", IF db.rows THEN "x_revoke1" ELSE "idle")
  <2>1. /\ call[c].pc = "delete_friend" /\ db' = db
        /\ (call'[c].pc = "x_revoke1" /\ db.rows) \/ call'[c].pc = "idle"
    BY <1>0, <1>1, <1>l, ReadFacts DEF Wrote, GoesOn
  <2>2. SameFriends
    BY <2>1, SameIfUnchanged
  <2>3. QED
    BY <2>1, <2>2 DEF DeleteMoves
<1>2. ASSUME NEW new, NEW at, NEW ok \in HandlerSteps, Write(c, at, new, ok, "idle")
      PROVE  call[c].pc = at /\ db' = new /\ call'[c].pc = ok
  <2>1. call[c].pc = at /\ db' = new /\ Wrote(c, ok)
    BY <1>l, <1>2, WriteFacts
  <2>2. QED
    BY <1>0, <2>1 DEF Wrote, GoesOn
<1>3. CASE Write(c, "x_revoke1", Revoked("direct", Who(c)), "x_revoke2", "idle")
  <2>1. db'.rows = db.rows /\ Bound' = Bound \ {Who(c)}
    BY <1>0, <1>l, <1>2, <1>3, RevokedFacts DEF Bound
  <2>2. QED
    BY <1>l, <1>2, <1>3, <2>1 DEF DeleteMoves
<1>4. CASE Write(c, "x_revoke2", Revoked("direct", About(c)), "x_workspace", "idle")
  <2>1. db'.rows = db.rows /\ Bound' = Bound \ {About(c)}
    BY <1>0, <1>l, <1>2, <1>4, RevokedFacts DEF Bound
  <2>2. QED
    BY <1>l, <1>2, <1>4, <2>1 DEF DeleteMoves
<1>5. CASE Write(c, "x_workspace", Without("direct"), "x_rows", "idle")
  <2>1. db'.rows = db.rows /\ Bound' = Bound /\ "direct" \notin db'.ws
    BY <1>0, <1>l, <1>2, <1>5, WithoutFacts DEF Bound
  <2>2. QED
    BY <1>l, <1>2, <1>5, <2>1 DEF DeleteMoves
<1>6. CASE Write(c, "x_rows", [db EXCEPT !.rows = FALSE], "idle", "idle")
  <2>1. ~db'.rows /\ Bound' = Bound /\ db'.ws = db.ws
    BY <1>0, <1>l, <1>2, <1>6, RowsFacts DEF Bound
  <2>2. QED
    BY <1>l, <1>2, <1>6, <2>1 DEF DeleteMoves, SameDirect
<1>7. QED
  BY <1>1, <1>3, <1>4, <1>5, <1>6 DEF DeleteFriend

\* Another call on the friendship is another addition.
LEMMA OtherFriends ==
  ASSUME StoresTyped, Shaped, ClashKnown, clash # "mixed", NEW c \in Busy, Kind(c) \in FriendKinds,
         NEW x \in Handlers \ {c}, call[x].pc \in AddingFriend \cup DeletingFriend
  PROVE  clash # None /\ Kind(c) = "add_friend" /\ call[x].pc \in AddingFriend
<1>1. call[x] # Idle
  BY IdleFacts DEF AddingFriend, DeletingFriend
<1>2. x \in Busy /\ x # c
  BY <1>1 DEF Busy
<1>3. Kind(x) \in FriendKinds /\ (call[x].pc \in DeletingFriend => Kind(x) = "delete_friend")
  BY DEF Shaped, KindAtLabel, Kind, FriendKinds
<1>4. SameSubject(call[c].req, call[x].req)
  BY <1>3 DEF SameSubject, Kind
<1>5. clash # None /\ SameAddition(call[c].req, call[x].req)
  BY <1>2, <1>4 DEF ClashKnown, Busy
<1>6. Kind(c) = Kind(x) /\ Kind(c) \in {"add_friend", "join"}
  BY <1>5 DEF SameAddition, Kind
<1>7. QED
  BY <1>3, <1>5, <1>6 DEF FriendKinds

\* At other labels a call knows nothing of the friendship.
LEMMA KnowsNothing ==
  ASSUME NEW c, call[c].pc \notin AddingFriend \cup DeletingFriend
  PROVE  FriendKnows(c)
BY DEF FriendKnows, FriendBegun, FriendEnding, AddingFriend, DeletingFriend

\* A call that acts while the friendship stays as it is.
LEMMA FriendsAsBefore ==
  ASSUME FriendInv, SameFriends, clash' = None => clash = None,
         NEW c \in Handlers, OthersStay(c),
         call[c].pc \notin FriendBegun \cup FriendEnding \cup {"x_revoke1"}, call'[c].pc \notin FriendBegun \cup FriendEnding,
         FriendKnows(c)'
  PROVE  FriendInv'
<1>1. ASSUME NEW x \in Handlers \ {c}
      PROVE  FriendKnows(x)'
  <2>1. FriendKnows(x) /\ call'[x] = call[x]
    BY DEF FriendInv, FriendsKnow, OthersStay
  <2>2. QED
    BY <2>1 DEF FriendKnows, SameFriends, Who, About
<1>2. FriendsKnow'
  BY <1>1 DEF FriendsKnow
<1>3. FriendsWhole'
  <2>1. SUFFICES ASSUME db'.rows, \A x \in Handlers : call'[x].pc \notin FriendEnding
                 PROVE  "direct" \in db'.ws /\ Bound' = Pair
    BY DEF FriendsWhole
  <2>2. \A x \in Handlers : call[x].pc \notin FriendEnding
    BY <2>1 DEF OthersStay
  <2>3. db.rows /\ FriendsWhole
    BY <2>1 DEF FriendInv, SameFriends
  <2>4. QED
    BY <2>2, <2>3 DEF FriendsWhole, SameFriends, Bound
<1>4. StrangersClean'
  <2>1. SUFFICES ASSUME ~db'.rows,
                        \A x \in Handlers : call'[x].pc \notin FriendBegun \cup FriendEnding \cup {"x_revoke1"}
                 PROVE  "direct" \notin db'.ws
    BY DEF StrangersClean
  <2>2. \A x \in Handlers : call[x].pc \notin FriendBegun \cup FriendEnding \cup {"x_revoke1"}
    BY <2>1 DEF OthersStay
  <2>3. ~db.rows /\ StrangersClean
    BY <2>1 DEF FriendInv, SameFriends
  <2>4. QED
    BY <2>2, <2>3 DEF StrangersClean, SameFriends
<1>5. QED
  BY <1>2, <1>3, <1>4 DEF FriendInv

\* AddFriend, its rollback and DeleteFriend keep the invariant of the friendship.
LEMMA AddKeepsFriends ==
  ASSUME StoresTyped, Shaped, ClashKnown, clash # "mixed", BindingsOfFriends', FriendInv,
         NEW c \in Busy, Kind(c) = "add_friend", HandlerStep(c), AddMoves(c)
  PROVE  FriendInv'
<1>0. /\ clash' = clash /\ c \in Handlers /\ OthersStay(c) /\ "add_friend" \in FriendKinds
      /\ Idle.pc = "idle" /\ {Who(c), About(c)} = Pair /\ FriendKnows(c)
      /\ call'[c].pc # "idle" => Who(c)' = Who(c) /\ About(c)' = About(c)
  BY IdleFacts DEF HandlerStep, Quiet, OthersStay, Busy, FriendKinds, Shaped, RequestFits, Kind, Who, About, FriendInv, FriendsKnow
<1>others. \A x \in Handlers \ {c} : /\ call'[x] = call[x]
                                     /\ call[x].pc \in AddingFriend \cup DeletingFriend =>
                                          clash # None /\ call[x].pc \in AddingFriend
  BY <1>0, OtherFriends DEF OthersStay
<1>1. CASE /\ call[c].pc = "add_friend" /\ SameFriends
           /\ call'[c].pc = "idle" \/ (call'[c].pc = "f_workspace" /\ ~db.rows)
  <2>1. FriendKnows(c)'
    BY <1>1 DEF FriendKnows, FriendBegun, FriendEnding, SameFriends
  <2>2. QED
    BY <1>0, <1>1, <2>1, FriendsAsBefore DEF FriendBegun, FriendEnding
<1>2. CASE ~(call[c].pc = "add_friend")
  <2>1. /\ call[c].pc \in {"f_workspace", "f_grant1", "f_grant2", "f_rows"}
        /\ Bound \subseteq Bound' /\ ("direct" \in db.ws => "direct" \in db'.ws)
        /\ db'.rows = db.rows \/ (db'.rows /\ call[c].pc = "f_rows" /\ call'[c].pc = "idle")
        /\ call'[c].pc \in {"f_grant1", "f_grant2", "f_rows"} \/ (db'.rows /\ call'[c].pc = "idle")
    BY <1>2 DEF AddMoves, SameDirect
  <2>2. ASSUME NEW x \in Handlers \ {c}
        PROVE  FriendKnows(x)'
    <3>1. CASE call[x].pc \in AddingFriend
      <4>1. FriendKnows(x) /\ clash' # None /\ call'[x] = call[x]
        BY <1>0, <1>others, <3>1 DEF FriendInv, FriendsKnow
      <4>2. call[x].pc \notin FriendEnding \cup {"x_revoke1"}
        BY <3>1 DEF AddingFriend, FriendEnding
      <4>3. QED
        BY <2>1, <4>1, <4>2 DEF FriendKnows, Who, About, Bound, FriendEnding
    <3>2. CASE call[x].pc \notin AddingFriend
      BY <1>others, <3>2 DEF FriendKnows, FriendBegun, FriendEnding, AddingFriend, DeletingFriend
    <3>3. QED
      BY <3>1, <3>2
  <2>3. FriendKnows(c)'
    <3>1. CASE call[c].pc = "f_workspace"
      <4>1. /\ call'[c].pc = "f_grant1" /\ db'.rows = db.rows /\ "direct" \in db'.ws
            /\ call'[c].made = ("direct" \notin db.ws)
        BY <3>1 DEF AddMoves
      <4>2. ASSUME clash = None
            PROVE  ~db.rows /\ "direct" \notin db.ws
        <5>1. ~db.rows
          BY <1>0, <3>1, <4>2 DEF FriendKnows
        <5>2. \A x \in Handlers : call[x].pc \notin FriendBegun \cup FriendEnding \cup {"x_revoke1"}
          BY <1>others, <3>1, <4>2 DEF AddingFriend, DeletingFriend, FriendBegun, FriendEnding
        <5>3. QED
          BY <5>1, <5>2 DEF FriendInv, StrangersClean
      <4>3. QED
        BY <1>0, <4>1, <4>2 DEF FriendKnows, FriendBegun, FriendEnding
    <3>2. CASE call[c].pc = "f_grant1"
      BY <1>0, <3>2 DEF AddMoves, FriendKnows, FriendBegun, FriendEnding, SameDirect, Bound
    <3>3. CASE call[c].pc = "f_grant2"
      BY <1>0, <3>3 DEF AddMoves, FriendKnows, FriendBegun, FriendEnding, SameDirect, Bound
    <3>4. CASE call[c].pc = "f_rows"
      BY <1>0, <3>4 DEF AddMoves, FriendKnows, FriendBegun, FriendEnding
    <3>5. QED
      BY <2>1, <3>1, <3>2, <3>3, <3>4
  <2>4. FriendsWhole'
    <3>1. SUFFICES ASSUME db'.rows, \A x \in Handlers : call'[x].pc \notin FriendEnding
                   PROVE  "direct" \in db'.ws /\ Bound' = Pair
      BY DEF FriendsWhole
    <3>2. Bound' \subseteq Pair
      BY DEF BindingsOfFriends, Bound
    <3>3. CASE db.rows
      <4>1. \A x \in Handlers : call[x].pc \notin FriendEnding
        BY <1>others, <2>1, <3>1 DEF FriendEnding
      <4>2. "direct" \in db.ws /\ Bound = Pair
        BY <3>3, <4>1 DEF FriendInv, FriendsWhole
      <4>3. QED
        BY <2>1, <3>2, <4>2
    <3>4. CASE ~db.rows
      <4>1. call[c].pc = "f_rows"
        BY <2>1, <3>1, <3>4
      <4>2. "direct" \in db.ws /\ Who(c) \in Bound /\ About(c) \in Bound
        BY <1>0, <4>1 DEF FriendKnows, Bound
      <4>3. QED
        BY <1>0, <2>1, <3>2, <4>2
    <3>5. QED
      BY <3>3, <3>4
  <2>5. StrangersClean'
    BY <1>0, <2>1 DEF StrangersClean, FriendBegun
  <2>6. QED
    BY <2>2, <2>3, <2>4, <2>5 DEF FriendInv, FriendsKnow
<1>3. QED
  BY <1>1, <1>2 DEF AddMoves

LEMMA UndoKeepsFriends ==
  ASSUME StoresTyped, Shaped, ClashKnown, clash = None, FriendInv,
         NEW c \in Busy, Kind(c) = "add_friend", HandlerStep(c), UndoMoves(c)
  PROVE  FriendInv'
<1>0. /\ clash' = clash /\ c \in Handlers /\ OthersStay(c) /\ "add_friend" \in FriendKinds /\ clash # "mixed"
      /\ Idle.pc = "idle" /\ FriendKnows(c)
  BY IdleFacts DEF HandlerStep, Quiet, OthersStay, Busy, FriendKinds, FriendInv, FriendsKnow, None
<1>others. \A x \in Handlers \ {c} : call'[x] = call[x] /\ call[x].pc \notin AddingFriend \cup DeletingFriend
  BY <1>0, OtherFriends DEF OthersStay
<1>1. CASE call[c].pc = "f_workspace"
  <2>1. call'[c].pc = "idle" /\ SameFriends
    BY <1>1 DEF UndoMoves
  <2>2. FriendKnows(c)'
    BY <2>1 DEF FriendKnows, FriendBegun, FriendEnding
  <2>3. QED
    BY <1>0, <1>1, <2>1, <2>2, FriendsAsBefore DEF FriendBegun, FriendEnding
<1>2. CASE call[c].pc # "f_workspace"
  <2>1. call[c].pc \in FriendBegun /\ ~db.rows /\ call[c].made
    BY <1>0, <1>2 DEF UndoMoves, FriendKnows, FriendBegun
  <2>2. ~db'.rows
    BY <1>2, <2>1 DEF UndoMoves, SameFriends
  <2>3. ASSUME NEW x \in Handlers \ {c}
        PROVE  FriendKnows(x)'
    BY <1>others DEF FriendKnows, FriendBegun, FriendEnding, AddingFriend, DeletingFriend
  <2>4. FriendKnows(c)'
    BY <1>2, <2>1, <2>2 DEF UndoMoves, FriendKnows, FriendBegun, FriendEnding
  <2>5. StrangersClean'
    <3>1. call'[c].pc \in FriendBegun \/ "direct" \notin db'.ws
      BY <1>2, <2>1 DEF UndoMoves, FriendBegun
    <3>2. QED
      BY <1>0, <3>1 DEF StrangersClean
  <2>6. QED
    BY <2>2, <2>3, <2>4, <2>5 DEF FriendInv, FriendsKnow, FriendsWhole
<1>3. QED
  BY <1>1, <1>2

LEMMA DeleteKeepsFriends ==
  ASSUME StoresTyped, Shaped, ClashKnown, clash # "mixed", FriendInv,
         NEW c \in Busy, Kind(c) = "delete_friend", HandlerStep(c), DeleteMoves(c)
  PROVE  FriendInv'
<1>0. /\ clash' = clash /\ c \in Handlers /\ OthersStay(c) /\ "delete_friend" \in FriendKinds
      /\ Idle.pc = "idle" /\ FriendKnows(c)
  BY IdleFacts DEF HandlerStep, Quiet, OthersStay, Busy, FriendKinds, FriendInv, FriendsKnow
<1>others. \A x \in Handlers \ {c} : call'[x] = call[x] /\ call[x].pc \notin AddingFriend \cup DeletingFriend
  BY <1>0, OtherFriends DEF OthersStay
<1>1. CASE call[c].pc = "delete_friend"
  <2>1. SameFriends /\ ((call'[c].pc = "x_revoke1" /\ db.rows) \/ call'[c].pc = "idle")
    BY <1>1 DEF DeleteMoves
  <2>2. FriendKnows(c)'
    BY <2>1 DEF FriendKnows, FriendBegun, FriendEnding, SameFriends
  <2>3. QED
    BY <1>0, <1>1, <2>1, <2>2, FriendsAsBefore DEF FriendBegun, FriendEnding
<1>2. CASE call[c].pc # "delete_friend"
  <2>1. db.rows /\ call[c].pc \in FriendEnding \cup {"x_revoke1"}
    BY <1>0, <1>2 DEF DeleteMoves, FriendKnows, FriendEnding
  <2>2. ASSUME NEW x \in Handlers \ {c}
        PROVE  FriendKnows(x)'
    BY <1>others DEF FriendKnows, FriendBegun, FriendEnding, AddingFriend, DeletingFriend
  <2>3. CASE call[c].pc # "x_rows"
    <3>1. db'.rows /\ call'[c].pc \in FriendEnding /\ (call'[c].pc = "x_rows" => "direct" \notin db'.ws)
      BY <1>2, <2>1, <2>3 DEF DeleteMoves, FriendEnding
    <3>2. FriendKnows(c)'
      BY <3>1 DEF FriendKnows, FriendBegun, FriendEnding
    <3>3. QED
      BY <1>0, <2>2, <3>1, <3>2 DEF FriendInv, FriendsKnow, FriendsWhole, StrangersClean
  <2>4. CASE call[c].pc = "x_rows"
    <3>1. ~db'.rows /\ call'[c].pc = "idle" /\ "direct" \notin db'.ws
      BY <1>0, <2>4 DEF DeleteMoves, FriendKnows, SameDirect
    <3>2. FriendKnows(c)'
      BY <3>1 DEF FriendKnows, FriendBegun, FriendEnding
    <3>3. QED
      BY <2>2, <3>1, <3>2 DEF FriendInv, FriendsKnow, FriendsWhole, StrangersClean
  <2>5. QED
    BY <2>3, <2>4
<1>3. QED
  BY <1>1, <1>2

\* So does every step of a call, and every arrival.
LEMMA EveryFriend ==
  ASSUME StoresTyped, Shaped, FaultsSeen, ClashKnown, BindingsOfFriends, FriendInv, Orderly',
         NEW c \in Handlers, CallAction(c)
  PROVE  FriendInv'
<1>0. HandlerStep(c) /\ c \in Busy /\ BindingsOfFriends' /\ Shaped' /\ OthersStay(c)
  BY EveryCallStep, FriendsOrNot, EveryFriendBinding, EveryShape DEF HandlerStep, OthersStay
<1>1. /\ Orderly /\ clash' = clash /\ clash # "mixed"
      /\ Failed(c) => /\ clash = None /\ Kind(c) # "delete_friend" /\ call[c].pc \notin Rollbacks
  <2>1. Orderly /\ clash' = clash
    BY <1>0, OrderlyBefore
  <2>2. NoFault => ~Failed(c)
    BY SocialAssumption DEF NoFault, Failed, StoresTyped
  <2>3. QED
    BY <1>0, <2>1, <2>2, OrderlyBefore DEF Orderly, None
<1>2. CASE Kind(c) = "add_friend"
  <2>1. AddFriendCheck(c) \/ AddFriendWorkspace(c) \/ AddFriendRows(c)
    BY <1>2, FriendsOrNot, ActionKinds DEF FriendKinds
  <2>2. AddMoves(c) \/ UndoMoves(c)
    BY <1>1, <2>1, AddMoved
  <2>3. CASE AddMoves(c)
    BY <1>0, <1>1, <1>2, <2>3, AddKeepsFriends
  <2>4. CASE UndoMoves(c)
    <3>1. Failed(c) \/ call[c].pc \in AfterFault
      BY <2>4 DEF UndoMoves, AfterFault
    <3>2. call[c].pc \in AfterFault => faults > 0
      BY DEF FaultsSeen
    <3>3. faults > 0 => clash = None
      BY <1>1 DEF Orderly
    <3>4. QED
      BY <1>0, <1>1, <1>2, <2>4, <3>1, <3>2, <3>3, UndoKeepsFriends
  <2>5. QED
    BY <2>2, <2>3, <2>4
<1>3. CASE Kind(c) = "delete_friend"
  <2>1. DeleteFriend(c)
    BY <1>3, FriendsOrNot, ActionKinds DEF FriendKinds
  <2>2. DeleteMoves(c)
    BY <1>1, <1>3, <2>1, DeleteMoved
  <2>3. QED
    BY <1>0, <1>1, <1>3, <2>2, DeleteKeepsFriends
<1>4. CASE Kind(c) \notin FriendKinds
  <2>1. SameFriends
    BY <1>4, FriendsOrNot
  <2>2. call[c].pc \notin AddingFriend \cup DeletingFriend
    BY <1>4 DEF Shaped, KindAtLabel, Kind, FriendKinds
  <2>3. call'[c].pc \notin AddingFriend \cup DeletingFriend
    <3>1. CASE call'[c] = Idle
      BY <3>1, IdleFacts DEF AddingFriend, DeletingFriend
    <3>2. CASE call'[c].req = call[c].req
      BY <1>0, <1>4, <3>2 DEF Shaped, KindAtLabel, Kind, FriendKinds
    <3>3. QED
      BY <1>0, <3>1, <3>2 DEF HandlerStep
  <2>4. FriendKnows(c)'
    BY <2>3 DEF FriendKnows, FriendBegun, FriendEnding, AddingFriend, DeletingFriend
  <2>5. call[c].pc \notin FriendBegun \cup FriendEnding \cup {"x_revoke1"} /\ call'[c].pc \notin FriendBegun \cup FriendEnding
    BY <2>2, <2>3 DEF FriendBegun, FriendEnding, AddingFriend, DeletingFriend
  <2>6. QED
    BY <1>0, <1>1, <2>1, <2>4, <2>5, FriendsAsBefore
<1>5. QED
  BY <1>2, <1>3, <1>4 DEF FriendKinds

LEMMA ReceiveFriend ==
  ASSUME StoresTyped, FriendInv, Orderly', NEW c \in Handlers, NEW r \in Asked, Receive(c, r)
  PROVE  FriendInv'
<1>1. /\ call[c].pc = "idle" /\ OthersStay(c) /\ call'[c].pc = r.kind /\ r.kind \in RequestKinds
      /\ SameFriends /\ (clash' = None => clash = None)
  BY ReceiveFacts, ReceiveOrderly, IdleFacts, SameIfUnchanged DEF Asked, Request
<1>2. FriendKnows(c)'
  BY <1>1 DEF RequestKinds, FriendKnows, FriendBegun, FriendEnding
<1>3. QED
  BY <1>1, <1>2, FriendsAsBefore DEF RequestKinds, FriendBegun, FriendEnding

LEMMA TokenGoneFriend ==
  ASSUME StoresTyped, FriendInv, TokenGone
  PROVE  FriendInv'
BY TokenGoneFacts DEF FriendInv, FriendsKnow, FriendsWhole, StrangersClean, FriendKnows, Bound, Who, About

-----------------------------------------------------------------------------
(* The bindings that a call on the friendship leaves behind.               *)

LEMMA PairFacts == Pair # {} /\ IsFiniteSet(Pair) /\ Pair \subseteq Peers
<1>1. IsFiniteSet(Pair) /\ Cardinality(Pair) = 2 /\ Pair \subseteq Peers
  BY SocialAssumption
<1>2. Pair # {}
  BY <1>1, FS_EmptySet
<1>3. QED
  BY <1>1, <1>2

\* Counted, the bindings are no more than the writes that failed.
LEMMA FewAreCounted ==
  ASSUME StoresTyped, BindingsOfFriends, FewBindings
  PROVE  Cardinality(db.bind["direct"]) <= faults
<1>1. IsFiniteSet(Pair) /\ Cardinality(Pair) = 2 /\ faults \in Nat /\ Bound \subseteq Pair
  BY PairFacts, SocialAssumption DEF StoresTyped, BindingsOfFriends, Bound
<1>2. IsFiniteSet(Bound) /\ Cardinality(Bound) \in Nat /\ Cardinality(Bound) <= 2
  BY <1>1, FS_Subset, FS_CardinalityType
<1>3. CASE faults = 0
  BY <1>3, FS_EmptySet DEF FewBindings, Bound
<1>4. CASE faults = 1
  <2>1. Bound # Pair
    BY <1>4 DEF FewBindings
  <2>2. Cardinality(Bound) # Cardinality(Pair)
    BY <1>1, <2>1, FS_Subset
  <2>3. QED
    BY <1>1, <1>2, <1>4, <2>2 DEF Bound
<1>5. CASE faults >= 2
  BY <1>1, <1>2, <1>5 DEF Bound
<1>6. QED
  BY <1>1, <1>3, <1>4, <1>5

\* Few bindings stay few, and become so when a write fails after at most one.
LEMMA FewStayFew ==
  ASSUME faults \in Nat, faults' \in Nat, faults' >= faults, FewBindings, Bound' = Bound
  PROVE  FewBindings'
<1>1. (faults' = 0 => faults = 0) /\ (faults' < 2 => faults < 2)
  OBVIOUS
<1>2. QED
  BY <1>1 DEF FewBindings

LEMMA NoneIsFew ==
  ASSUME Bound = {}
  PROVE  FewBindings
BY PairFacts DEF FewBindings

\* A step leaves the failures where they are or counts one.
LEMMA FaultsCount ==
  ASSUME StoresTyped, NEW c \in Handlers, HandlerStep(c)
  PROVE  /\ faults \in Nat /\ faults' \in Nat /\ faults' >= faults
         /\ Failed(c) => faults' = faults + 1
BY SocialAssumption DEF HandlerStep, StoresTyped, Failed

\* At other labels a call knows nothing of the bindings.
LEMMA KnowsNoBinding ==
  ASSUME NEW c, call[c].pc \notin AddingFriend \cup DeletingFriend
  PROVE  BindingsKnown(c)
BY DEF BindingsKnown, AddingFriend, DeletingFriend

\* A call that acts while the friendship stays as it is.
LEMMA BindingsAsBefore ==
  ASSUME BindInv, SameFriends, clash' = None => clash = None,
         faults \in Nat, faults' \in Nat, faults' >= faults,
         NEW c \in Handlers, OthersStay(c),
         call[c].pc \notin FriendBegun \cup FriendEnding \cup {"x_revoke1"},
         call'[c].pc \notin FriendBegun \cup FriendEnding
  PROVE  BindInv'
<1>0. Bound' = Bound /\ (FewBindings => FewBindings') /\ (faults' = 0 => faults = 0)
  BY FewStayFew DEF SameFriends, Bound
<1>1. ASSUME NEW x \in Handlers \ {c}
      PROVE  BindingsKnown(x)'
  <2>1. BindingsKnown(x) /\ call'[x] = call[x]
    BY DEF BindInv, OthersStay
  <2>2. QED
    BY <1>0, <2>1 DEF BindingsKnown, Who
<1>2. BindingsKnown(c)'
  BY DEF BindingsKnown, FriendBegun, FriendEnding
<1>3. StrangersUnbound'
  <2>1. SUFFICES ASSUME ~db'.rows,
                        \A x \in Handlers : call'[x].pc \notin FriendBegun \cup FriendEnding \cup {"x_revoke1"}
                 PROVE  FewBindings'
    BY DEF StrangersUnbound
  <2>2. \A x \in Handlers : call[x].pc \notin FriendBegun \cup FriendEnding \cup {"x_revoke1"}
    BY <2>1 DEF OthersStay
  <2>3. ~db.rows /\ StrangersUnbound
    BY <2>1 DEF BindInv, SameFriends
  <2>4. QED
    BY <1>0, <2>2, <2>3 DEF StrangersUnbound
<1>4. QED
  BY <1>1, <1>2, <1>3 DEF BindInv

\* The steps of an addition, of its rollback and of a deletion.
LEMMA AddKeepsBindings ==
  ASSUME StoresTyped, Shaped, ClashKnown, clash # "mixed", FriendInv, BindInv,
         NEW c \in Busy, Kind(c) = "add_friend", HandlerStep(c), AddMoves(c)
  PROVE  BindInv'
<1>0. /\ clash' = clash /\ c \in Handlers /\ OthersStay(c) /\ "add_friend" \in FriendKinds
      /\ FriendKnows(c) /\ BindingsKnown(c)
      /\ call'[c].pc # "idle" => Who(c)' = Who(c)
  BY IdleFacts DEF HandlerStep, Quiet, OthersStay, Busy, FriendKinds, Who, FriendInv, FriendsKnow, BindInv
<1>f. faults \in Nat /\ faults' \in Nat /\ faults' >= faults
  BY <1>0, FaultsCount
<1>others. \A x \in Handlers \ {c} : /\ call'[x] = call[x]
                                     /\ call[x].pc \in AddingFriend \cup DeletingFriend =>
                                          clash # None /\ call[x].pc \in AddingFriend
  BY <1>0, OtherFriends DEF OthersStay
<1>1. CASE call[c].pc = "add_friend"
  <2>1. SameFriends /\ call'[c].pc \in {"idle", "f_workspace"}
    BY <1>1 DEF AddMoves
  <2>2. QED
    BY <1>0, <1>f, <1>1, <2>1, BindingsAsBefore DEF FriendBegun, FriendEnding
<1>2. CASE call[c].pc # "add_friend"
  <2>1. ASSUME NEW x \in Handlers \ {c}
        PROVE  BindingsKnown(x)'
    <3>1. CASE call[x].pc \in AddingFriend
      <4>1. clash' # None /\ call'[x] = call[x]
        BY <1>0, <1>others, <3>1
      <4>2. call[x].pc \notin {"x_revoke2", "x_workspace", "x_rows"}
        BY <3>1 DEF AddingFriend
      <4>3. QED
        BY <4>1, <4>2 DEF BindingsKnown
    <3>2. CASE call[x].pc \notin AddingFriend
      BY <1>others, <3>2 DEF BindingsKnown, AddingFriend, DeletingFriend
    <3>3. QED
      BY <3>1, <3>2
  <2>2. BindingsKnown(c)'
    <3>1. CASE call[c].pc = "f_workspace"
      <4>1. call'[c].pc = "f_grant1" /\ Bound' = Bound
        BY <3>1 DEF AddMoves
      <4>2. ASSUME clash = None
            PROVE  FewBindings'
        <5>1. ~db.rows
          BY <1>0, <3>1, <4>2 DEF FriendKnows
        <5>2. \A x \in Handlers : call[x].pc \notin FriendBegun \cup FriendEnding \cup {"x_revoke1"}
          BY <1>others, <3>1, <4>2 DEF AddingFriend, DeletingFriend, FriendBegun, FriendEnding
        <5>3. FewBindings
          BY <5>1, <5>2 DEF BindInv, StrangersUnbound
        <5>4. QED
          BY <1>f, <4>1, <5>3, FewStayFew
      <4>3. QED
        BY <1>0, <4>1, <4>2 DEF BindingsKnown
    <3>2. CASE call[c].pc = "f_grant1"
      <4>1. call'[c].pc = "f_grant2" /\ Bound' = Bound \cup {Who(c)} /\ Who(c)' = Who(c)
        BY <1>0, <3>2 DEF AddMoves
      <4>2. clash = None /\ faults' = 0 => Bound = {}
        BY <1>0, <1>f, <3>2 DEF BindingsKnown, FewBindings
      <4>3. QED
        BY <1>0, <4>1, <4>2 DEF BindingsKnown
    <3>3. CASE call[c].pc \in {"f_grant2", "f_rows"}
      <4>1. call'[c].pc \in {"f_rows", "idle"}
        BY <3>3 DEF AddMoves
      <4>2. QED
        BY <4>1 DEF BindingsKnown
    <3>4. QED
      BY <1>2, <3>1, <3>2, <3>3 DEF AddMoves
  <2>3. StrangersUnbound'
    <3>1. call'[c].pc \in FriendBegun \/ db'.rows
      BY <1>2 DEF AddMoves, FriendBegun
    <3>2. QED
      BY <1>0, <3>1 DEF StrangersUnbound
  <2>4. QED
    BY <2>1, <2>2, <2>3 DEF BindInv
<1>3. QED
  BY <1>1, <1>2

LEMMA UndoKeepsBindings ==
  ASSUME StoresTyped, Shaped, ClashKnown, clash = None, BindingsOfFriends, FriendInv, BindInv,
         NEW c \in Busy, Kind(c) = "add_friend", HandlerStep(c), UndoMoves(c)
  PROVE  BindInv'
<1>0. /\ clash' = clash /\ c \in Handlers /\ OthersStay(c) /\ "add_friend" \in FriendKinds /\ clash # "mixed"
      /\ FriendKnows(c) /\ BindingsKnown(c) /\ {Who(c), About(c)} = Pair /\ Bound \subseteq Pair
      /\ call'[c].pc # "idle" => Who(c)' = Who(c)
  BY IdleFacts DEF HandlerStep, Quiet, OthersStay, Busy, FriendKinds, Who, About, Kind, Shaped, RequestFits, FriendInv,
     FriendsKnow, BindInv, BindingsOfFriends, Bound, None
<1>f. faults \in Nat /\ faults' \in Nat /\ faults' >= faults /\ (Failed(c) => faults' = faults + 1)
  BY <1>0, FaultsCount
<1>others. \A x \in Handlers \ {c} : call'[x] = call[x] /\ call[x].pc \notin AddingFriend \cup DeletingFriend
  BY <1>0, OtherFriends DEF OthersStay
<1>1. CASE call[c].pc = "f_workspace"
  <2>1. call'[c].pc = "idle" /\ SameFriends
    BY <1>1 DEF UndoMoves
  <2>2. QED
    BY <1>0, <1>f, <1>1, <2>1, BindingsAsBefore DEF FriendBegun, FriendEnding
<1>2. CASE call[c].pc # "f_workspace"
  <2>1. ASSUME NEW x \in Handlers \ {c}
        PROVE  BindingsKnown(x)'
    BY <1>others DEF BindingsKnown, AddingFriend, DeletingFriend
  <2>2. CASE call[c].pc = "f_grant1"
    <3>1. call'[c].pc = "f_undo" /\ Bound' = Bound /\ FewBindings
      BY <1>0, <2>2 DEF UndoMoves, SameFriends, Bound, BindingsKnown
    <3>2. FewBindings'
      BY <1>f, <3>1, FewStayFew
    <3>3. QED
      BY <1>0, <2>1, <3>1, <3>2 DEF BindInv, BindingsKnown, StrangersUnbound, FriendBegun
  <2>3. CASE call[c].pc = "f_grant2"
    <3>1. call'[c].pc = "f_undo" /\ Bound' = Bound /\ faults' = faults + 1
      BY <1>f, <2>3 DEF UndoMoves, SameFriends, Bound
    <3>2. faults = 0 => Bound # Pair
      <4>1. Cardinality({Who(c)}) = 1 /\ Cardinality(Pair) = 2
        BY FS_Singleton, SocialAssumption
      <4>2. Pair # {Who(c)} /\ Who(c) \in Pair
        BY <1>0, <4>1
      <4>3. QED
        BY <1>0, <2>3, <4>2 DEF BindingsKnown
    <3>3. FewBindings'
      BY <1>f, <3>1, <3>2 DEF FewBindings
    <3>4. QED
      BY <1>0, <2>1, <3>1, <3>3 DEF BindInv, BindingsKnown, StrangersUnbound, FriendBegun
  <2>4. CASE call[c].pc = "f_rows"
    <3>1. call'[c].pc = "f_revoke1"
      BY <2>4 DEF UndoMoves
    <3>2. QED
      BY <1>0, <2>1, <3>1 DEF BindInv, BindingsKnown, StrangersUnbound, FriendBegun
  <2>5. CASE call[c].pc = "f_revoke1"
    <3>1. call'[c].pc = "f_revoke2" /\ Who(c)' \notin Bound'
      BY <1>0, <2>5 DEF UndoMoves
    <3>2. QED
      BY <1>0, <2>1, <3>1 DEF BindInv, BindingsKnown, StrangersUnbound, FriendBegun
  <2>6. CASE call[c].pc = "f_revoke2"
    <3>1. call'[c].pc = "f_undo" /\ Bound' = {}
      BY <1>0, <2>6 DEF UndoMoves, BindingsKnown
    <3>2. FewBindings'
      BY <3>1, PairFacts DEF FewBindings
    <3>3. QED
      BY <1>0, <2>1, <3>1, <3>2 DEF BindInv, BindingsKnown, StrangersUnbound, FriendBegun
  <2>7. CASE call[c].pc = "f_undo"
    <3>1. call'[c].pc = "idle" /\ Bound' = Bound /\ FewBindings
      BY <1>0, <2>7 DEF UndoMoves, BindingsKnown
    <3>2. FewBindings'
      BY <1>f, <3>1, FewStayFew
    <3>3. QED
      BY <1>0, <2>1, <3>1, <3>2 DEF BindInv, BindingsKnown, StrangersUnbound
  <2>8. QED
    BY <1>2, <2>2, <2>3, <2>4, <2>5, <2>6, <2>7 DEF UndoMoves
<1>3. QED
  BY <1>1, <1>2

LEMMA DeleteKeepsBindings ==
  ASSUME StoresTyped, Shaped, ClashKnown, clash # "mixed", BindingsOfFriends, FriendInv, BindInv,
         NEW c \in Busy, Kind(c) = "delete_friend", HandlerStep(c), DeleteMoves(c)
  PROVE  BindInv'
<1>0. /\ clash' = clash /\ c \in Handlers /\ OthersStay(c) /\ "delete_friend" \in FriendKinds
      /\ FriendKnows(c) /\ BindingsKnown(c) /\ {Who(c), About(c)} = Pair /\ Bound \subseteq Pair
      /\ call'[c].pc # "idle" => Who(c)' = Who(c)
  BY IdleFacts DEF HandlerStep, Quiet, OthersStay, Busy, FriendKinds, Who, About, Kind, Shaped, RequestFits, FriendInv,
     FriendsKnow, BindInv, BindingsOfFriends, Bound
<1>f. faults \in Nat /\ faults' \in Nat /\ faults' >= faults
  BY <1>0, FaultsCount
<1>others. \A x \in Handlers \ {c} : call'[x] = call[x] /\ call[x].pc \notin AddingFriend \cup DeletingFriend
  BY <1>0, OtherFriends DEF OthersStay
<1>1. CASE call[c].pc = "delete_friend"
  <2>1. SameFriends /\ call'[c].pc \in {"idle", "x_revoke1"}
    BY <1>1 DEF DeleteMoves
  <2>2. QED
    BY <1>0, <1>f, <1>1, <2>1, BindingsAsBefore DEF FriendBegun, FriendEnding
<1>2. CASE call[c].pc # "delete_friend"
  <2>1. ASSUME NEW x \in Handlers \ {c}
        PROVE  BindingsKnown(x)'
    BY <1>others DEF BindingsKnown, AddingFriend, DeletingFriend
  <2>2. BindingsKnown(c)'
    <3>1. CASE call[c].pc = "x_revoke1"
      <4>1. call'[c].pc = "x_revoke2" /\ Who(c)' \notin Bound'
        BY <1>0, <3>1 DEF DeleteMoves
      <4>2. QED
        BY <4>1 DEF BindingsKnown
    <3>2. CASE call[c].pc = "x_revoke2"
      <4>1. call'[c].pc = "x_workspace" /\ Bound' = {}
        BY <1>0, <3>2 DEF DeleteMoves, BindingsKnown
      <4>2. QED
        BY <4>1 DEF BindingsKnown
    <3>3. CASE call[c].pc = "x_workspace"
      <4>1. call'[c].pc = "x_rows" /\ Bound' = {}
        BY <1>0, <3>3 DEF DeleteMoves, BindingsKnown
      <4>2. QED
        BY <4>1 DEF BindingsKnown
    <3>4. CASE call[c].pc = "x_rows"
      <4>1. call'[c].pc = "idle"
        BY <3>4 DEF DeleteMoves
      <4>2. QED
        BY <4>1 DEF BindingsKnown
    <3>5. QED
      BY <1>2, <3>1, <3>2, <3>3, <3>4 DEF DeleteMoves
  <2>3. StrangersUnbound'
    <3>1. CASE call[c].pc = "x_rows"
      <4>1. Bound' = {}
        BY <1>0, <3>1 DEF DeleteMoves, BindingsKnown
      <4>2. FewBindings'
        BY <4>1, PairFacts DEF FewBindings
      <4>3. QED
        BY <4>2 DEF StrangersUnbound
    <3>2. CASE call[c].pc # "x_rows"
      <4>1. call'[c].pc \in FriendEnding
        BY <1>2, <3>2 DEF DeleteMoves, FriendEnding
      <4>2. QED
        BY <1>0, <4>1 DEF StrangersUnbound
    <3>3. QED
      BY <3>1, <3>2
  <2>4. QED
    BY <2>1, <2>2, <2>3 DEF BindInv
<1>3. QED
  BY <1>1, <1>2

\* So does every step of a call, and every arrival.
LEMMA EveryBinding ==
  ASSUME StoresTyped, Shaped, FaultsSeen, ClashKnown, BindingsOfFriends, FriendInv, BindInv, Orderly',
         NEW c \in Handlers, CallAction(c)
  PROVE  BindInv'
<1>0. HandlerStep(c) /\ c \in Busy /\ Shaped' /\ OthersStay(c)
  BY EveryCallStep, FriendsOrNot, EveryShape DEF HandlerStep, OthersStay
<1>f. faults \in Nat /\ faults' \in Nat /\ faults' >= faults
  BY <1>0, FaultsCount
<1>1. /\ Orderly /\ clash' = clash /\ clash # "mixed"
      /\ Failed(c) => /\ clash = None /\ Kind(c) # "delete_friend" /\ call[c].pc \notin Rollbacks
  <2>1. Orderly /\ clash' = clash
    BY <1>0, OrderlyBefore
  <2>2. NoFault => ~Failed(c)
    BY SocialAssumption DEF NoFault, Failed, StoresTyped
  <2>3. QED
    BY <1>0, <2>1, <2>2, OrderlyBefore DEF Orderly, None
<1>2. CASE Kind(c) = "add_friend"
  <2>1. AddFriendCheck(c) \/ AddFriendWorkspace(c) \/ AddFriendRows(c)
    BY <1>2, FriendsOrNot, ActionKinds DEF FriendKinds
  <2>2. AddMoves(c) \/ UndoMoves(c)
    BY <1>1, <2>1, AddMoved
  <2>3. CASE AddMoves(c)
    BY <1>0, <1>1, <1>2, <2>3, AddKeepsBindings
  <2>4. CASE UndoMoves(c)
    <3>1. Failed(c) \/ call[c].pc \in AfterFault
      BY <2>4 DEF UndoMoves, AfterFault
    <3>2. call[c].pc \in AfterFault => faults > 0
      BY DEF FaultsSeen
    <3>3. faults > 0 => clash = None
      BY <1>1 DEF Orderly
    <3>4. QED
      BY <1>0, <1>1, <1>2, <2>4, <3>1, <3>2, <3>3, UndoKeepsBindings
  <2>5. QED
    BY <2>2, <2>3, <2>4
<1>3. CASE Kind(c) = "delete_friend"
  <2>1. DeleteFriend(c)
    BY <1>3, FriendsOrNot, ActionKinds DEF FriendKinds
  <2>2. DeleteMoves(c)
    BY <1>1, <1>3, <2>1, DeleteMoved
  <2>3. QED
    BY <1>0, <1>1, <1>3, <2>2, DeleteKeepsBindings
<1>4. CASE Kind(c) \notin FriendKinds
  <2>1. SameFriends
    BY <1>4, FriendsOrNot
  <2>2. call[c].pc \notin AddingFriend \cup DeletingFriend
    BY <1>4 DEF Shaped, KindAtLabel, Kind, FriendKinds
  <2>3. call'[c].pc \notin AddingFriend \cup DeletingFriend
    <3>1. CASE call'[c] = Idle
      BY <3>1, IdleFacts DEF AddingFriend, DeletingFriend
    <3>2. CASE call'[c].req = call[c].req
      BY <1>0, <1>4, <3>2 DEF Shaped, KindAtLabel, Kind, FriendKinds
    <3>3. QED
      BY <1>0, <3>1, <3>2 DEF HandlerStep
  <2>4. call[c].pc \notin FriendBegun \cup FriendEnding \cup {"x_revoke1"} /\ call'[c].pc \notin FriendBegun \cup FriendEnding
    BY <2>2, <2>3 DEF FriendBegun, FriendEnding, AddingFriend, DeletingFriend
  <2>5. QED
    BY <1>0, <1>f, <1>1, <2>1, <2>4, BindingsAsBefore
<1>5. QED
  BY <1>2, <1>3, <1>4 DEF FriendKinds

LEMMA ReceiveBinding ==
  ASSUME StoresTyped, BindInv, Orderly', NEW c \in Handlers, NEW r \in Asked, Receive(c, r)
  PROVE  BindInv'
<1>1. /\ call[c].pc = "idle" /\ OthersStay(c) /\ call'[c].pc = r.kind /\ r.kind \in RequestKinds
      /\ SameFriends /\ (clash' = None => clash = None)
      /\ faults \in Nat /\ faults' = faults
  BY ReceiveFacts, ReceiveOrderly, IdleFacts, SameIfUnchanged, SocialAssumption DEF Asked, Request, StoresTyped
<1>2. QED
  BY <1>1, BindingsAsBefore DEF RequestKinds, FriendBegun, FriendEnding

LEMMA TokenGoneBinding ==
  ASSUME StoresTyped, BindInv, TokenGone
  PROVE  BindInv'
BY TokenGoneFacts DEF BindInv, BindingsKnown, StrangersUnbound, FewBindings, Bound, Who

-----------------------------------------------------------------------------
(* The steps of a member's call, as they change its member.                *)

Moved(c, l) ==
  /\ call'[c].pc = l
  /\ l = "idle" => call'[c] = Idle
  /\ l # "idle" => /\ call'[c].req = call[c].req /\ call'[c].role = call[c].role
                   /\ call'[c].prior = call[c].prior /\ call'[c].found = call[c].found

\* Where a call about a member goes on after a write and after a read.
LEMMA WriteMoves ==
  ASSUME StoresTyped, NEW c \in Handlers, NEW at, NEW new, NEW ok \in HandlerSteps, NEW bad \in HandlerSteps,
         Write(c, at, new, ok, bad)
  PROVE  /\ call[c].pc = at
         /\ \/ db' = new /\ Moved(c, ok) /\ NoFault
            \/ db' = db /\ Failed(c) /\ Moved(c, bad)
<1>1. \A l \in HandlerSteps : GoesOn(c, l, call[c]) => Moved(c, l)
  BY IdleFacts DEF GoesOn, Moved
<1>2. QED
  BY <1>1, WriteFacts DEF Wrote, Failed, NoFault

LEMMA ReadMoves ==
  ASSUME StoresTyped, NEW c \in Handlers, NEW at, NEW l \in HandlerSteps, Read(c, at, l)
  PROVE  call[c].pc = at /\ db' = db /\ Moved(c, l)
BY ReadFacts, IdleFacts DEF Wrote, GoesOn, Moved

\* What the step of a call about p leaves behind.
Good(c, p) ==
  /\ MemberKnows(c)'
  /\ db'.members[p] # None => HasGroup
  /\ HalfWay(c)' \/ MemberAgrees(p)' \/ (~HalfWay(c) /\ SameMember(p))
  /\ ~Alone(c) => /\ db'.members[p] \in {db.members[p], "member"} /\ db'.belongs[p] \in {db.belongs[p], "member"}
                  /\ p \in db.bind["group"] => p \in db'.bind["group"]

\* What it rests on.
Ready(c, p) ==
  /\ StoresTyped /\ KindAtLabel(call[c]) /\ RequestFits(call[c]) /\ p \in Peers /\ p = About(c)
  /\ Kind(c) \in {"add", "put", "join", "remove"}
  /\ MemberKnows(c) /\ MembersGrouped /\ TokenGrouped /\ SameGroup
  /\ db.group <=> "group" \in db.ws
  /\ Alone(c) => HalfWay(c) \/ MemberAgrees(p)
  /\ clash' = clash
  /\ Failed(c) => clash = None /\ call[c].pc \notin Rollbacks
  /\ NoFault => faults' = faults
  /\ call[c].pc \in AfterFault \cup Restoring => clash = None
  /\ faults' \in Nat /\ faults' >= faults /\ (Failed(c) => faults' > 0)

\* A call that returns.
LEMMA ReturnsGood ==
  ASSUME NEW c \in Handlers, NEW p, Ready(c, p), Moved(c, "idle"),
         MemberAgrees(p)' \/ (~HalfWay(c) /\ SameMember(p)),
         db'.members[p] # None => HasGroup \/ SameMember(p),
         ~Alone(c) => /\ db'.members[p] \in {db.members[p], "member"} /\ db'.belongs[p] \in {db.belongs[p], "member"}
                      /\ p \in db.bind["group"] => p \in db'.bind["group"]
  PROVE  Good(c, p)
<1>1. call'[c].pc = "idle" /\ call'[c].req.kind = None
  BY IdleFacts DEF Moved
<1>2. MemberKnows(c)'
  BY <1>1 DEF MemberKnows, Writing, Granting, Restoring, Removing, None
<1>3. db'.members[p] # None => HasGroup
  BY DEF Ready, SameMember, MembersGrouped
<1>4. QED
  BY <1>2, <1>3 DEF Good

\* The stores of p after a write about p.
LEMMA MyMember ==
  ASSUME StoresTyped, NEW p \in Peers, NEW r \in Roles \cup {None}, db' = Member(p, r)
  PROVE  db'.members[p] = r /\ db'.belongs[p] = db.belongs[p] /\ db'.bind = db.bind
BY MemberFacts DEF StoresTyped

LEMMA MyBelong ==
  ASSUME StoresTyped, NEW p \in Peers, NEW r \in Roles \cup {None}, db' = Belong(p, r)
  PROVE  db'.belongs[p] = r /\ db'.members[p] = db.members[p] /\ db'.bind = db.bind
BY BelongFacts DEF StoresTyped

LEMMA MyBinding ==
  ASSUME StoresTyped, NEW p \in Peers
  PROVE  /\ db' = Granted("group", p) =>
              p \in db'.bind["group"] /\ db'.members[p] = db.members[p] /\ db'.belongs[p] = db.belongs[p]
         /\ db' = Revoked("group", p) =>
              p \notin db'.bind["group"] /\ db'.members[p] = db.members[p] /\ db'.belongs[p] = db.belongs[p]
BY GrantedFacts, RevokedFacts DEF StoresTyped, Chats

\* The reads by which the calls begin.
LEMMA BeginsGood ==
  ASSUME NEW c \in Handlers, NEW p, Ready(c, p), Join(c) \/ AddMember(c) \/ PutMember(c)
  PROVE  Good(c, p)
<1>0. /\ StoresTyped /\ p \in Peers /\ p = About(c) /\ Who(c) \in Peers /\ Idle.pc = "idle"
      /\ {"idle", "a_target", "p_target"} \subseteq HandlerSteps
      /\ call[c].req.role \in Roles /\ "member" \in Roles
  BY CallTypes, IdleFacts DEF Ready, HandlerSteps, Roles
<1>1. ASSUME db' = db, Moved(c, "idle"), call[c].pc \in {"join", "add", "a_target", "put", "p_target"}
      PROVE  Good(c, p)
  <2>1. SameMember(p) /\ ~HalfWay(c)
    BY <1>0, <1>1, SameIfUnchanged DEF HalfWay, Granting, Restoring, Ready
  <2>2. QED
    BY <1>1, <2>1, ReturnsGood DEF SameMember
<1>2. ASSUME db' = db, NEW l \in {"a_target", "p_target"}, Moved(c, l), HasGroup, call[c].pc \in {"add", "put"}
      PROVE  Good(c, p)
  <2>1. SameMember(p) /\ ~HalfWay(c) /\ HasGroup'
    BY <1>0, <1>2, SameIfUnchanged DEF HalfWay, Granting, Restoring, Ready, HasGroup
  <2>2. MemberKnows(c)'
    BY <1>2, <2>1 DEF Moved, MemberKnows, Writing, Granting, Restoring, Removing
  <2>3. QED
    BY <1>2, <2>1, <2>2 DEF Good, SameMember
<1>3. ASSUME NEW at \in {"join", "a_target", "p_target"}, NEW r \in Roles, ToWriteMember(c, at, r), HasGroup
      PROVE  Good(c, p)
  <2>0. at # "idle"
    OBVIOUS
  <2>1. /\ call[c].pc = at /\ db' = db /\ call'[c].pc = "m_read" /\ call'[c].req = call[c].req
        /\ call'[c].prior = db.members[p] /\ faults' = faults
    BY <1>0, <1>3, <2>0, ToWriteMemberFacts DEF NoFault
  <2>2. SameMember(p) /\ ~HalfWay(c) /\ HasGroup'
    BY <1>0, <1>3, <2>1, SameIfUnchanged DEF HalfWay, Granting, Restoring, Ready, HasGroup
  <2>3. Alone(c)' => MemberAgrees(p)
    BY <2>1, <2>2 DEF Ready, Alone, Kind
  <2>4. MemberKnows(c)'
    BY <1>0, <2>1, <2>2, <2>3 DEF MemberKnows, Writing, Granting, Restoring, Removing, About, MemberAgrees
  <2>5. QED
    BY <1>3, <2>1, <2>2, <2>4 DEF Good, SameMember
<1>4. CASE Join(c)
  <2>1. CASE Read(c, "join", "idle")
    BY <1>0, <1>1, <2>1, ReadMoves
  <2>2. CASE db.token /\ ToWriteMember(c, "join", "member")
    BY <1>0, <1>3, <2>2 DEF Ready, TokenGrouped
  <2>3. QED
    BY <1>4, <2>1, <2>2 DEF Join
<1>5. CASE AddMember(c)
  <2>1. CASE Read(c, "add", IF MayAdd(c) THEN "a_target" ELSE "idle")
    <3>1. MayAdd(c) => HasGroup
      BY <1>0 DEF MayAdd, MayAppoint, Ready, MembersGrouped, HasGroup, None
    <3>2. QED
      BY <1>0, <1>1, <1>2, <2>1, <3>1, ReadMoves
  <2>2. CASE Read(c, "a_target", "idle")
    BY <1>0, <1>1, <2>2, ReadMoves
  <2>3. CASE ToWriteMember(c, "a_target", call[c].req.role)
    <3>1. HasGroup
      BY <2>3 DEF ToWriteMember, ReadInto, At, Ready, MemberKnows, Kind
    <3>2. QED
      BY <1>0, <1>3, <2>3, <3>1
  <2>4. QED
    BY <1>5, <2>1, <2>2, <2>3 DEF AddMember
<1>6. CASE PutMember(c)
  <2>1. CASE Read(c, "put", IF db.members[Who(c)] = "owner" THEN "p_target" ELSE "idle")
    <3>1. db.members[Who(c)] = "owner" => HasGroup
      BY <1>0 DEF Ready, MembersGrouped, None
    <3>2. QED
      BY <1>0, <1>1, <1>2, <2>1, <3>1, ReadMoves
  <2>2. CASE Read(c, "p_target", "idle")
    BY <1>0, <1>1, <2>2, ReadMoves
  <2>3. CASE ToWriteMember(c, "p_target", call[c].req.role)
    <3>1. HasGroup
      BY <2>3 DEF ToWriteMember, ReadInto, At, Ready, MemberKnows, Kind
    <3>2. QED
      BY <1>0, <1>3, <2>3, <3>1
  <2>4. QED
    BY <1>6, <2>1, <2>2, <2>3 DEF PutMember
<1>7. QED
  BY <1>4, <1>5, <1>6

\* writeMember.
LEMMA WriteGood ==
  ASSUME NEW c \in Handlers, NEW p, Ready(c, p), WriteMember(c)
  PROVE  Good(c, p)
<1>0. /\ StoresTyped /\ p \in Peers /\ p = About(c) /\ None \in Roles \cup {None}
      /\ call[c].role \in Roles \cup {None} /\ Undone(c) \in Roles \cup {None} /\ call[c].prior \in Roles \cup {None}
  BY CallTypes DEF Ready
<1>l. {"idle", "m_member", "m_belong", "i_member", "i_belong", "m_group", "m_grant"} \subseteq HandlerSteps
  BY DEF HandlerSteps
<1>w. call[c].pc \in Writing
  BY DEF WriteMember, ReadInto, Write, At, Writing
<1>k. /\ MemberFailed(c) = "idle"
      /\ IF Kind(c) = "put" THEN AfterMember(c) = "idle" ELSE AfterMember(c) \in {"m_group", "m_grant"}
      /\ Kind(c) \in {"add", "put", "join"}
  <2>1. Kind(c) \in {"add", "put", "join"}
    BY <1>w DEF Ready, KindAtLabel, Kind
  <2>2. QED
    BY <2>1 DEF MemberFailed, AfterMember
<1>h. HasGroup /\ HasGroup'
  <2>1. HasGroup
    BY <1>w DEF Ready, MemberKnows, Kind, Writing
  <2>2. QED
    BY <2>1 DEF Ready, SameGroup, HasGroup
<1>r. /\ call[c].role # None /\ (~Alone(c) => call[c].role = "member" /\ call[c].pc \notin {"i_member", "i_belong"})
      /\ Kind(c) = "put" => call[c].prior # None /\ Alone(c)
  <2>1. call[c].role \in Roles /\ (Kind(c) = "join" => call[c].role = "member")
    <3>1. call[c].req.role \in Roles /\ "member" \in Roles
      BY <1>0, CallTypes DEF Roles
    <3>2. QED
      BY <1>w, <1>k, <3>1 DEF Ready, RequestFits, Kind
  <2>2. Kind(c) = "put" => call[c].prior # None
    BY <1>w DEF Ready, RequestFits, Kind
  <2>3. call[c].pc \in {"i_member", "i_belong"} => clash = None
    BY DEF Ready, AfterFault
  <2>4. call[c].role # None
    BY <2>1 DEF Roles, None
  <2>5. QED
    BY <2>1, <2>2, <2>3, <2>4 DEF Alone, None
<1>u. Undone(c) # None <=> call[c].found
  BY <1>r DEF Undone
<1>a. Alone(c)' => Alone(c) \/ call'[c] = Idle
  BY EveryCallStep, <1>0 DEF CallAction, HandlerStep, Quiet, Alone, Kind
<1>m. MemberKnows(c) /\ (Alone(c) => HalfWay(c) \/ MemberAgrees(p))
  BY DEF Ready
<1>1. CASE ReadInto(c, "m_read", "m_member", [call[c] EXCEPT !.found = db.members[About(c)] # None])
  <2>1. /\ call[c].pc = "m_read" /\ db' = db /\ call'[c].pc = "m_member" /\ call'[c].req = call[c].req
        /\ call'[c].prior = call[c].prior /\ call'[c].role = call[c].role
        /\ call'[c].found = (db.members[p] # None)
    BY <1>0, <1>1, FindFacts
  <2>2. SameMember(p) /\ ~HalfWay(c)
    BY <1>0, <1>k, <2>1, SameIfUnchanged DEF HalfWay, Granting, Restoring
  <2>3. MemberKnows(c)'
    BY <1>0, <1>h, <1>a, <1>m, <2>1, IdleFacts DEF MemberKnows, Writing, Granting, Restoring, Removing, About, Undone
  <2>4. QED
    BY <1>h, <2>2, <2>3 DEF Good, SameMember
<1>2. CASE Write(c, "m_member", Member(About(c), call[c].role), "m_belong", MemberFailed(c))
  <2>1. CASE db' = db /\ Moved(c, "idle") /\ call[c].pc = "m_member"
    <3>1. SameMember(p) /\ ~HalfWay(c)
      BY <1>0, <1>k, <2>1, SameIfUnchanged DEF HalfWay, Granting, Restoring
    <3>2. QED
      BY <2>1, <3>1, ReturnsGood DEF SameMember
  <2>2. CASE db' = Member(p, call[c].role) /\ Moved(c, "m_belong") /\ call[c].pc = "m_member"
    <3>1. db'.members[p] = call[c].role /\ db'.belongs[p] = db.belongs[p] /\ db'.bind = db.bind
      BY <1>0, <2>2, MyMember
    <3>2. HalfWay(c)'
      BY <2>2 DEF HalfWay, Moved
    <3>3. MemberKnows(c)'
      BY <1>0, <1>h, <1>a, <1>m, <2>2, <3>1, IdleFacts
         DEF Moved, MemberKnows, Writing, Granting, Restoring, Removing, About, Undone
    <3>4. QED
      BY <1>h, <1>r, <3>1, <3>2, <3>3 DEF Good
  <2>3. QED
    BY <1>0, <1>l, <1>k, <1>2, <2>1, <2>2, WriteMoves
<1>3. CASE Write(c, "m_belong", Belong(About(c), call[c].role), AfterMember(c), "i_member")
  <2>1. CASE db' = db /\ Failed(c) /\ Moved(c, "i_member") /\ call[c].pc = "m_belong"
    <3>1. HalfWay(c)'
      BY <2>1 DEF HalfWay, Moved
    <3>2. Alone(c)
      BY <2>1 DEF Ready, Alone
    <3>3. MemberKnows(c)'
      BY <1>0, <1>h, <1>a, <1>m, <2>1, <3>2, IdleFacts
         DEF Moved, MemberKnows, Writing, Granting, Restoring, Removing, About, Undone
    <3>4. QED
      BY <1>h, <2>1, <3>1, <3>2, <3>3 DEF Good
  <2>2. CASE db' = Belong(p, call[c].role) /\ Moved(c, AfterMember(c)) /\ call[c].pc = "m_belong"
    <3>1. /\ db'.belongs[p] = call[c].role /\ db'.members[p] = db.members[p] /\ db'.bind = db.bind
          /\ db.members[p] = call[c].role
      BY <1>0, <1>m, <2>2, MyBelong DEF MemberKnows
    <3>2. CASE Kind(c) = "put"
      <4>1. p \in db.bind["group"]
        BY <1>0, <1>r, <1>m, <2>2, <3>2 DEF MemberKnows, Writing
      <4>2. MemberAgrees(p)'
        BY <1>r, <3>1, <4>1 DEF MemberAgrees
      <4>3. QED
        BY <1>h, <1>k, <1>r, <2>2, <3>1, <3>2, <4>2, ReturnsGood
    <3>3. CASE Kind(c) # "put"
      <4>1. call'[c].pc \in Granting /\ HalfWay(c)'
        BY <1>k, <2>2, <3>3 DEF HalfWay, Moved, Granting
      <4>2. MemberKnows(c)'
        BY <1>0, <1>h, <1>a, <1>m, <2>2, <3>1, <4>1, IdleFacts
           DEF Moved, MemberKnows, Writing, Granting, Restoring, Removing, About, Undone
      <4>3. QED
        BY <1>h, <1>r, <3>1, <4>1, <4>2 DEF Good
    <3>4. QED
      BY <3>2, <3>3
  <2>3. AfterMember(c) \in HandlerSteps
    BY <1>l, <1>k
  <2>4. QED
    BY <1>0, <1>l, <1>3, <2>1, <2>2, <2>3, WriteMoves
<1>r2. {"i_member", "i_belong"} \subseteq Rollbacks /\ (Failed(c) => call[c].pc \notin Rollbacks)
  BY DEF Rollbacks, Ready
<1>4. CASE Write(c, "i_member", Member(About(c), Undone(c)), "i_belong", "i_belong")
  <2>1. db' = Member(p, Undone(c)) /\ Moved(c, "i_belong") /\ call[c].pc = "i_member"
    BY <1>0, <1>l, <1>4, <1>r2, WriteMoves
  <2>2. db'.members[p] = Undone(c) /\ db'.belongs[p] = db.belongs[p] /\ db'.bind = db.bind
    BY <1>0, <2>1, MyMember
  <2>3. HalfWay(c)'
    BY <2>1 DEF HalfWay, Moved
  <2>4. Undone(c)' = Undone(c)
    BY <2>1 DEF Undone, Moved
  <2>5. MemberKnows(c)'
    BY <1>0, <1>h, <1>a, <1>m, <2>1, <2>2, <2>4, IdleFacts
       DEF Moved, MemberKnows, Writing, Granting, Restoring, Removing, About
  <2>6. QED
    BY <1>h, <1>r, <2>1, <2>2, <2>3, <2>5 DEF Good
<1>5. CASE Write(c, "i_belong", Belong(About(c), Undone(c)), MemberFailed(c), MemberFailed(c))
  <2>1. db' = Belong(p, Undone(c)) /\ Moved(c, "idle") /\ call[c].pc = "i_belong"
    BY <1>0, <1>l, <1>k, <1>5, <1>r2, WriteMoves
  <2>2. db'.belongs[p] = Undone(c) /\ db'.members[p] = db.members[p] /\ db'.bind = db.bind
    BY <1>0, <2>1, MyBelong
  <2>3. Alone(c)
    BY <1>r, <2>1
  <2>4. db.members[p] = Undone(c) /\ (p \in db.bind["group"] <=> call[c].prior # None) /\ (call[c].found <=> call[c].prior # None)
    BY <1>0, <1>m, <2>1, <2>3 DEF MemberKnows, Writing
  <2>5. MemberAgrees(p)'
    BY <1>u, <2>2, <2>4 DEF MemberAgrees
  <2>6. QED
    BY <1>h, <2>1, <2>3, <2>5, ReturnsGood
<1>6. QED
  BY <1>1, <1>2, <1>3, <1>4, <1>5 DEF WriteMember

\* The binding of a new member, and the group as he sees it.
LEMMA GrantGood ==
  ASSUME NEW c \in Handlers, NEW p, Ready(c, p), GrantMember(c)
  PROVE  Good(c, p)
<1>0. /\ StoresTyped /\ p \in Peers /\ p = About(c) /\ MemberKnows(c)
  BY DEF Ready
<1>l. {"idle", "m_grant", "m_get", "r_member", "m_revoke"} \subseteq HandlerSteps
  BY DEF HandlerSteps
<1>w. call[c].pc \in Granting \cup {"m_get", "m_revoke"}
  BY DEF GrantMember, Read, ReadInto, Write, At, Granting
<1>h. HasGroup /\ HasGroup' /\ db.group
  <2>1. HasGroup
    BY <1>w DEF Ready, MemberKnows, Kind, Granting
  <2>2. QED
    BY <2>1 DEF Ready, SameGroup, HasGroup
<1>r. /\ call[c].role # None
      /\ db.members[p] = call[c].role /\ db.belongs[p] = call[c].role
      /\ call[c].pc # "m_revoke"
  <2>1. call[c].req.role \in Roles /\ "member" \in Roles
    BY <1>0, CallTypes DEF Roles
  <2>2. call[c].role \in Roles
    BY <1>w, <2>1 DEF Ready, KindAtLabel, RequestFits, Kind, Granting
  <2>3. call[c].role # None
    BY <2>2 DEF Roles, None
  <2>4. QED
    BY <1>0, <1>w, <2>3 DEF MemberKnows
<1>a. Alone(c)' => Alone(c) \/ call'[c] = Idle
  BY EveryCallStep, <1>0 DEF CallAction, HandlerStep, Quiet, Alone, Kind
<1>1. CASE Read(c, "m_group", IF db.group THEN "m_grant" ELSE "r_member")
  <2>1. db' = db /\ Moved(c, "m_grant") /\ call[c].pc = "m_group"
    BY <1>0, <1>l, <1>h, <1>1, ReadMoves
  <2>2. HalfWay(c)'
    BY <2>1 DEF HalfWay, Moved, Granting
  <2>3. MemberKnows(c)'
    BY <1>0, <1>h, <1>a, <2>1, IdleFacts DEF Moved, MemberKnows, Writing, Granting, Restoring, Removing, About
  <2>4. QED
    BY <1>h, <2>1, <2>2, <2>3 DEF Good
<1>2. CASE Write(c, "m_grant", Granted("group", About(c)), IF Kind(c) = "join" THEN "m_get" ELSE "idle", "r_member")
  <2>1. CASE db' = db /\ Failed(c) /\ Moved(c, "r_member") /\ call[c].pc = "m_grant"
    <3>1. HalfWay(c)'
      BY <2>1 DEF HalfWay, Moved, Restoring
    <3>2. Alone(c) /\ faults' > 0
      BY <2>1 DEF Ready, Alone
    <3>3. MemberKnows(c)'
      BY <1>0, <1>h, <2>1, <3>2 DEF Moved, MemberKnows, Writing, Granting, Restoring, Removing, About
    <3>4. QED
      BY <1>h, <2>1, <3>1, <3>2, <3>3 DEF Good
  <2>2. CASE db' = Granted("group", p) /\ Moved(c, IF Kind(c) = "join" THEN "m_get" ELSE "idle") /\ call[c].pc = "m_grant"
    <3>1. p \in db'.bind["group"] /\ db'.members[p] = db.members[p] /\ db'.belongs[p] = db.belongs[p]
      BY <1>0, <2>2, MyBinding
    <3>2. MemberAgrees(p)'
      BY <1>r, <3>1 DEF MemberAgrees
    <3>3. CASE Kind(c) = "join"
      <4>1. Moved(c, "m_get")
        BY <2>2, <3>3
      <4>2. MemberKnows(c)'
        BY <1>0, <1>h, <1>r, <2>2, <3>1, <4>1 DEF Moved, MemberKnows, Writing, Granting, Restoring, Removing, About
      <4>3. QED
        BY <1>h, <3>1, <3>2, <4>2 DEF Good
    <3>4. CASE Kind(c) # "join"
      <4>1. Moved(c, "idle")
        BY <2>2, <3>4
      <4>2. QED
        BY <1>h, <3>1, <3>2, <4>1, ReturnsGood
    <3>5. QED
      BY <3>3, <3>4
  <2>3. QED
    BY <1>0, <1>l, <1>2, <2>1, <2>2, WriteMoves
<1>3. CASE Read(c, "m_get", IF db.group /\ db.members[About(c)] # None THEN "idle" ELSE "m_revoke")
  <2>1. db' = db /\ Moved(c, "idle") /\ call[c].pc = "m_get"
    BY <1>0, <1>l, <1>h, <1>r, <1>3, ReadMoves
  <2>2. MemberAgrees(p)'
    BY <1>0, <1>r, <2>1 DEF MemberAgrees, MemberKnows
  <2>3. QED
    BY <1>h, <2>1, <2>2, ReturnsGood
<1>4. CASE Write(c, "m_revoke", Revoked("group", About(c)), "r_member", "r_member")
  BY <1>r, <1>4 DEF Write, At
<1>5. QED
  BY <1>1, <1>2, <1>3, <1>4 DEF GrantMember

\* restoreMember.
LEMMA RestoreGood ==
  ASSUME NEW c \in Handlers, NEW p, Ready(c, p), RestoreMember(c)
  PROVE  Good(c, p)
<1>0. /\ StoresTyped /\ p \in Peers /\ p = About(c) /\ MemberKnows(c) /\ call[c].prior \in Roles \cup {None}
  BY CallTypes DEF Ready
<1>l. {"idle", "r_belong"} \subseteq HandlerSteps
  BY DEF HandlerSteps
<1>w. call[c].pc \in Restoring
  BY DEF RestoreMember, Write, At, Restoring
<1>h. HasGroup /\ HasGroup'
  <2>1. HasGroup
    BY <1>w DEF Ready, MemberKnows, Kind, Restoring
  <2>2. QED
    BY <2>1 DEF Ready, SameGroup, HasGroup
<1>r. /\ Alone(c) /\ faults > 0 /\ faults' > 0
      /\ call[c].pc \in Rollbacks /\ ~Failed(c)
      /\ p \in db.bind["group"] <=> call[c].prior # None
  <2>1. Alone(c)
    BY <1>w DEF Ready, Alone
  <2>2. faults > 0 /\ (p \in db.bind["group"] <=> call[c].prior # None)
    BY <1>0, <1>w, <2>1 DEF MemberKnows
  <2>3. call[c].pc \in Rollbacks
    BY <1>w DEF Restoring, Rollbacks
  <2>4. faults \in Nat /\ faults' >= faults /\ faults' \in Nat /\ ~Failed(c)
    BY <2>3, SocialAssumption DEF Ready, StoresTyped
  <2>5. QED
    BY <2>1, <2>2, <2>3, <2>4
<1>1. CASE Write(c, "r_member", Member(About(c), call[c].prior), "r_belong", "r_belong")
  <2>1. db' = Member(p, call[c].prior) /\ Moved(c, "r_belong") /\ call[c].pc = "r_member"
    BY <1>0, <1>l, <1>r, <1>1, WriteMoves
  <2>2. db'.members[p] = call[c].prior /\ db'.belongs[p] = db.belongs[p] /\ db'.bind = db.bind
    BY <1>0, <2>1, MyMember
  <2>3. HalfWay(c)'
    BY <2>1 DEF HalfWay, Moved, Restoring
  <2>4. MemberKnows(c)'
    BY <1>0, <1>h, <1>r, <2>1, <2>2 DEF Moved, MemberKnows, Writing, Granting, Restoring, Removing, About
  <2>5. QED
    BY <1>h, <1>r, <2>3, <2>4 DEF Good
<1>2. CASE Write(c, "r_belong", Belong(About(c), call[c].prior), "idle", "idle")
  <2>1. db' = Belong(p, call[c].prior) /\ Moved(c, "idle") /\ call[c].pc = "r_belong"
    BY <1>0, <1>l, <1>r, <1>2, WriteMoves
  <2>2. db'.belongs[p] = call[c].prior /\ db'.members[p] = db.members[p] /\ db'.bind = db.bind
    BY <1>0, <2>1, MyBelong
  <2>3. db.members[p] = call[c].prior
    BY <1>0, <1>r, <2>1 DEF MemberKnows
  <2>4. MemberAgrees(p)'
    BY <1>r, <2>2, <2>3 DEF MemberAgrees
  <2>5. QED
    BY <1>h, <1>r, <2>1, <2>4, ReturnsGood
<1>3. QED
  BY <1>1, <1>2 DEF RestoreMember

\* DeleteFriendGroupMember.
LEMMA RemoveGood ==
  ASSUME NEW c \in Handlers, NEW p, Ready(c, p), RemoveMember(c)
  PROVE  Good(c, p)
<1>0. /\ StoresTyped /\ p \in Peers /\ p = About(c) /\ MemberKnows(c) /\ call[c].prior \in Roles \cup {None}
      /\ None \in Roles \cup {None}
  BY CallTypes DEF Ready
<1>l. {"idle", "d_role", "d_member", "d_belong", "d_back", "d_group", "d_revoke", "r_member"} \subseteq HandlerSteps
  BY DEF HandlerSteps
<1>w. call[c].pc \in Removing \cup {"remove"}
  BY DEF RemoveMember, Read, ReadInto, Write, At, Removing
<1>r. Kind(c) = "remove" /\ Alone(c)
  BY <1>w DEF Ready, KindAtLabel, Kind, Alone
<1>h. call[c].pc \in Removing => HasGroup /\ HasGroup'
  <2>1. call[c].pc \in Removing => HasGroup
    BY <1>r DEF Ready, MemberKnows, Kind, Removing
  <2>2. QED
    BY <2>1 DEF Ready, SameGroup, HasGroup
<1>k. /\ call[c].pc \in Removing => (p \in db.bind["group"] <=> call[c].prior # None)
      /\ call[c].pc \in {"d_role", "d_member"} => db.members[p] = call[c].prior
      /\ call[c].pc \in {"d_role", "d_member", "d_belong", "d_back"} => db.belongs[p] = call[c].prior
      /\ call[c].pc \in {"d_belong", "d_back", "d_group", "d_revoke"} => db.members[p] = None
      /\ call[c].pc \in {"d_group", "d_revoke"} => db.belongs[p] = None
  BY <1>0, <1>r DEF MemberKnows
<1>i. ASSUME db' = db, Moved(c, "idle"), call[c].pc \in {"remove", "d_role", "d_member"}
      PROVE  Good(c, p)
  <2>1. SameMember(p) /\ ~HalfWay(c)
    BY <1>0, <1>r, <1>i, SameIfUnchanged DEF HalfWay, Granting, Restoring
  <2>2. QED
    BY <1>i, <2>1, ReturnsGood DEF SameMember
<1>1. CASE /\ db.members[About(c)] \in Removable(c)
           /\ ReadInto(c, "remove", "d_role", [call[c] EXCEPT !.prior = db.members[About(c)]])
  <2>1. /\ call[c].pc = "remove" /\ db' = db /\ call'[c].pc = "d_role" /\ call'[c].req = call[c].req
        /\ call'[c].prior = db.members[p] /\ db.members[p] # None
    BY <1>0, <1>1, RoleFacts DEF Removable, None
  <2>2. SameMember(p) /\ ~HalfWay(c) /\ HasGroup /\ HasGroup' /\ MemberAgrees(p)
    BY <1>0, <1>r, <2>1, SameIfUnchanged DEF HalfWay, Granting, Restoring, Ready, HasGroup, MembersGrouped
  <2>3. MemberKnows(c)'
    BY <1>0, <2>1, <2>2 DEF MemberKnows, Writing, Granting, Restoring, Removing, About, MemberAgrees
  <2>4. QED
    BY <2>1, <2>2, <2>3 DEF Good, SameMember
<1>2. CASE Read(c, "remove", "idle")
  BY <1>0, <1>l, <1>i, <1>2, ReadMoves
<1>3. CASE Read(c, "d_role", IF MayRemove(c) THEN "d_member" ELSE "idle")
  <2>1. call[c].pc = "d_role" /\ db' = db /\ (Moved(c, "d_member") \/ Moved(c, "idle"))
    BY <1>0, <1>l, <1>3, ReadMoves
  <2>2. CASE Moved(c, "d_member")
    <3>1. SameMember(p) /\ ~HalfWay(c)
      BY <1>0, <1>r, <2>1, SameIfUnchanged DEF HalfWay, Granting, Restoring
    <3>2. MemberKnows(c)'
      BY <1>0, <1>h, <1>k, <2>1, <2>2 DEF Moved, MemberKnows, Writing, Granting, Restoring, Removing, About
    <3>3. QED
      BY <1>h, <1>r, <2>1, <3>1, <3>2 DEF Good, Removing
  <2>3. QED
    BY <1>i, <2>1, <2>2
<1>4. CASE Write(c, "d_member", Member(About(c), None), "d_belong", "idle")
  <2>1. CASE db' = Member(p, None) /\ Moved(c, "d_belong") /\ call[c].pc = "d_member"
    <3>1. db'.members[p] = None /\ db'.belongs[p] = db.belongs[p] /\ db'.bind = db.bind
      BY <1>0, <2>1, MyMember
    <3>2. MemberKnows(c)' /\ HalfWay(c)'
      BY <1>0, <1>h, <1>k, <2>1, <3>1 DEF Moved, MemberKnows, HalfWay, Writing, Granting, Restoring, Removing, About
    <3>3. QED
      BY <1>r, <3>1, <3>2 DEF Good
  <2>2. CASE db' = db /\ Moved(c, "idle") /\ call[c].pc = "d_member"
    BY <1>i, <2>2
  <2>3. QED
    BY <1>0, <1>l, <1>4, <2>1, <2>2, WriteMoves
<1>5. CASE Write(c, "d_belong", Belong(About(c), None), "d_group", "d_back")
  <2>1. CASE db' = Belong(p, None) /\ Moved(c, "d_group") /\ call[c].pc = "d_belong"
    <3>1. db'.belongs[p] = None /\ db'.members[p] = db.members[p] /\ db'.bind = db.bind
      BY <1>0, <2>1, MyBelong
    <3>2. MemberKnows(c)' /\ HalfWay(c)'
      BY <1>0, <1>h, <1>k, <2>1, <3>1 DEF Moved, MemberKnows, HalfWay, Writing, Granting, Restoring, Removing, About
    <3>3. QED
      BY <1>r, <1>k, <2>1, <3>1, <3>2 DEF Good
  <2>2. CASE db' = db /\ Moved(c, "d_back") /\ call[c].pc = "d_belong"
    <3>1. MemberKnows(c)' /\ HalfWay(c)'
      BY <1>0, <1>h, <1>k, <2>2 DEF Moved, MemberKnows, HalfWay, Writing, Granting, Restoring, Removing, About
    <3>2. QED
      BY <1>r, <1>k, <2>2, <3>1 DEF Good
  <2>3. QED
    BY <1>0, <1>l, <1>5, <2>1, <2>2, WriteMoves
<1>6. CASE Write(c, "d_back", Member(About(c), call[c].prior), "idle", "idle")
  <2>0. call[c].pc = "d_back" /\ ~Failed(c)
    BY <1>6 DEF Write, At, Ready, Rollbacks
  <2>1. db' = Member(p, call[c].prior) /\ Moved(c, "idle")
    BY <1>0, <1>l, <1>6, <2>0, WriteMoves
  <2>2. db'.members[p] = call[c].prior /\ db'.belongs[p] = db.belongs[p] /\ db'.bind = db.bind
    BY <1>0, <2>1, MyMember
  <2>3. MemberAgrees(p)'
    BY <1>k, <2>0, <2>2 DEF MemberAgrees, Removing
  <2>4. QED
    BY <1>h, <1>r, <2>0, <2>1, <2>3, ReturnsGood DEF Removing
<1>7. CASE Read(c, "d_group", IF db.group THEN "d_revoke" ELSE "r_member")
  <2>0. call[c].pc = "d_group" /\ db.group
    BY <1>h, <1>7 DEF Read, ReadInto, At, Removing, HasGroup
  <2>1. db' = db /\ Moved(c, "d_revoke")
    BY <1>0, <1>l, <1>7, <2>0, ReadMoves
  <2>2. MemberKnows(c)' /\ HalfWay(c)'
    BY <1>0, <1>h, <1>k, <2>0, <2>1 DEF Moved, MemberKnows, HalfWay, Writing, Granting, Restoring, Removing, About
  <2>3. QED
    BY <1>r, <1>k, <2>0, <2>1, <2>2 DEF Good
<1>8. CASE Write(c, "d_revoke", Revoked("group", About(c)), "idle", "r_member")
  <2>1. CASE db' = Revoked("group", p) /\ Moved(c, "idle") /\ call[c].pc = "d_revoke"
    <3>1. p \notin db'.bind["group"] /\ db'.members[p] = db.members[p] /\ db'.belongs[p] = db.belongs[p]
      BY <1>0, <2>1, MyBinding
    <3>2. MemberAgrees(p)'
      BY <1>k, <2>1, <3>1 DEF MemberAgrees
    <3>3. QED
      BY <1>h, <1>r, <2>1, <3>2, ReturnsGood DEF Removing
  <2>2. CASE db' = db /\ Failed(c) /\ Moved(c, "r_member") /\ call[c].pc = "d_revoke"
    <3>1. faults' > 0
      BY <2>2 DEF Ready
    <3>2. MemberKnows(c)' /\ HalfWay(c)'
      BY <1>0, <1>h, <1>k, <2>2, <3>1 DEF Moved, MemberKnows, HalfWay, Writing, Granting, Restoring, Removing, About
    <3>3. QED
      BY <1>r, <1>k, <2>2, <3>2 DEF Good
  <2>3. QED
    BY <1>0, <1>l, <1>8, <2>1, <2>2, WriteMoves
<1>9. QED
  BY <1>1, <1>2, <1>3, <1>4, <1>5, <1>6, <1>7, <1>8 DEF RemoveMember

\* A step of a call about a member keeps what it knows, whichever action it is.
LEMMA MemberGood ==
  ASSUME NEW c \in Handlers, NEW p, Ready(c, p), MemberAction(c)
  PROVE  Good(c, p)
BY BeginsGood, WriteGood, GrantGood, RestoreGood, RemoveGood DEF MemberAction

-----------------------------------------------------------------------------
(* The group's part of the invariant.                                      *)

\* What a call knows stays true while its member and the group stay as they are.
LEMMA MemberKnowsStill ==
  ASSUME NEW x \in Handlers, MemberKnows(x), call'[x] = call[x], SameMember(About(x)), HasGroup => HasGroup',
         clash' = None => clash = None, faults > 0 => faults' > 0
  PROVE  MemberKnows(x)'
<1>1. About(x)' = About(x) /\ Undone(x)' = Undone(x) /\ (Alone(x)' => Alone(x))
  BY DEF About, Undone, Alone, Kind
<1>2. QED
  BY <1>1 DEF MemberKnows, SameMember

\* What the calls that make and delete the group know rests on the group and its members.
LEMMA CreateKnowsStill ==
  ASSUME NEW x \in Handlers, CreateKnows(x), call'[x] = call[x], SameMember(Owner), db'.group = db.group,
         "group" \in db'.ws <=> "group" \in db.ws
  PROVE  CreateKnows(x)'
<1>1. ByAdmin(x)' = ByAdmin(x)
  BY DEF ByAdmin
<1>2. QED
  BY <1>1 DEF CreateKnows, SameMember

LEMMA DeleteKnowsStill ==
  ASSUME StoresTyped, StoresTyped',
         NEW x \in Handlers, DeleteKnows(x), call'[x] = call[x], \A p \in Peers : SameMember(p), db'.group = db.group,
         "group" \in db'.ws <=> "group" \in db.ws, db'.token => db.token
  PROVE  DeleteKnows(x)'
<1>1. db.bind["group"] \subseteq Peers /\ db'.bind["group"] \subseteq Peers
  BY DEF StoresTyped, Stores, Chats
<1>2. db'.bind["group"] = db.bind["group"]
  BY <1>1 DEF SameMember
<1>3. QED
  BY <1>2 DEF DeleteKnows, SameMember, HasGroup

\* A step that leaves the group and its members as they are.
LEMMA GroupAsBefore ==
  ASSUME StoresTyped, StoresTyped', GroupInv, NEW c \in Handlers, OthersStay(c),
         db'.group = db.group, "group" \in db'.ws <=> "group" \in db.ws, \A p \in Peers : SameMember(p),
         clash' = None => clash = None, faults > 0 => faults' > 0,
         db'.token => HasGroup, db'.token => db.token \/ \A x \in Handlers \ {c} : Kind(x) # "delete",
         Kind(c) \notin {"create", "delete"}, ~HalfWay(c),
         Kind(c)' \notin {"create", "delete"} => MemberKnows(c)',
         Kind(c)' = "create" => CreateKnows(c)', Kind(c)' = "delete" => DeleteKnows(c)'
  PROVE  GroupInv'
<1>0. HasGroup' <=> HasGroup
  BY DEF HasGroup
<1>1. ASSUME NEW x \in Handlers \ {c}
      PROVE  /\ call'[x] = call[x] /\ Kind(x)' = Kind(x) /\ About(x)' = About(x) /\ (HalfWay(x)' <=> HalfWay(x))
             /\ Kind(x) \notin {"create", "delete"} => MemberKnows(x)'
             /\ Kind(x) = "create" => CreateKnows(x)'
             /\ Kind(x) = "delete" => DeleteKnows(x)'
  <2>1. call'[x] = call[x] /\ Kind(x)' = Kind(x) /\ About(x)' = About(x) /\ (HalfWay(x)' <=> HalfWay(x))
    BY DEF OthersStay, Kind, About, HalfWay
  <2>2. SameMember(About(x)) /\ SameMember(Owner)
    BY CallTypes, SocialAssumption
  <2>3. CASE Kind(x) \notin {"create", "delete"}
    <3>1. MemberKnows(x)
      BY <2>3 DEF GroupInv, MembersKnow
    <3>2. QED
      BY <1>0, <2>1, <2>2, <2>3, <3>1, MemberKnowsStill
  <2>4. CASE Kind(x) = "create"
    <3>1. CreateKnows(x)
      BY <2>4 DEF GroupInv, CreatorsKnow
    <3>2. QED
      BY <2>1, <2>2, <2>4, <3>1, CreateKnowsStill
  <2>5. CASE Kind(x) = "delete"
    <3>1. DeleteKnows(x)
      BY <2>5 DEF GroupInv, DeletersKnow
    <3>2. db'.token => db.token
      BY <2>5
    <3>3. QED
      BY <2>1, <2>5, <3>1, <3>2, DeleteKnowsStill
  <2>6. QED
    BY <2>1, <2>3, <2>4, <2>5
<1>2. MembersKnow' /\ CreatorsKnow' /\ DeletersKnow'
  BY <1>1 DEF MembersKnow, CreatorsKnow, DeletersKnow
<1>3. MembersGrouped'
  BY <1>0 DEF GroupInv, MembersGrouped, SameMember
<1>4. TokenGrouped'
  BY <1>0 DEF TokenGrouped
<1>5. RecordHasSpace'
  <2>1. SUFFICES ASSUME \A x \in Handlers : Kind(x)' \notin {"create", "delete"}
                 PROVE  db'.group <=> "group" \in db'.ws
    BY DEF RecordHasSpace
  <2>2. \A x \in Handlers : Kind(x) \notin {"create", "delete"}
    BY <1>1, <2>1
  <2>3. QED
    BY <2>2 DEF GroupInv, RecordHasSpace
<1>6. MembersSettled'
  <2>1. SUFFICES ASSUME NEW p \in Peers, LeftAlone(p)'
                 PROVE  MemberAgrees(p)'
    BY DEF MembersSettled
  <2>2. LeftAlone(p)
    BY <1>1, <2>1 DEF LeftAlone
  <2>3. MemberAgrees(p)
    BY <2>2 DEF GroupInv, MembersSettled
  <2>4. QED
    BY <2>3 DEF MemberAgrees, SameMember
<1>7. QED
  BY <1>2, <1>3, <1>4, <1>5, <1>6 DEF GroupInv

\* Calls of other kinds know nothing of a member.
LEMMA MemberKnowsNothing ==
  ASSUME NEW e, e.pc \in AddingFriend \cup DeletingFriend \cup {"idle", "add", "put", "join", "remove", "invite", "create", "delete"}
  PROVE  e.pc \notin Writing \cup Granting \cup Restoring \cup Removing \cup {"m_get", "m_revoke"}
BY DEF AddingFriend, DeletingFriend, Writing, Granting, Restoring, Removing

\* A step of a call on the friendship keeps the invariant of the group.
LEMMA FriendKeepsGroup ==
  ASSUME StoresTyped, Shaped, GroupInv, Orderly', NEW c \in Handlers, CallAction(c), Kind(c) \in FriendKinds
  PROVE  GroupInv'
<1>0. /\ HandlerStep(c) /\ OthersStay(c) /\ Shaped' /\ StoresTyped' /\ SameGroup /\ \A p \in Peers : SameMember(p)
  BY EveryCallStep, EveryShape, FriendsOrNot DEF HandlerStep, OthersStay
<1>1. clash' = clash /\ (faults > 0 => faults' > 0)
  BY <1>0, SocialAssumption DEF HandlerStep, Quiet, Failed, StoresTyped
<1>2. call[c].pc \in AddingFriend \cup DeletingFriend \cup FriendKinds
  <2>1. SameGroup
    BY <1>0
  <2>2. AddFriendCheck(c) \/ AddFriendWorkspace(c) \/ AddFriendRows(c) \/ DeleteFriend(c)
    BY FriendsOrNot DEF FriendKinds
  <2>3. QED
    BY <2>2 DEF AddFriendCheck, AddFriendWorkspace, AddFriendRows, DeleteFriend, MakeWorkspace, Write, Read, ReadInto, At,
       AddingFriend, DeletingFriend, FriendKinds
<1>3. ~HalfWay(c)
  BY <1>2 DEF HalfWay, AddingFriend, DeletingFriend, FriendKinds, Granting, Restoring
<1>4. Kind(c)' \notin {"create", "delete"} /\ MemberKnows(c)'
  <2>1. CASE call'[c] = Idle
    BY <2>1, IdleFacts DEF MemberKnows, Kind, Writing, Granting, Restoring, Removing, None
  <2>2. CASE call'[c].req = call[c].req
    <3>1. KindAtLabel(call[c])' /\ Kind(c)' \in FriendKinds
      BY <1>0, <2>2 DEF Shaped, Kind
    <3>2. call'[c].pc \notin Writing \cup Granting \cup Restoring \cup Removing \cup {"m_get", "m_revoke"}
      BY <3>1 DEF KindAtLabel, Kind, FriendKinds
    <3>3. QED
      BY <3>1, <3>2 DEF MemberKnows, Kind, FriendKinds, Writing, Granting, Restoring, Removing
  <2>3. QED
    BY <1>0, <2>1, <2>2 DEF HandlerStep
<1>5. db'.token => HasGroup /\ db.token
  BY <1>0 DEF SameGroup, GroupInv, TokenGrouped
<1>6. Kind(c) \notin {"create", "delete"}
  BY DEF FriendKinds
<1>7. db'.group = db.group /\ ("group" \in db'.ws <=> "group" \in db.ws)
  BY <1>0 DEF SameGroup
<1>8. QED
  BY <1>0, <1>1, <1>3, <1>4, <1>5, <1>6, <1>7, GroupAsBefore

\* A call of the group beside another one.
LEMMA OtherGroupCalls ==
  ASSUME Shaped, ClashKnown, Creation, clash # "mixed", NEW c \in Busy, Kind(c) \notin FriendKinds,
         NEW x \in Handlers \ {c}
  PROVE  /\ Kind(c) # "create" => Kind(x) # "create"
         /\ Kind(x) # "delete"
         /\ Kind(c) = "delete" => Kind(x) \in FriendKinds \cup {None}
         /\ About(x) = About(c) /\ Kind(x) \notin FriendKinds \cup {None} =>
              clash # None /\ Kind(x) = "join" /\ Kind(c) = "join"
<1>1. CASE x \notin Busy
  BY <1>1, IdleFacts DEF Busy, Kind, None
<1>2. CASE x \in Busy
  <2>1. Kind(x) = "create" => Kind(c) \in FriendKinds
    BY <1>2 DEF Creation
  <2>2. SameSubject(call[c].req, call[x].req) => clash # None /\ SameAddition(call[c].req, call[x].req)
    BY <1>2 DEF ClashKnown
  <2>3. SameSubject(call[c].req, call[x].req) => clash # None /\ Kind(x) = "join" /\ Kind(c) = "join"
    BY <2>2 DEF SameAddition, Kind, FriendKinds
  <2>4. Kind(x) \notin FriendKinds /\ (Kind(x) = "delete" \/ Kind(c) = "delete" \/ About(x) = About(c)) =>
          SameSubject(call[c].req, call[x].req)
    BY DEF SameSubject, Kind, About
  <2>5. QED
    BY <2>1, <2>3, <2>4 DEF FriendKinds
<1>3. QED
  BY <1>1, <1>2

\* An invitation keeps the invariant of the group.
LEMMA InviteKeepsGroup ==
  ASSUME StoresTyped, Shaped, ClashKnown, Creation, GroupInv, Orderly, NEW c \in Handlers, Invite(c)
  PROVE  GroupInv'
<1>0. /\ HandlerStep(c) /\ OthersStay(c) /\ StoresTyped' /\ \A p \in Peers : SameMember(p)
      /\ db'.group = db.group /\ db'.ws = db.ws /\ c \in Busy
  BY EveryCallStep, InviteEffect, FriendsOrNot DEF HandlerStep, OthersStay, CallAction
<1>1. clash' = clash /\ (faults > 0 => faults' > 0) /\ clash # "mixed"
  BY <1>0, SocialAssumption DEF HandlerStep, Quiet, Failed, StoresTyped, Orderly, None
<1>2. Kind(c) = "invite"
  BY ActionKinds
<1>3. call[c].pc \in {"invite", "n_token"}
  BY DEF Invite, Read, ReadInto, Write, At
<1>4. MemberKnows(c)
  BY <1>2 DEF GroupInv, MembersKnow
<1>5. ~HalfWay(c)
  BY <1>2, <1>3 DEF HalfWay, Granting, Restoring
<1>6. \A x \in Handlers \ {c} : Kind(x) # "delete"
  BY <1>0, <1>1, <1>2, OtherGroupCalls DEF FriendKinds
<1>7. Who(c) \in Peers /\ {"idle", "n_token"} \subseteq HandlerSteps
  BY CallTypes DEF HandlerSteps
<1>s. db.group <=> "group" \in db.ws
  <2>1. \A x \in Handlers \ {c} : Kind(x) # "create"
    BY <1>0, <1>1, <1>2, OtherGroupCalls DEF FriendKinds
  <2>2. QED
    BY <1>2, <1>6, <2>1 DEF GroupInv, RecordHasSpace
<1>8. CASE Read(c, "invite", IF MayInvite(c) THEN "n_token" ELSE "idle")
  <2>1. db' = db /\ (Moved(c, "idle") \/ (Moved(c, "n_token") /\ HasGroup))
    <3>1. MayInvite(c) => HasGroup
      BY <1>7, <1>s DEF MayInvite, GroupInv, MembersGrouped, HasGroup, None
    <3>2. QED
      BY <1>7, <1>8, <3>1, ReadMoves
  <2>2. MemberKnows(c)' /\ Kind(c)' \notin {"create", "delete"}
    BY <1>2, <2>1, IdleFacts DEF Moved, MemberKnows, Kind, Writing, Granting, Restoring, Removing, HasGroup, None
  <2>3. db'.token => HasGroup
    BY <2>1 DEF GroupInv, TokenGrouped
  <2>4. QED
    BY <1>0, <1>1, <1>2, <1>5, <1>6, <2>2, <2>3, GroupAsBefore
<1>9. CASE Write(c, "n_token", [db EXCEPT !.token = TRUE], "idle", "idle")
  <2>1. call[c].pc = "n_token" /\ Moved(c, "idle")
    BY <1>0, <1>7, <1>9, WriteMoves
  <2>2. MemberKnows(c)' /\ Kind(c)' \notin {"create", "delete"}
    BY <2>1, IdleFacts DEF Moved, MemberKnows, Kind, Writing, Granting, Restoring, Removing, None
  <2>3. HasGroup
    BY <1>2, <1>4, <2>1 DEF MemberKnows, Kind
  <2>4. QED
    BY <1>0, <1>1, <1>2, <1>5, <1>6, <2>2, <2>3, GroupAsBefore
<1>10. QED
  BY <1>8, <1>9 DEF Invite

\* An arrival keeps the invariant of the group: a new call knows nothing yet.
LEMMA ReceiveGroup ==
  ASSUME StoresTyped, Shaped, ClashKnown, Creation, GroupInv, Orderly', NEW c \in Handlers, NEW r \in Asked, Receive(c, r)
  PROVE  GroupInv'
<1>0. /\ StoresTyped' /\ call[c] = Idle /\ OthersStay(c) /\ call'[c].req = r /\ call'[c].pc = r.kind /\ db' = db
      /\ faults' = faults /\ r.kind \in RequestKinds /\ SameGroup /\ \A p \in Peers : SameMember(p)
  BY ReceiveFacts, SameIfUnchanged DEF Asked, Request
<1>1. (clash' = None => clash = None) /\ clash' # "mixed"
  BY ReceiveOrderly DEF Orderly, None
<1>2. Kind(c) = None /\ call[c].pc = "idle"
  BY <1>0, IdleFacts DEF Kind
<1>3. ~HalfWay(c)
  BY <1>2 DEF HalfWay, Granting, Restoring, None
<1>4. Kind(c)' = r.kind
  BY <1>0 DEF Kind
<1>5. Kind(c)' \notin {"create", "delete"} => MemberKnows(c)'
  BY <1>0 DEF RequestKinds, MemberKnows, Writing, Granting, Restoring, Removing
<1>6. Kind(c)' = "create" => CreateKnows(c)'
  <2>1. SUFFICES ASSUME Kind(c)' = "create"
                 PROVE  CreateKnows(c)'
    OBVIOUS
  <2>2. r.kind = "create" /\ NoGroup
    BY <1>4, <2>1 DEF Receive, Creation
  <2>3. QED
    BY <1>0, <2>2, SocialAssumption DEF CreateKnows, NoGroup, NoMember, Writing
<1>7. Kind(c)' = "delete" => DeleteKnows(c)'
  <2>1. SUFFICES ASSUME Kind(c)' = "delete"
                 PROVE  DeleteKnows(c)'
    OBVIOUS
  <2>2. r.kind = "delete" /\ \A d \in Busy : Kind(d) # "create"
    BY <1>4, <2>1 DEF Receive, FriendKinds
  <2>3. \A d \in Busy : Kind(d) # "delete"
    <3>1. SUFFICES ASSUME NEW d \in Busy, Kind(d) = "delete"
                   PROVE  FALSE
      OBVIOUS
    <3>2. ClashKnown'
      BY ReceiveClash
    <3>3. d # c /\ call'[d] = call[d] /\ d \in Busy' /\ c \in Busy'
      BY <1>0, <2>2, IdleFacts DEF Busy, OthersStay, None
    <3>4. SameSubject(call'[c].req, call'[d].req) /\ ~SameAddition(call'[c].req, call'[d].req)
      BY <1>0, <2>2, <3>1, <3>3 DEF SameSubject, SameAddition, Kind, FriendKinds
    <3>5. QED
      BY <1>1, <3>2, <3>3, <3>4 DEF ClashKnown
  <2>4. \A d \in Handlers : Kind(d) \notin {"create", "delete"}
    BY <2>2, <2>3, IdleFacts DEF Busy, Kind, None
  <2>5. db.group <=> "group" \in db.ws
    BY <2>4 DEF GroupInv, RecordHasSpace
  <2>6. QED
    BY <1>0, <2>2, <2>5 DEF DeleteKnows, Deleting
<1>8. db'.token => HasGroup /\ db.token
  BY <1>0 DEF GroupInv, TokenGrouped
<1>9. QED
  BY <1>0, <1>1, <1>2, <1>3, <1>5, <1>6, <1>7, <1>8, GroupAsBefore DEF SameGroup, None

\* The end of an invitation keeps the invariant of the group.
LEMMA TokenGoneGroup ==
  ASSUME StoresTyped, GroupInv, TokenGone
  PROVE  GroupInv'
<1>1. /\ ~db'.token /\ db'.ws = db.ws /\ db'.bind = db.bind /\ db'.group = db.group
      /\ db'.members = db.members /\ db'.belongs = db.belongs /\ call' = call /\ clash' = clash /\ faults' = faults
      /\ StoresTyped'
  BY TokenGoneFacts
<1>2. /\ \A p \in Peers : SameMember(p) /\ (LeftAlone(p)' <=> LeftAlone(p)) /\ (MemberAgrees(p)' <=> MemberAgrees(p))
      /\ HasGroup' <=> HasGroup
      /\ \A x \in Handlers : Kind(x)' = Kind(x) /\ About(x) \in Peers
  BY <1>1, CallTypes DEF SameMember, LeftAlone, MemberAgrees, HasGroup, Kind, About, HalfWay
<1>3. Owner \in Peers
  BY SocialAssumption
<1>4. MembersKnow'
  BY <1>1, <1>2, MemberKnowsStill DEF GroupInv, MembersKnow
<1>5. CreatorsKnow'
  BY <1>1, <1>2, <1>3, CreateKnowsStill DEF GroupInv, CreatorsKnow
<1>6. DeletersKnow'
  BY <1>1, <1>2, DeleteKnowsStill DEF GroupInv, DeletersKnow
<1>7. QED
  BY <1>1, <1>2, <1>4, <1>5, <1>6 DEF GroupInv, MembersGrouped, TokenGrouped, RecordHasSpace, MembersSettled

\* A member's call that does not make the group.
LEMMA MemberKeepsGroup ==
  ASSUME StoresTyped, Shaped, FaultsSeen, ClashKnown, Creation, GroupInv, Orderly',
         NEW c \in Handlers, MemberAction(c), Kind(c) # "create"
  PROVE  GroupInv'
<1>p. PICK p \in Peers : p = About(c)
  BY CallTypes
<1>0. /\ HandlerStep(c) /\ OthersStay(c) /\ StoresTyped' /\ c \in Busy /\ p \in Peers
      /\ SameGroup /\ \A q \in Peers \ {p} : SameMember(q)
  BY <1>p, EveryCallStep, FriendsOrNot, MemberEffect, CallTypes DEF HandlerStep, OthersStay, CallAction, MemberAction
<1>1. /\ clash' = clash /\ clash # "mixed" /\ Orderly
      /\ Failed(c) => clash = None /\ call[c].pc \notin Rollbacks
  <2>1. Orderly /\ clash' = clash
    BY <1>0, OrderlyBefore
  <2>2. NoFault => ~Failed(c)
    BY SocialAssumption DEF NoFault, Failed, StoresTyped
  <2>3. QED
    BY <1>0, <2>1, <2>2, OrderlyBefore DEF Orderly, None
<1>2. faults' \in Nat /\ faults \in Nat /\ faults' >= faults /\ (Failed(c) => faults' > 0)
  BY <1>0, SocialAssumption DEF HandlerStep, Failed, StoresTyped
<1>3. Kind(c) \in {"add", "put", "join", "remove"} /\ Kind(c) \notin FriendKinds
  BY ActionKinds DEF FriendKinds
<1>4. MemberKnows(c)
  BY <1>3 DEF GroupInv, MembersKnow
<1>5. ASSUME NEW x \in Handlers \ {c}
      PROVE  /\ Kind(x) \notin {"create", "delete"}
             /\ About(x) = p /\ Kind(x) \notin FriendKinds \cup {None} => ~Alone(c) /\ Kind(x) = "join"
  BY <1>p, <1>0, <1>1, <1>3, OtherGroupCalls DEF Alone
<1>6. ASSUME NEW x \in Handlers, Kind(x) \in FriendKinds \cup {None}
      PROVE  ~HalfWay(x) /\ call[x].pc \notin Writing \cup Granting \cup Restoring \cup Removing \cup {"m_get", "m_revoke"}
  <2>1. KindAtLabel(call[x]) /\ (Kind(x) = None => call[x].pc = "idle")
    BY DEF Shaped, KindAtLabel, Kind
  <2>2. call[x].pc \notin Writing \cup Granting \cup Restoring \cup Removing \cup {"m_get", "m_revoke"}
    BY <1>6, <2>1 DEF KindAtLabel, Kind, FriendKinds, Writing, Granting, Restoring, Removing, None
  <2>3. QED
    BY <1>6, <2>2 DEF HalfWay, FriendKinds, Writing, Removing, None
<1>7. Alone(c) => HalfWay(c) \/ MemberAgrees(p)
  <2>1. SUFFICES ASSUME Alone(c), ~HalfWay(c)
                 PROVE  MemberAgrees(p)
    OBVIOUS
  <2>2. LeftAlone(p)
    BY <1>p, <1>3, <1>5, <1>6, <2>1 DEF LeftAlone
  <2>3. QED
    BY <1>0, <2>2 DEF GroupInv, MembersSettled
<1>8. call[c].pc \in AfterFault \cup Restoring => clash = None
  <2>1. call[c].pc \in AfterFault \cup Restoring => faults > 0
    BY <1>4 DEF FaultsSeen, MemberKnows
  <2>2. QED
    BY <1>1, <2>1 DEF Orderly
<1>r. db.group <=> "group" \in db.ws
  BY <1>3, <1>5 DEF GroupInv, RecordHasSpace
<1>9. Ready(c, p)
  BY <1>p, <1>0, <1>1, <1>2, <1>3, <1>4, <1>7, <1>8, <1>r DEF Ready, Shaped, GroupInv, NoFault
<1>10. Good(c, p)
  BY <1>9, MemberGood
<1>12. HasGroup' <=> HasGroup
  BY <1>0 DEF SameGroup, HasGroup
<1>13. ASSUME NEW x \in Handlers \ {c}
       PROVE  /\ call'[x] = call[x] /\ Kind(x)' = Kind(x) /\ About(x)' = About(x) /\ (HalfWay(x)' <=> HalfWay(x))
              /\ MemberKnows(x)'
  <2>1. call'[x] = call[x] /\ Kind(x)' = Kind(x) /\ About(x)' = About(x) /\ (HalfWay(x)' <=> HalfWay(x))
    BY <1>0 DEF OthersStay, Kind, About, HalfWay
  <2>2. MemberKnows(x)
    BY <1>5 DEF GroupInv, MembersKnow
  <2>3. CASE About(x) # p
    BY <1>0, <1>1, <1>2, <1>12, <2>1, <2>2, <2>3, CallTypes, MemberKnowsStill
  <2>4. CASE Kind(x) \in FriendKinds \cup {None}
    BY <1>6, <2>1, <2>4 DEF MemberKnows, Writing, Granting, Restoring, Removing, Kind, FriendKinds, None
  <2>5. CASE About(x) = p /\ Kind(x) \notin FriendKinds \cup {None}
    <3>1. /\ Kind(x) = "join" /\ ~Alone(c) /\ clash' # None
          /\ db'.members[p] \in {db.members[p], "member"} /\ db'.belongs[p] \in {db.belongs[p], "member"}
          /\ p \in db.bind["group"] => p \in db'.bind["group"]
      BY <1>1, <1>5, <1>10, <1>p, <2>5 DEF Good, Alone
    <3>2. call[x].pc \in Writing \cup Granting \cup {"m_get", "m_revoke"} => call[x].role = "member"
      BY <3>1 DEF Shaped, RequestFits, Kind
    <3>3. ~Alone(x)'
      BY <2>1, <3>1 DEF Alone
    <3>4. call[x].pc \notin Removing
      BY <3>1 DEF Shaped, KindAtLabel, Kind
    <3>5. /\ call[x].pc \in {"m_belong", "m_get"} \cup Granting => db'.members[p] = call[x].role
          /\ call[x].pc \in {"m_get"} \cup Granting => db'.belongs[p] = call[x].role
      BY <2>2, <2>5, <3>1, <3>2 DEF MemberKnows, Writing
    <3>6. QED
      BY <1>2, <1>12, <2>1, <2>2, <2>5, <3>1, <3>3, <3>4, <3>5 DEF MemberKnows, Removing
  <2>6. QED
    BY <2>3, <2>4, <2>5
<1>14. /\ call'[c] = Idle \/ (Kind(c)' = Kind(c) /\ About(c)' = p)
       /\ Kind(c)' \notin {"create", "delete"}
  BY <1>0, <1>3, <1>p, IdleFacts DEF HandlerStep, Kind, About, None
<1>15. MembersKnow'
  BY <1>10, <1>13 DEF MembersKnow, Good
<1>16. CreatorsKnow' /\ DeletersKnow'
  BY <1>5, <1>13, <1>14 DEF CreatorsKnow, DeletersKnow
<1>17. MembersGrouped'
  BY <1>0, <1>10, <1>p, <1>12 DEF MembersGrouped, GroupInv, Good, SameMember
<1>18. TokenGrouped'
  BY <1>0, <1>12 DEF TokenGrouped, GroupInv, SameGroup
<1>19. RecordHasSpace'
  <2>1. \A x \in Handlers : Kind(x) \notin {"create", "delete"}
    BY <1>3, <1>5
  <2>2. QED
    BY <1>0, <2>1 DEF RecordHasSpace, GroupInv, SameGroup
<1>20. MembersSettled'
  <2>1. SUFFICES ASSUME NEW q \in Peers, LeftAlone(q)'
                 PROVE  MemberAgrees(q)'
    BY DEF MembersSettled
  <2>2. \A x \in Handlers \ {c} : /\ Kind(x) = "delete" => call[x].pc \in {"delete", "e_list", "e_members"}
                                  /\ About(x) = q => ~HalfWay(x)
    BY <1>13, <2>1 DEF LeftAlone
  <2>3. ASSUME q # p \/ ~HalfWay(c)
        PROVE  MemberAgrees(q)
    <3>1. LeftAlone(q)
      BY <1>3, <1>p, <2>2, <2>3 DEF LeftAlone
    <3>2. QED
      BY <3>1 DEF GroupInv, MembersSettled
  <2>4. CASE q # p
    BY <1>0, <1>p, <2>3, <2>4 DEF MemberAgrees, SameMember
  <2>5. CASE q = p
    <3>1. ~HalfWay(c)'
      <4>1. CASE call'[c] = Idle
        BY <4>1, IdleFacts DEF HalfWay, Granting, Restoring, Kind, None
      <4>2. CASE About(c)' = p
        BY <2>1, <2>5, <4>2 DEF LeftAlone
      <4>3. QED
        BY <1>14, <4>1, <4>2
    <3>2. MemberAgrees(p)' \/ (~HalfWay(c) /\ SameMember(p))
      BY <1>10, <3>1 DEF Good
    <3>3. CASE ~HalfWay(c) /\ SameMember(p)
      <4>1. MemberAgrees(q)
        BY <2>3, <3>3
      <4>2. QED
        BY <2>5, <3>3, <4>1 DEF MemberAgrees, SameMember
    <3>4. CASE MemberAgrees(p)'
      BY <2>5, <3>4 DEF MemberAgrees
    <3>5. QED
      BY <3>2, <3>3, <3>4
  <2>6. QED
    BY <2>4, <2>5
<1>21. QED
  BY <1>15, <1>16, <1>17, <1>18, <1>19, <1>20 DEF GroupInv

\* The making of the group.
CreateGood(c) ==
  \/ /\ call'[c] = Idle /\ MemberAgrees(Owner)'
     /\ db'.group <=> "group" \in db'.ws
     /\ db'.members[Owner] # None => HasGroup'
  \/ call'[c].req = call[c].req /\ CreateKnows(c)'

LEMMA CreateReturns ==
  ASSUME StoresTyped, NEW c \in Handlers, call'[c] = Idle,
         db'.belongs[Owner] = db'.members[Owner], Owner \in db'.bind["group"] <=> db'.members[Owner] # None,
         db'.group <=> "group" \in db'.ws, db'.members[Owner] # None => db'.group
  PROVE  CreateGood(c)
BY DEF CreateGood, MemberAgrees, HasGroup

\* The member's record of the owner is written, or taken back, while the group is made.
LEMMA OwnerGood ==
  ASSUME StoresTyped, Shaped, NEW c \in Handlers, Kind(c) = "create", CreateKnows(c), WriteMember(c),
         Failed(c) => call[c].pc \notin Rollbacks
  PROVE  CreateGood(c)
<1>0. /\ Owner \in Peers /\ About(c) = Owner /\ None \in Roles \cup {None} /\ "owner" \in Roles \cup {None}
      /\ {"idle", "m_belong", "i_member", "i_belong", "g_undo"} \subseteq HandlerSteps /\ None # "owner"
      /\ SameGroup
  BY SocialAssumption, MemberEffect DEF Shaped, RequestFits, Kind, About, Roles, HandlerSteps, None, MemberAction
<1>1. call[c].pc \in Writing
  BY DEF WriteMember, ReadInto, Write, At, Writing
<1>2. call[c].role = "owner" /\ MemberFailed(c) = "g_undo" /\ AfterMember(c) = "idle"
  BY <1>1 DEF Shaped, RequestFits, Kind, MemberFailed, AfterMember
<1>3. /\ ~ByAdmin(c)
      /\ Owner \in db.bind["group"] /\ db.group /\ "group" \in db.ws /\ db'.group /\ "group" \in db'.ws
      /\ db.belongs[Owner] = None
      /\ call[c].pc # "m_read" => ~call[c].found /\ Undone(c) = None
  BY <1>0, <1>1 DEF CreateKnows, Writing, Undone, SameGroup
<1>m. db.members[Owner] = (IF call[c].pc \in {"m_belong", "i_member"} THEN "owner" ELSE None)
  BY DEF CreateKnows
<1>g. ASSUME NEW l, Moved(c, l), l \in Writing \cup {"g_undo"}, l # "idle", l # "m_read", call[c].pc # "m_read",
             l \in Writing => Owner \in db'.bind["group"],
             db'.belongs[Owner] = None,
             db'.members[Owner] = (IF l \in {"m_belong", "i_member"} THEN "owner" ELSE None)
      PROVE  CreateGood(c)
  BY <1>3, <1>g DEF CreateGood, CreateKnows, Moved, Writing, ByAdmin
<1>4. CASE ReadInto(c, "m_read", "m_member", [call[c] EXCEPT !.found = db.members[About(c)] # None])
  <2>1. /\ call[c].pc = "m_read" /\ db' = db /\ call'[c].pc = "m_member" /\ call'[c].req = call[c].req
        /\ call'[c].found = (db.members[Owner] # None)
    BY <1>0, <1>4, FindFacts
  <2>2. CreateKnows(c)'
    BY <1>3, <1>m, <2>1 DEF CreateKnows, Writing, ByAdmin
  <2>3. QED
    BY <2>1, <2>2 DEF CreateGood
<1>5. CASE Write(c, "m_member", Member(About(c), call[c].role), "m_belong", MemberFailed(c))
  <2>1. CASE db' = Member(Owner, "owner") /\ Moved(c, "m_belong") /\ call[c].pc = "m_member"
    <3>1. db'.members[Owner] = "owner" /\ db'.belongs[Owner] = None /\ db'.bind = db.bind
      BY <1>0, <1>3, <2>1, MyMember
    <3>2. QED
      BY <1>3, <1>g, <2>1, <3>1 DEF Writing
  <2>2. CASE db' = db /\ Moved(c, "g_undo") /\ call[c].pc = "m_member"
    BY <1>3, <1>m, <1>g, <2>2 DEF Writing
  <2>3. QED
    BY <1>0, <1>2, <1>5, <2>1, <2>2, WriteMoves
<1>6. CASE Write(c, "m_belong", Belong(About(c), call[c].role), AfterMember(c), "i_member")
  <2>1. CASE db' = Belong(Owner, "owner") /\ Moved(c, "idle") /\ call[c].pc = "m_belong"
    <3>1. db'.belongs[Owner] = "owner" /\ db'.members[Owner] = "owner" /\ db'.bind = db.bind
      BY <1>0, <1>m, <2>1, MyBelong
    <3>2. call'[c] = Idle
      BY <2>1 DEF Moved
    <3>3. QED
      BY <1>0, <1>3, <3>1, <3>2, CreateReturns
  <2>2. CASE db' = db /\ Moved(c, "i_member") /\ call[c].pc = "m_belong"
    BY <1>3, <1>m, <1>g, <2>2 DEF Writing
  <2>3. QED
    BY <1>0, <1>2, <1>6, <2>1, <2>2, WriteMoves
<1>r. {"i_member", "i_belong"} \subseteq Rollbacks
  BY DEF Rollbacks
<1>7. CASE Write(c, "i_member", Member(About(c), Undone(c)), "i_belong", "i_belong")
  <2>0. call[c].pc = "i_member" /\ Undone(c) = None
    BY <1>3, <1>7 DEF Write, At
  <2>1. db' = Member(Owner, None) /\ Moved(c, "i_belong")
    BY <1>0, <1>7, <1>r, <2>0, WriteMoves
  <2>2. db'.members[Owner] = None /\ db'.belongs[Owner] = None /\ db'.bind = db.bind
    BY <1>0, <1>3, <2>1, MyMember
  <2>3. QED
    BY <1>3, <1>g, <2>0, <2>1, <2>2 DEF Writing
<1>8. CASE Write(c, "i_belong", Belong(About(c), Undone(c)), MemberFailed(c), MemberFailed(c))
  <2>0. call[c].pc = "i_belong" /\ Undone(c) = None
    BY <1>3, <1>8 DEF Write, At
  <2>1. db' = Belong(Owner, None) /\ Moved(c, "g_undo")
    BY <1>0, <1>2, <1>8, <1>r, <2>0, WriteMoves
  <2>2. db'.members[Owner] = None /\ db'.belongs[Owner] = None /\ db'.bind = db.bind
    BY <1>0, <1>m, <2>0, <2>1, MyBelong
  <2>3. QED
    BY <1>3, <1>g, <2>0, <2>1, <2>2 DEF Writing
<1>9. QED
  BY <1>4, <1>5, <1>6, <1>7, <1>8 DEF WriteMember

\* The other steps of CreateFriendGroup and its rollback.
LEMMA MadeGood ==
  ASSUME StoresTyped, Shaped, NEW c \in Handlers, Kind(c) = "create", CreateKnows(c), CreateGroup(c),
         Failed(c) => call[c].pc \notin Rollbacks
  PROVE  CreateGood(c)
<1>0. /\ Owner \in Peers /\ Who(c) = Owner /\ db \in Stores /\ "group" \in Chats
      /\ TRUE \in BOOLEAN /\ FALSE \in BOOLEAN /\ "owner" \in Roles
      /\ {"idle", "g_grant", "g_record", "g_owner", "g_undo", "g_undo2", "g_undo3"} \subseteq HandlerSteps
  BY SocialAssumption, CreateEffect DEF StoresTyped, Chats, Roles, HandlerSteps
<1>1. /\ db.belongs[Owner] = None
      /\ call[c].pc \in Creating => db.members[Owner] = None
      /\ "group" \in db.ws <=> call[c].pc \notin {"create", "g_undo2", "g_undo3"}
  BY DEF CreateKnows, Creating
<1>o. ForOwner(c, "g_grant", "g_record") \in {"g_grant", "g_record"} /\ (ByAdmin(c) => ForOwner(c, "g_grant", "g_record") = "g_record")
      /\ (~ByAdmin(c) => ForOwner(c, "g_grant", "g_record") = "g_grant")
  BY DEF ForOwner
<1>2. CASE MakeWorkspace(c, "create", "group", ForOwner(c, "g_grant", "g_record"))
  <2>0. /\ call[c].pc = "create" /\ "create" # "idle"
        /\ ForOwner(c, "g_grant", "g_record") # "idle" /\ ForOwner(c, "g_grant", "g_record") \in HandlerSteps
    BY <1>0, <1>o, <1>2 DEF MakeWorkspace, At
  <2>1. db.members[Owner] = None /\ Owner \notin db.bind["group"] /\ ~db.group /\ "group" \notin db.ws
    BY <1>1, <2>0 DEF CreateKnows, Creating
  <2>2. CASE /\ db' = [db EXCEPT !.ws = @ \cup {"group"}]
             /\ call'[c].pc = ForOwner(c, "g_grant", "g_record") /\ call'[c].req = call[c].req
    <3>1. /\ db'.ws = db.ws \cup {"group"} /\ db'.bind = db.bind /\ db'.group = db.group
          /\ db'.members = db.members /\ db'.belongs = db.belongs
      BY <1>0, <2>2, WorkspaceFacts
    <3>2. CreateKnows(c)'
      BY <1>1, <1>o, <2>1, <2>2, <3>1 DEF CreateKnows, Writing, ByAdmin
    <3>3. QED
      BY <2>2, <3>2 DEF CreateGood
  <2>3. CASE Failed(c) /\ GoesOn(c, "idle", call[c])
    BY <1>1, <2>1, <2>3, CreateReturns DEF Failed, GoesOn
  <2>4. PICK l : l = ForOwner(c, "g_grant", "g_record")
    OBVIOUS
  <2>5. \/ /\ db' = [db EXCEPT !.ws = @ \cup {"group"}]
           /\ call'[c].pc = l /\ call'[c].req = call[c].req
        \/ Failed(c) /\ GoesOn(c, "idle", call[c])
    <3>1. MakeWorkspace(c, "create", "group", l) /\ l # "idle" /\ l \in HandlerSteps /\ "create" # "idle"
      BY <1>2, <2>0, <2>4
    <3>2. "group" \in Chats
      BY DEF Chats
    <3>3. QED
      BY <1>0, <3>1, <3>2, MakeWorkspaceFacts
  <2>6. QED
    BY <2>2, <2>3, <2>4, <2>5
<1>f. ASSUME NEW at \in {"g_grant", "g_record"}, call[c].pc = at, db' = db, Moved(c, "g_undo")
      PROVE  CreateGood(c)
  <2>1. CreateKnows(c)' /\ call'[c].req = call[c].req
    BY <1>1, <1>f DEF CreateKnows, Moved, Writing, Creating, ByAdmin
  <2>2. QED
    BY <2>1 DEF CreateGood
<1>3. CASE Write(c, "g_grant", Granted("group", Who(c)), "g_record", "g_undo")
  <2>1. CASE db' = Granted("group", Owner) /\ Moved(c, "g_record") /\ call[c].pc = "g_grant"
    <3>1. /\ db'.bind["group"] = db.bind["group"] \cup {Owner} /\ db'.ws = db.ws /\ db'.group = db.group
          /\ db'.members = db.members /\ db'.belongs = db.belongs
      BY <1>0, <2>1, GrantedFacts
    <3>2. CreateKnows(c)' /\ call'[c].req = call[c].req
      BY <1>1, <2>1, <3>1 DEF CreateKnows, Moved, Writing, Creating, ByAdmin
    <3>3. QED
      BY <3>2 DEF CreateGood
  <2>2. QED
    BY <1>0, <1>3, <1>f, <2>1, WriteMoves
<1>4. CASE Write(c, "g_record", [db EXCEPT !.group = TRUE], ForOwner(c, "g_owner", "idle"), "g_undo")
  <2>0. /\ ForOwner(c, "g_owner", "idle") \in HandlerSteps
        /\ ForOwner(c, "g_owner", "idle") = IF ByAdmin(c) THEN "idle" ELSE "g_owner"
    BY <1>0 DEF ForOwner
  <2>3. CASE db' = [db EXCEPT !.group = TRUE] /\ Moved(c, "idle") /\ call[c].pc = "g_record" /\ ByAdmin(c)
    <3>1. db'.bind = db.bind /\ db'.ws = db.ws /\ db'.group /\ db'.members = db.members /\ db'.belongs = db.belongs
      BY <1>0, <2>3, RecordFacts
    <3>2. Owner \notin db.bind["group"] /\ "group" \in db.ws /\ db.members[Owner] = None
      BY <1>1, <2>3 DEF CreateKnows, Creating
    <3>3. QED
      BY <1>1, <2>3, <3>1, <3>2, CreateReturns DEF Moved
  <2>1. CASE db' = [db EXCEPT !.group = TRUE] /\ Moved(c, "g_owner") /\ call[c].pc = "g_record" /\ ~ByAdmin(c)
    <3>1. db'.bind = db.bind /\ db'.ws = db.ws /\ db'.group /\ db'.members = db.members /\ db'.belongs = db.belongs
      BY <1>0, <2>1, RecordFacts
    <3>2. CreateKnows(c)' /\ call'[c].req = call[c].req
      BY <1>1, <2>1, <3>1 DEF CreateKnows, Moved, Writing, Creating, ByAdmin
    <3>3. QED
      BY <3>2 DEF CreateGood
  <2>2. QED
    BY <1>0, <1>4, <1>f, <2>0, <2>1, <2>3, WriteMoves
<1>5. CASE ToWriteMember(c, "g_owner", "owner")
  <2>1. call[c].pc = "g_owner" /\ db' = db /\ call'[c].pc = "m_read" /\ call'[c].req = call[c].req
    BY <1>0, <1>5, ToWriteMemberFacts
  <2>2. CreateKnows(c)'
    BY <1>1, <2>1 DEF CreateKnows, Writing, Creating, ByAdmin
  <2>3. QED
    BY <2>1, <2>2 DEF CreateGood
<1>r. {"g_undo", "g_undo2", "g_undo3"} \subseteq Rollbacks
  BY DEF Rollbacks
<1>6. CASE Write(c, "g_undo", Without("group"), ForOwner(c, "g_undo2", "idle"), ForOwner(c, "g_undo2", "idle"))
  <2>0. /\ ForOwner(c, "g_undo2", "idle") \in HandlerSteps
        /\ ForOwner(c, "g_undo2", "idle") = IF ByAdmin(c) THEN "idle" ELSE "g_undo2"
    BY <1>0 DEF ForOwner
  <2>1. db' = Without("group") /\ Moved(c, ForOwner(c, "g_undo2", "idle")) /\ call[c].pc = "g_undo"
    BY <1>0, <1>6, <1>r, <2>0, WriteMoves
  <2>2. db'.bind = db.bind /\ db'.ws = db.ws \ {"group"} /\ db'.group = db.group /\ db'.members = db.members /\ db'.belongs = db.belongs
    BY <1>0, <2>1, WithoutFacts
  <2>3. CASE ByAdmin(c)
    <3>1. Owner \notin db.bind["group"] /\ ~db.group /\ db.members[Owner] = None
      BY <1>1, <2>1, <2>3 DEF CreateKnows, Creating
    <3>2. QED
      BY <1>1, <2>0, <2>1, <2>2, <2>3, <3>1, CreateReturns DEF Moved
  <2>4. CASE ~ByAdmin(c)
    <3>1. CreateKnows(c)' /\ call'[c].req = call[c].req
      BY <1>1, <2>0, <2>1, <2>2, <2>4 DEF CreateKnows, Moved, Writing, Creating, ByAdmin
    <3>2. QED
      BY <3>1 DEF CreateGood
  <2>5. QED
    BY <2>3, <2>4
<1>7. CASE Write(c, "g_undo2", Revoked("group", Who(c)), "g_undo3", "g_undo3")
  <2>1. db' = Revoked("group", Owner) /\ Moved(c, "g_undo3") /\ call[c].pc = "g_undo2"
    BY <1>0, <1>7, <1>r, WriteMoves
  <2>2. /\ db'.bind["group"] = db.bind["group"] \ {Owner} /\ db'.ws = db.ws /\ db'.group = db.group
        /\ db'.members = db.members /\ db'.belongs = db.belongs
    BY <1>0, <2>1, RevokedFacts
  <2>3. CreateKnows(c)' /\ call'[c].req = call[c].req
    BY <1>1, <2>1, <2>2 DEF CreateKnows, Moved, Writing, Creating, ByAdmin
  <2>4. QED
    BY <2>3 DEF CreateGood
<1>8. CASE Write(c, "g_undo3", [db EXCEPT !.group = FALSE], "idle", "idle")
  <2>1. db' = [db EXCEPT !.group = FALSE] /\ Moved(c, "idle") /\ call[c].pc = "g_undo3"
    BY <1>0, <1>8, <1>r, WriteMoves
  <2>2. db'.bind = db.bind /\ db'.ws = db.ws /\ ~db'.group /\ db'.members = db.members /\ db'.belongs = db.belongs
    BY <1>0, <2>1, RecordFacts
  <2>3. Owner \notin db.bind["group"]
    BY <2>1 DEF CreateKnows
  <2>4. QED
    BY <1>1, <2>1, <2>2, <2>3, CreateReturns DEF Moved, Creating
<1>9. QED
  BY <1>2, <1>3, <1>4, <1>5, <1>6, <1>7, <1>8 DEF CreateGroup

\* Making the group keeps the invariant of the group.
LEMMA CreateKeepsGroup ==
  ASSUME StoresTyped, Shaped, FaultsSeen, ClashKnown, Creation, GroupInv, Orderly',
         NEW c \in Handlers, CallAction(c), Kind(c) = "create"
  PROVE  GroupInv'
<1>0. /\ HandlerStep(c) /\ OthersStay(c) /\ c \in Busy /\ Owner \in Peers /\ About(c) = Owner
      /\ db'.token = db.token /\ \A p \in Peers \ {Owner} : SameMember(p)
      /\ CreateKnows(c)
  BY EveryCallStep, FriendsOrNot, SocialAssumption DEF HandlerStep, OthersStay, GroupInv, CreatorsKnow
<1>1. Failed(c) => call[c].pc \notin Rollbacks
  <2>1. NoFault => ~Failed(c)
    BY SocialAssumption DEF NoFault, Failed, StoresTyped
  <2>2. QED
    BY <1>0, <2>1, OrderlyBefore
<1>2. /\ ~db.token /\ \A p \in Peers : p # Owner => NoMember(p)
      /\ \A x \in Handlers \ {c} : Kind(x) \in FriendKinds \cup {None}
  BY <1>0, IdleFacts DEF Creation, Busy, Kind
<1>3. ASSUME NEW x \in Handlers \ {c}
      PROVE  /\ Kind(x)' \in FriendKinds \cup {None} /\ MemberKnows(x)'
  <2>1. call'[x] = call[x] /\ KindAtLabel(call[x]) /\ (Kind(x) = None => call[x].pc = "idle")
    BY <1>0 DEF OthersStay, Shaped, KindAtLabel, Kind
  <2>2. call[x].pc \notin Writing \cup Granting \cup Restoring \cup Removing \cup {"m_get", "m_revoke"}
    BY <1>2, <2>1 DEF KindAtLabel, Kind, FriendKinds, Writing, Granting, Restoring, Removing, None
  <2>3. QED
    BY <1>2, <2>1, <2>2 DEF MemberKnows, Kind, Writing, Granting, Restoring, Removing, FriendKinds, None
<1>4. CreateGood(c)
  <2>1. CreateGroup(c) \/ MemberAction(c)
    BY FriendsOrNot DEF FriendKinds
  <2>2. MemberAction(c) => WriteMember(c)
    <3>1. KindAtLabel(call[c])
      BY DEF Shaped
    <3>2. call[c].pc \in Writing \cup Creating \cup {"idle"} \/ ~MemberAction(c)
      BY <3>1 DEF MemberAction, WriteMember, GrantMember, RestoreMember, Join, AddMember, PutMember, RemoveMember, ToWriteMember,
     Write, Read, ReadInto, At, Writing, Granting, Restoring, Removing, KindAtLabel, Kind
    <3>3. QED
      BY <3>2 DEF MemberAction, GrantMember, RestoreMember, Join, AddMember, PutMember, RemoveMember, ToWriteMember,
     Write, Read, ReadInto, At, Writing, Creating
  <2>3. QED
    BY <1>0, <1>1, <2>1, <2>2, OwnerGood, MadeGood
<1>5. /\ \A p \in Peers \ {Owner} : MemberAgrees(p)' /\ db'.members[p] = None
      /\ ~db'.token
  BY <1>0, <1>2 DEF NoMember, SameMember, MemberAgrees
<1>6. CASE /\ call'[c] = Idle /\ MemberAgrees(Owner)'
           /\ db'.group <=> "group" \in db'.ws
           /\ db'.members[Owner] # None => HasGroup'
  <2>1. MemberKnows(c)' /\ Kind(c)' = None
    BY <1>6, IdleFacts DEF MemberKnows, Kind, Writing, Granting, Restoring, Removing, None
  <2>2. MembersKnow' /\ CreatorsKnow' /\ DeletersKnow'
    BY <1>3, <2>1 DEF MembersKnow, CreatorsKnow, DeletersKnow, FriendKinds, None
  <2>3. MembersGrouped' /\ TokenGrouped' /\ RecordHasSpace' /\ MembersSettled'
    BY <1>5, <1>6 DEF MembersGrouped, TokenGrouped, RecordHasSpace, MembersSettled
  <2>4. QED
    BY <2>2, <2>3 DEF GroupInv
<1>7. CASE call'[c].req = call[c].req /\ CreateKnows(c)'
  <2>1. Kind(c)' = "create" /\ About(c)' = Owner
    BY <1>0, <1>7 DEF Kind, About
  <2>2. MembersKnow' /\ CreatorsKnow' /\ DeletersKnow'
    BY <1>3, <1>7, <2>1 DEF MembersKnow, CreatorsKnow, DeletersKnow, FriendKinds, None
  <2>3. MembersGrouped'
    <3>1. db'.members[Owner] # None => HasGroup'
      BY <1>7 DEF CreateKnows, HasGroup, Writing
    <3>2. QED
      BY <1>5, <3>1 DEF MembersGrouped
  <2>4. RecordHasSpace' /\ TokenGrouped'
    BY <1>5, <2>1 DEF RecordHasSpace, TokenGrouped
  <2>5. MembersSettled'
    <3>1. ASSUME LeftAlone(Owner)'
          PROVE  MemberAgrees(Owner)'
      <4>1. call'[c].pc \in {"create", "g_grant"}
        BY <2>1, <3>1 DEF LeftAlone, HalfWay
      <4>2. QED
        BY <1>7, <4>1 DEF CreateKnows, MemberAgrees
    <3>2. QED
      BY <1>5, <3>1 DEF MembersSettled
  <2>6. QED
    BY <2>2, <2>3, <2>4, <2>5 DEF GroupInv
<1>8. QED
  BY <1>4, <1>6, <1>7 DEF CreateGood

\* The deletion of the group.
AllSettled == \A p \in Peers : MemberAgrees(p)
DeleteGood(c) ==
  /\ MembersGrouped' /\ TokenGrouped'
  /\ \/ call'[c] = Idle /\ AllSettled' /\ (db'.group <=> "group" \in db'.ws)
     \/ /\ call'[c].req = call[c].req /\ DeleteKnows(c)'
        /\ call'[c].pc \in {"delete", "e_list", "e_members"} => AllSettled'

\* What the deletion has found or made empty.
LEMMA EmptySettled ==
  ASSUME \A p \in Peers : db.members[p] = None, \A p \in Peers : db.belongs[p] = None, db.bind["group"] = {}
  PROVE  AllSettled
BY DEF AllSettled, MemberAgrees

\* What a deletion knows after each of its steps: what is left is on its lists.
LEMMA DeletedGood ==
  ASSUME StoresTyped, Shaped, NEW c \in Handlers, Kind(c) = "delete", DeleteKnows(c), DeleteGroup(c), ~Failed(c),
         MembersGrouped, TokenGrouped, call[c].pc = "delete" => (db.group <=> "group" \in db.ws),
         call[c].pc \in {"delete", "e_list", "e_members"} => AllSettled
  PROVE  DeleteGood(c)
<1>0. /\ Who(c) \in Peers /\ db \in Stores /\ "group" \in Chats /\ None \in Roles \cup {None} /\ FALSE \in BOOLEAN
      /\ {"idle", "e_list", "e_members", "e_belongs", "e_token", "e_bindings", "e_workspace", "e_record"} \subseteq HandlerSteps
      /\ "e_belongs" \in Sweeps /\ "e_bindings" \in Sweeps
      /\ call[c].list["e_belongs"] \subseteq Peers /\ db.bind["group"] \subseteq Peers
  BY CallTypes DEF StoresTyped, Chats, HandlerSteps, Sweeps, Stores
<1>w. ASSUME NEW at, NEW new, NEW ok \in HandlerSteps, Write(c, at, new, ok, "idle")
      PROVE  call[c].pc = at /\ db' = new /\ Moved(c, ok) /\ (ok # "idle" => call'[c].list = call[c].list)
  <2>1. call[c].pc = at /\ db' = new /\ Wrote(c, ok)
    BY <1>0, <1>w, WriteFacts
  <2>2. QED
    BY <2>1, IdleFacts DEF Wrote, GoesOn, Moved
<1>1. CASE Read(c, "delete", IF MayDelete(c) THEN "e_list" ELSE "idle")
  <2>1. /\ call[c].pc = "delete" /\ db' = db /\ AllSettled
        /\ Moved(c, "idle") \/ Moved(c, "e_list")
    BY <1>0, <1>1, ReadMoves
  <2>2. MembersGrouped' /\ TokenGrouped' /\ AllSettled' /\ (db'.group <=> "group" \in db'.ws) /\ (HasGroup => HasGroup')
    BY <2>1 DEF MembersGrouped, TokenGrouped, HasGroup, AllSettled, MemberAgrees
  <2>3. CASE Moved(c, "idle")
    BY <2>2, <2>3 DEF DeleteGood, Moved
  <2>4. CASE Moved(c, "e_list")
    <3>1. DeleteKnows(c)' /\ call'[c].req = call[c].req
      BY <2>2, <2>4 DEF Moved, DeleteKnows, Deleting
    <3>2. QED
      BY <2>2, <3>1 DEF DeleteGood
  <2>5. QED
    BY <2>1, <2>3, <2>4
<1>2. CASE db.group /\ ListMembers(c, "e_list", "e_members")
  <2>0. "e_list" # "idle" /\ "e_members" # "idle" /\ "e_members" \in HandlerSteps
    BY <1>0
  <2>1. /\ call[c].pc = "e_list" /\ db' = db /\ call'[c].pc = "e_members" /\ call'[c].req = call[c].req
        /\ \A s \in Sweeps : call'[c].list[s] = {p \in Peers : db.members[p] # None}
    BY <1>2, <2>0, ListMembersFacts
  <2>2. AllSettled /\ HasGroup /\ AllSettled' /\ HasGroup' /\ MembersGrouped' /\ TokenGrouped'
    BY <1>2, <2>1 DEF DeleteKnows, Deleting, MembersGrouped, TokenGrouped, HasGroup, AllSettled, MemberAgrees
  <2>3. /\ \A p \in Peers : db'.belongs[p] # None => p \in call'[c].list["e_belongs"]
        /\ db'.bind["group"] \subseteq call'[c].list["e_bindings"]
    BY <1>0, <2>1, <2>2 DEF AllSettled, MemberAgrees
  <2>4. DeleteKnows(c)'
    BY <2>1, <2>2, <2>3 DEF DeleteKnows, Deleting
  <2>5. QED
    BY <2>1, <2>2, <2>4 DEF DeleteGood
<1>3. CASE ~db.group /\ Read(c, "e_list", "idle")
  <2>1. /\ call[c].pc = "e_list" /\ db' = db /\ AllSettled /\ Moved(c, "idle")
    BY <1>0, <1>3, ReadMoves
  <2>2. MembersGrouped' /\ TokenGrouped' /\ AllSettled' /\ (db'.group <=> "group" \in db'.ws)
    BY <2>1 DEF DeleteKnows, MembersGrouped, TokenGrouped, HasGroup, AllSettled, MemberAgrees
  <2>3. QED
    BY <2>1, <2>2 DEF DeleteGood, Moved
<1>4. CASE Write(c, "e_members", [db EXCEPT !.members = [p \in Peers |-> None]], "e_belongs", "idle")
  <2>1. /\ call[c].pc = "e_members" /\ db' = [db EXCEPT !.members = [p \in Peers |-> None]]
        /\ Moved(c, "e_belongs") /\ call'[c].list = call[c].list
    BY <1>0, <1>4, <1>w
  <2>2. /\ db'.ws = db.ws /\ db'.bind = db.bind /\ db'.group = db.group /\ db'.token = db.token /\ db'.belongs = db.belongs
        /\ \A p \in Peers : db'.members[p] = None
    BY <1>0, <2>1, NobodyFacts
  <2>3. DeleteKnows(c)' /\ call'[c].req = call[c].req
    BY <2>1, <2>2 DEF Moved, DeleteKnows, Deleting, HasGroup
  <2>4. MembersGrouped' /\ TokenGrouped'
    BY <2>2 DEF MembersGrouped, TokenGrouped, HasGroup
  <2>5. QED
    BY <2>1, <2>3, <2>4 DEF DeleteGood, Moved
<1>5. CASE Sweep(c, "e_belongs", "e_token")
  <2>1. call[c].pc = "e_belongs"
    BY <1>0, <1>5, SweepFacts
  <2>2. CASE call[c].list["e_belongs"] = {} /\ db' = db /\ Wrote(c, "e_token")
    <3>1. /\ call'[c].pc = "e_token" /\ call'[c].req = call[c].req /\ call'[c].list = call[c].list
          /\ \A p \in Peers : db.belongs[p] = None
      BY <2>1, <2>2 DEF Wrote, GoesOn, DeleteKnows
    <3>2. DeleteKnows(c)' /\ MembersGrouped' /\ TokenGrouped'
      BY <2>1, <2>2, <3>1 DEF DeleteKnows, Deleting, HasGroup, MembersGrouped, TokenGrouped
    <3>3. QED
      BY <3>1, <3>2 DEF DeleteGood
  <2>3. ASSUME NEW p \in call[c].list["e_belongs"], db' = Belong(p, None),
               call'[c].pc = "e_belongs", call'[c].req = call[c].req,
               call'[c].list["e_belongs"] = call[c].list["e_belongs"] \ {p},
               \A s \in Sweeps \ {"e_belongs"} : call'[c].list[s] = call[c].list[s]
        PROVE  DeleteGood(c)
    <3>1. p \in Peers
      BY <1>0
    <3>2. /\ db'.ws = db.ws /\ db'.bind = db.bind /\ db'.group = db.group /\ db'.token = db.token /\ db'.members = db.members
          /\ db'.belongs[p] = None /\ \A q \in Peers \ {p} : db'.belongs[q] = db.belongs[q]
      BY <1>0, <2>3, <3>1, BelongFacts
    <3>3. call'[c].list["e_bindings"] = call[c].list["e_bindings"]
      BY <2>3 DEF Sweeps
    <3>4. \A q \in Peers : db'.belongs[q] # None => q \in call'[c].list["e_belongs"]
      BY <2>1, <2>3, <3>2 DEF DeleteKnows
    <3>5. DeleteKnows(c)' /\ MembersGrouped' /\ TokenGrouped'
      BY <2>1, <2>3, <3>2, <3>3, <3>4 DEF DeleteKnows, Deleting, HasGroup, MembersGrouped, TokenGrouped
    <3>6. QED
      BY <2>3, <3>5 DEF DeleteGood
  <2>4. QED
    BY <1>0, <1>5, <2>2, <2>3, SweepFacts
<1>6. CASE Write(c, "e_token", [db EXCEPT !.token = FALSE], "e_bindings", "idle")
  <2>1. /\ call[c].pc = "e_token" /\ db' = [db EXCEPT !.token = FALSE]
        /\ Moved(c, "e_bindings") /\ call'[c].list = call[c].list
    BY <1>0, <1>6, <1>w
  <2>2. /\ db'.ws = db.ws /\ db'.bind = db.bind /\ db'.group = db.group /\ ~db'.token /\ db'.belongs = db.belongs
        /\ db'.members = db.members
    BY <1>0, <2>1, TokenFacts
  <2>3. DeleteKnows(c)' /\ call'[c].req = call[c].req
    BY <2>1, <2>2 DEF Moved, DeleteKnows, Deleting, HasGroup
  <2>4. MembersGrouped' /\ TokenGrouped'
    BY <2>2 DEF MembersGrouped, TokenGrouped, HasGroup
  <2>5. QED
    BY <2>1, <2>3, <2>4 DEF DeleteGood, Moved
<1>7. CASE Sweep(c, "e_bindings", "e_workspace")
  <2>1. call[c].pc = "e_bindings"
    BY <1>0, <1>7, SweepFacts
  <2>2. CASE call[c].list["e_bindings"] = {} /\ db' = db /\ Wrote(c, "e_workspace")
    <3>1. /\ call'[c].pc = "e_workspace" /\ call'[c].req = call[c].req /\ call'[c].list = call[c].list
          /\ db.bind["group"] = {}
      BY <2>1, <2>2 DEF Wrote, GoesOn, DeleteKnows
    <3>2. DeleteKnows(c)' /\ MembersGrouped' /\ TokenGrouped'
      BY <2>1, <2>2, <3>1 DEF DeleteKnows, Deleting, HasGroup, MembersGrouped, TokenGrouped
    <3>3. QED
      BY <3>1, <3>2 DEF DeleteGood
  <2>3. ASSUME NEW p \in call[c].list["e_bindings"], p \in Peers, db' = Revoked("group", p),
               call'[c].pc = "e_bindings", call'[c].req = call[c].req,
               call'[c].list["e_bindings"] = call[c].list["e_bindings"] \ {p}
        PROVE  DeleteGood(c)
    <3>1. /\ db'.ws = db.ws /\ db'.bind["group"] = db.bind["group"] \ {p} /\ db'.group = db.group /\ db'.token = db.token
          /\ db'.members = db.members /\ db'.belongs = db.belongs
      BY <1>0, <2>3, RevokedFacts
    <3>2. db'.bind["group"] \subseteq call'[c].list["e_bindings"]
      BY <2>1, <2>3, <3>1 DEF DeleteKnows
    <3>3. DeleteKnows(c)' /\ MembersGrouped' /\ TokenGrouped'
      BY <2>1, <2>3, <3>1, <3>2 DEF DeleteKnows, Deleting, HasGroup, MembersGrouped, TokenGrouped
    <3>4. QED
      BY <2>3, <3>3 DEF DeleteGood
  <2>4. QED
    BY <1>0, <1>7, <2>2, <2>3, SweepFacts
<1>8. CASE Write(c, "e_workspace", Without("group"), "e_record", "idle")
  <2>1. call[c].pc = "e_workspace" /\ db' = Without("group") /\ Moved(c, "e_record")
    BY <1>0, <1>8, <1>w
  <2>2. /\ db'.ws = db.ws \ {"group"} /\ db'.bind = db.bind /\ db'.group = db.group /\ db'.token = db.token
        /\ db'.members = db.members /\ db'.belongs = db.belongs
    BY <1>0, <2>1, WithoutFacts
  <2>3. DeleteKnows(c)' /\ call'[c].req = call[c].req
    BY <2>1, <2>2 DEF Moved, DeleteKnows, Deleting
  <2>4. MembersGrouped' /\ TokenGrouped'
    BY <2>1, <2>2 DEF DeleteKnows, MembersGrouped, TokenGrouped
  <2>5. QED
    BY <2>1, <2>3, <2>4 DEF DeleteGood, Moved
<1>9. CASE Write(c, "e_record", [db EXCEPT !.group = FALSE], "idle", "idle")
  <2>1. call[c].pc = "e_record" /\ db' = [db EXCEPT !.group = FALSE] /\ Moved(c, "idle")
    BY <1>0, <1>9, <1>w
  <2>2. /\ db'.ws = db.ws /\ db'.bind = db.bind /\ ~db'.group /\ db'.token = db.token
        /\ db'.members = db.members /\ db'.belongs = db.belongs
    BY <1>0, <2>1, RecordFacts
  <2>3. /\ \A p \in Peers : db'.members[p] = None /\ db'.belongs[p] = None
        /\ db'.bind["group"] = {} /\ ~db'.token /\ "group" \notin db'.ws
    BY <2>1, <2>2 DEF DeleteKnows
  <2>4. AllSettled'
    BY <2>3 DEF AllSettled, MemberAgrees
  <2>5. QED
    BY <2>1, <2>2, <2>3, <2>4 DEF DeleteGood, Moved, MembersGrouped, TokenGrouped
<1>10. QED
  BY <1>1, <1>2, <1>3, <1>4, <1>5, <1>6, <1>7, <1>8, <1>9 DEF DeleteGroup

\* Deleting the group keeps the invariant of the group.
LEMMA DeleteKeepsGroup ==
  ASSUME StoresTyped, Shaped, ClashKnown, Creation, GroupInv, Orderly',
         NEW c \in Handlers, DeleteGroup(c)
  PROVE  GroupInv'
<1>0. HandlerStep(c) /\ OthersStay(c) /\ c \in Busy /\ Kind(c) = "delete" /\ DeleteKnows(c)
  BY EveryCallStep, FriendsOrNot, DeleteEffect DEF HandlerStep, OthersStay, CallAction, GroupInv, DeletersKnow
<1>1. Orderly /\ ~Failed(c) /\ clash # "mixed"
  <2>1. NoFault => ~Failed(c)
    BY SocialAssumption DEF NoFault, Failed, StoresTyped
  <2>2. QED
    BY <1>0, <2>1, OrderlyBefore DEF Orderly, None
<1>2. \A x \in Handlers \ {c} : Kind(x) \in FriendKinds \cup {None}
  BY <1>0, <1>1, OtherGroupCalls DEF FriendKinds
<1>3. ASSUME NEW x \in Handlers \ {c}
      PROVE  Kind(x)' \in FriendKinds \cup {None} /\ MemberKnows(x)' /\ ~HalfWay(x)
  <2>1. call'[x] = call[x] /\ KindAtLabel(call[x]) /\ (Kind(x) = None => call[x].pc = "idle")
    BY <1>0 DEF OthersStay, Shaped, KindAtLabel, Kind
  <2>2. call[x].pc \notin Writing \cup Granting \cup Restoring \cup Removing \cup {"m_get", "m_revoke"}
    BY <1>2, <2>1 DEF KindAtLabel, Kind, FriendKinds, Writing, Granting, Restoring, Removing, None
  <2>3. QED
    BY <1>2, <2>1, <2>2 DEF MemberKnows, HalfWay, Kind, Writing, Granting, Restoring, Removing, FriendKinds, None
<1>4. call[c].pc \in Deleting
  BY DEF DeleteGroup, ListMembers, Sweep, Write, Read, ReadInto, At, Deleting
<1>5. ~HalfWay(c)
  BY <1>0, <1>4 DEF HalfWay, Deleting, Granting, Restoring
<1>6. call[c].pc \in {"delete", "e_list", "e_members"} => AllSettled
  <2>1. SUFFICES ASSUME call[c].pc \in {"delete", "e_list", "e_members"}, NEW p \in Peers
                 PROVE  MemberAgrees(p)
    BY DEF AllSettled
  <2>2. LeftAlone(p)
    BY <1>2, <1>3, <1>5, <2>1 DEF LeftAlone, FriendKinds, None
  <2>3. QED
    BY <2>2 DEF GroupInv, MembersSettled
<1>7. call[c].pc = "delete" => (db.group <=> "group" \in db.ws)
  BY <1>0 DEF DeleteKnows
<1>8. DeleteGood(c)
  BY <1>0, <1>1, <1>6, <1>7, DeletedGood DEF GroupInv
<1>9. CASE call'[c] = Idle /\ AllSettled' /\ (db'.group <=> "group" \in db'.ws)
  <2>1. MemberKnows(c)' /\ Kind(c)' = None
    BY <1>9, IdleFacts DEF MemberKnows, Kind, Writing, Granting, Restoring, Removing, None
  <2>2. MembersKnow' /\ CreatorsKnow' /\ DeletersKnow'
    BY <1>3, <2>1 DEF MembersKnow, CreatorsKnow, DeletersKnow, FriendKinds, None
  <2>3. RecordHasSpace' /\ MembersSettled'
    BY <1>9 DEF RecordHasSpace, MembersSettled, AllSettled
  <2>4. QED
    BY <1>8, <2>2, <2>3 DEF GroupInv, DeleteGood
<1>10. CASE /\ call'[c].req = call[c].req /\ DeleteKnows(c)'
            /\ call'[c].pc \in {"delete", "e_list", "e_members"} => AllSettled'
  <2>1. Kind(c)' = "delete"
    BY <1>0, <1>10 DEF Kind
  <2>2. MembersKnow' /\ CreatorsKnow' /\ DeletersKnow'
    BY <1>3, <1>10, <2>1 DEF MembersKnow, CreatorsKnow, DeletersKnow, FriendKinds, None
  <2>3. RecordHasSpace'
    BY <2>1 DEF RecordHasSpace
  <2>4. MembersSettled'
    BY <1>10, <2>1 DEF MembersSettled, LeftAlone, AllSettled
  <2>5. QED
    BY <1>8, <2>2, <2>3, <2>4 DEF GroupInv, DeleteGood
<1>11. QED
  BY <1>8, <1>9, <1>10 DEF DeleteGood

-----------------------------------------------------------------------------
(* The invariant and the theorems.                                         *)

\* So does every step of a call.
LEMMA EveryGroup ==
  ASSUME StoresTyped, Shaped, FaultsSeen, ClashKnown, Creation, GroupInv, Orderly',
         NEW c \in Handlers, CallAction(c)
  PROVE  GroupInv'
<1>1. Orderly
  BY EveryCallStep, OrderlyBefore
<1>2. CASE Kind(c) \in FriendKinds
  BY <1>2, FriendKeepsGroup
<1>3. CASE Kind(c) = "create"
  BY <1>3, CreateKeepsGroup
<1>4. CASE Kind(c) # "create" /\ MemberAction(c)
  BY <1>4, MemberKeepsGroup
<1>5. CASE Invite(c)
  BY <1>1, <1>5, InviteKeepsGroup
<1>6. CASE DeleteGroup(c)
  BY <1>6, DeleteKeepsGroup
<1>7. QED
  BY <1>2, <1>3, <1>4, <1>5, <1>6, FriendsOrNot

-----------------------------------------------------------------------------
(* The invariant.                                                          *)

\* At first no handler serves a call.
LEMMA NobodyCalls ==
  ASSUME SocialInit, NEW c \in Handlers
  PROVE  call[c] = Idle /\ call[c].pc = "idle" /\ Kind(c) = None /\ c \notin Busy
BY IdleFacts DEF SocialInit, Kind, Busy, Idle, NoRequest

\* The stores before the group is made, and with a group that has been.
LEMMA EmptyFacts ==
  /\ Empty \in Stores /\ Empty.ws = {} /\ Empty.bind = [x \in Chats |-> {}]
  /\ ~Empty.rows /\ ~Empty.group /\ ~Empty.token
  /\ \A p \in Peers : Empty.members[p] = None /\ Empty.belongs[p] = None
BY DEF Empty, Stores, None, Chats, Roles

LEMMA EstablishedFacts ==
  ASSUME NEW m \in [Peers -> Roles \cup {None}], NEW d, d = Established(m)
  PROVE  /\ d \in Stores /\ d.ws = {"group"} /\ ~d.rows /\ d.group /\ d.token
         /\ d.members = m /\ d.belongs = m
         /\ d.bind["direct"] = {} /\ d.bind["group"] = {p \in Peers : m[p] # None}
<1>1. PICK b : b = [[x \in Chats |-> {}] EXCEPT !["group"] = {p \in Peers : m[p] # None}]
  OBVIOUS
<1>2. b \in [Chats -> SUBSET Peers] /\ b["direct"] = {} /\ b["group"] = {p \in Peers : m[p] # None}
  BY <1>1 DEF Chats
<1>3. d = [ws |-> {"group"}, bind |-> b, rows |-> FALSE, group |-> TRUE, token |-> TRUE, members |-> m, belongs |-> m]
  BY <1>1 DEF Established, Empty
<1>4. QED
  BY <1>2, <1>3 DEF Stores, Chats

\* The initial states have the types.
LEMMA InitTyped ==
  ASSUME SocialInit
  PROVE  StoresTyped
<1>1. db \in Stores
  BY EmptyFacts, EstablishedFacts DEF SocialInit
<1>2. call \in [Handlers -> CallFields]
  BY IdleFacts DEF SocialInit
<1>3. calls \in 0 .. MaxCalls /\ faults \in 0 .. MaxFaults
  BY SocialAssumption DEF SocialInit
<1>4. unborn \in BOOLEAN /\ unfinished \in BOOLEAN /\ clash \in {None, "additions", "mixed"}
  BY DEF SocialInit
<1>5. QED
  BY <1>1, <1>2, <1>3, <1>4 DEF StoresTyped

\* The initial states satisfy the invariant.
LEMMA InitKnown ==
  ASSUME SocialInit
  PROVE  SocialInv
<1>1. StoresTyped
  BY InitTyped
<1>2. \A c \in Handlers : call[c] = Idle /\ call[c].pc = "idle" /\ Kind(c) = None /\ c \notin Busy
  BY NobodyCalls
<1>3. Shaped
  BY <1>2, IdleShape DEF Shaped, ShapeOf
<1>4. FaultsSeen
  BY <1>2 DEF FaultsSeen, AfterFault
<1>5. Busy = {}
  BY <1>2 DEF Busy
<1>6. ClashKnown
  BY <1>5 DEF ClashKnown
<1>7. NotTheOwner
  BY <1>2 DEF NotTheOwner, OwnerKnown, WritesMembers, Writing, Granting, Restoring, Removing
<1>o. overtaken \subseteq Busy
  BY DEF SocialInit
<1>8. FriendsKnow
  BY <1>2 DEF FriendsKnow, FriendKnows, FriendBegun, FriendEnding
<1>9. MembersKnow /\ CreatorsKnow /\ DeletersKnow
  <2>1. \A c \in Handlers : call[c].req.kind = None
    BY <1>2 DEF Kind
  <2>2. None \notin {"add", "put", "join", "remove", "invite", "create", "delete"}
    BY DEF None
  <2>3. ASSUME NEW c \in Handlers
        PROVE  MemberKnows(c)
    BY <1>2, <2>1, <2>2 DEF MemberKnows, Writing, Granting, Restoring, Removing
  <2>4. QED
    BY <2>2, <2>3, <1>2 DEF MembersKnow, CreatorsKnow, DeletersKnow
<1>10. CASE db = Empty
  <2>1. NoGroup /\ ~db.rows /\ db.bind["direct"] = {} /\ db.ws = {}
    BY <1>10, EmptyFacts DEF NoGroup, NoMember, Chats
  <2>2. Creation
    BY <1>5, <2>1 DEF Creation
  <2>b. BindInv
    BY <1>2, <2>1, PairFacts DEF BindInv, BindingsKnown, StrangersUnbound, FewBindings, Bound
  <2>3. BindingsOfFriends /\ FriendInv
    BY <1>8, <2>1 DEF BindingsOfFriends, FriendInv, FriendsWhole, StrangersClean
  <2>4. MembersGrouped /\ TokenGrouped /\ RecordHasSpace /\ MembersSettled
    BY <2>1 DEF MembersGrouped, TokenGrouped, RecordHasSpace, MembersSettled, MemberAgrees, NoGroup, NoMember
  <2>5. QED
    BY <1>1, <1>3, <1>4, <1>6, <1>7, <1>o, <1>9, <2>2, <2>b, <2>3, <2>4 DEF SocialInv, GroupInv
<1>11. CASE unborn = FALSE
  <2>1. PICK m \in [Peers -> Roles \cup {None}] : db = Established(m)
    BY <1>11 DEF SocialInit
  <2>2. /\ db.ws = {"group"} /\ ~db.rows /\ db.group /\ db.token
        /\ db.members = m /\ db.belongs = m
        /\ db.bind["direct"] = {} /\ db.bind["group"] = {p \in Peers : m[p] # None}
    BY <2>1, EstablishedFacts
  <2>3. Creation
    BY <1>5, <1>11 DEF Creation
  <2>b. BindInv
    BY <1>2, <2>2, PairFacts DEF BindInv, BindingsKnown, StrangersUnbound, FewBindings, Bound
  <2>4. BindingsOfFriends /\ FriendInv
    BY <1>8, <2>2 DEF BindingsOfFriends, FriendInv, FriendsWhole, StrangersClean
  <2>5. MembersGrouped /\ TokenGrouped /\ RecordHasSpace /\ MembersSettled
    BY <2>2 DEF MembersGrouped, TokenGrouped, RecordHasSpace, MembersSettled, MemberAgrees, HasGroup
  <2>6. QED
    BY <1>1, <1>3, <1>4, <1>6, <1>7, <1>o, <1>9, <2>3, <2>b, <2>4, <2>5 DEF SocialInv, GroupInv
<1>12. QED
  BY <1>10, <1>11 DEF SocialInit

\* A step of a handler.
LEMMA CallKnown ==
  ASSUME SocialInv, Overtake, NEW c \in Handlers, CallAction(c)
  PROVE  SocialInv'
<1>1. StoresTyped /\ Shaped /\ FaultsSeen /\ ClashKnown /\ Creation /\ NotTheOwner /\ BindingsOfFriends
  BY DEF SocialInv
<1>2. HandlerStep(c)
  BY <1>1, EveryCallStep
<1>3. StoresTyped'
  BY <1>2 DEF HandlerStep
<1>4. Shaped' /\ FaultsSeen' /\ ClashKnown' /\ Creation' /\ NotTheOwner' /\ BindingsOfFriends'
  BY <1>1, EveryShape, EverySeen, EveryClash, EveryCreation, EveryOwner, EveryFriendBinding
<1>5. ASSUME Orderly'
      PROVE  FriendInv' /\ BindInv' /\ GroupInv'
  <2>1. FriendInv /\ BindInv /\ GroupInv
    BY <1>1, <1>2, <1>5, OrderlyBefore DEF SocialInv
  <2>2. QED
    BY <1>1, <1>5, <2>1, EveryFriend, EveryBinding, EveryGroup
<1>6. QED
  BY <1>3, <1>4, <1>5, StaysOvertaken DEF SocialInv

\* A call that does not move, while the stores of the members do not either.
LEMMA OwnerStill ==
  ASSUME Shaped, NotTheOwner, Overtake, NEW x \in Handlers, call'[x] = call[x], db'.members = db.members
  PROVE  OwnerKnown(x)'
<1>1. call[x].pc \in WritesMembers /\ x \in overtaken => x \in overtaken'
  BY WritersKind, StaysOvertaken DEF Busy
<1>2. About(x)' = About(x) /\ Kind(x)' = Kind(x) /\ ByAdmin(x)' = ByAdmin(x) /\ call'[x].pc = call[x].pc
  BY DEF About, Kind, ByAdmin
<1>3. QED
  BY <1>1, <1>2 DEF NotTheOwner, OwnerKnown

\* The arrival of a request.
LEMMA ReceiveKnown ==
  ASSUME SocialInv, Overtake, NEW c \in Handlers, NEW r \in Asked, Receive(c, r)
  PROVE  SocialInv'
<1>1. StoresTyped /\ Shaped /\ FaultsSeen /\ ClashKnown /\ Creation /\ NotTheOwner /\ BindingsOfFriends
  BY DEF SocialInv
<1>2. /\ StoresTyped' /\ OthersStay(c) /\ call'[c].req = r /\ call'[c].pc = r.kind
      /\ db' = db /\ faults' = faults
  BY <1>1, ReceiveFacts
<1>3. Shaped' /\ ClashKnown' /\ Creation'
  BY <1>1, ReceiveShape, ReceiveClash, ReceiveCreation
<1>4. r.kind \in RequestKinds
  BY DEF Asked, Request
<1>5. FaultsSeen'
  <2>1. r.kind \notin AfterFault
    BY <1>4 DEF RequestKinds, AfterFault
  <2>2. QED
    BY <1>1, <1>2, <2>1 DEF FaultsSeen, OthersStay
<1>6. NotTheOwner'
  <2>1. r.kind \notin WritesMembers
    BY <1>4 DEF RequestKinds, WritesMembers, Writing, Granting, Restoring, Removing
  <2>2. OwnerKnown(c)'
    BY <1>2, <2>1 DEF OwnerKnown
  <2>3. ASSUME NEW x \in Handlers \ {c}
        PROVE  OwnerKnown(x)'
    BY <1>1, <1>2, OwnerStill DEF OthersStay
  <2>4. QED
    BY <2>2, <2>3 DEF NotTheOwner
<1>7. BindingsOfFriends'
  BY <1>1, <1>2 DEF BindingsOfFriends
<1>8. ASSUME Orderly'
      PROVE  FriendInv' /\ BindInv' /\ GroupInv'
  <2>1. FriendInv /\ BindInv /\ GroupInv
    BY <1>1, <1>8, ReceiveOrderly DEF SocialInv
  <2>2. QED
    BY <1>1, <1>8, <2>1, ReceiveFriend, ReceiveBinding, ReceiveGroup
<1>9. QED
  BY <1>2, <1>3, <1>5, <1>6, <1>7, <1>8, StaysOvertaken DEF SocialInv

\* The end of an invitation.
LEMMA TokenGoneKnown ==
  ASSUME SocialInv, Overtake, TokenGone
  PROVE  SocialInv'
<1>1. StoresTyped /\ Shaped /\ FaultsSeen /\ ClashKnown /\ Creation /\ NotTheOwner /\ BindingsOfFriends
  BY DEF SocialInv
<1>2. /\ StoresTyped' /\ UNCHANGED <<call, calls, unborn, faults, clash, unfinished>>
      /\ ~db'.token /\ db'.ws = db.ws /\ db'.bind = db.bind /\ db'.rows = db.rows /\ db'.group = db.group
      /\ db'.members = db.members /\ db'.belongs = db.belongs
  BY <1>1, TokenGoneFacts
<1>3. Shaped' /\ FaultsSeen' /\ ClashKnown'
  BY <1>1, <1>2 DEF Shaped, KindAtLabel, RequestFits, FaultsSeen, ClashKnown, Busy
<1>4. Creation'
  BY <1>1, <1>2 DEF Creation, NoGroup, NoMember, Busy, Kind
<1>5. NotTheOwner' /\ BindingsOfFriends'
  <2>1. \A x \in Handlers : OwnerKnown(x)'
    BY <1>1, <1>2, OwnerStill
  <2>2. QED
    BY <1>1, <1>2, <2>1 DEF NotTheOwner, BindingsOfFriends
<1>6. Orderly' => Orderly
  BY <1>2 DEF Orderly
<1>7. QED
  BY <1>1, <1>2, <1>3, <1>4, <1>5, <1>6, StaysOvertaken, TokenGoneFriend, TokenGoneBinding, TokenGoneGroup DEF SocialInv

\* Every step keeps the invariant.
LEMMA StepKnown ==
  ASSUME SocialInv, [SocialNext]_socialVars
  PROVE  SocialInv'
<1>1. CASE TokenGone /\ Overtake
  BY <1>1, TokenGoneKnown
<1>2. ASSUME NEW c \in Handlers, NEW r \in Asked, Receive(c, r), Overtake
      PROVE  SocialInv'
  BY <1>2, ReceiveKnown
<1>3. ASSUME NEW c \in Handlers, CallAction(c), Overtake
      PROVE  SocialInv'
  BY <1>3, CallKnown
<1>4. CASE UNCHANGED socialVars
  <2>1. UNCHANGED <<db, call, calls, unborn, faults, clash, unfinished, overtaken>>
    BY <1>4 DEF socialVars, handlerVars
  <2>2. /\ StoresTyped' /\ Shaped' /\ FaultsSeen' /\ ClashKnown' /\ Creation' /\ NotTheOwner' /\ BindingsOfFriends'
        /\ overtaken' \subseteq Busy'
    BY <2>1 DEF SocialInv, StoresTyped, Shaped, KindAtLabel, RequestFits, FaultsSeen, ClashKnown, Busy, Creation, NoGroup,
       NoMember, Kind, NotTheOwner, OwnerKnown, ByAdmin, About, BindingsOfFriends
  <2>3. (Orderly' <=> Orderly) /\ (FriendInv => FriendInv') /\ (BindInv => BindInv')
    BY <2>1 DEF Orderly, FriendInv, FriendsKnow, FriendKnows, Who, About, FriendsWhole, Bound, StrangersClean, BindInv,
       BindingsKnown, StrangersUnbound, FewBindings
  <2>4. GroupInv => GroupInv'
    BY <2>1 DEF GroupInv, MembersKnow, MemberKnows, HasGroup, Alone, Kind, About, ByAdmin, Undone, CreatorsKnow, CreateKnows,
       DeletersKnow, DeleteKnows, MembersGrouped, TokenGrouped, RecordHasSpace, MembersSettled, LeftAlone, HalfWay, MemberAgrees
  <2>5. QED
    BY <2>2, <2>3, <2>4 DEF SocialInv
<1>5. QED
  BY <1>1, <1>2, <1>3, <1>4 DEF SocialNext, HandlerNext, CallAction

\* With no call on the friendship, nobody is half way with it.
LEMMA FriendsAtRest ==
  ASSUME SocialInv
  PROVE  FriendsConsistent
<1>1. SUFFICES ASSUME Orderly, NoneBusy(FriendKinds)
               PROVE  IF db.rows THEN "direct" \in db.ws /\ db.bind["direct"] = Pair
                      ELSE "direct" \notin db.ws /\ Cardinality(db.bind["direct"]) <= faults
  BY DEF FriendsConsistent
<1>2. FriendInv /\ BindInv /\ Shaped /\ StoresTyped /\ BindingsOfFriends
  BY <1>1 DEF SocialInv
<1>3. ASSUME NEW c \in Handlers
      PROVE  call[c].pc \notin FriendBegun \cup FriendEnding \cup {"x_revoke1"}
  <2>1. c \notin Busy \/ Kind(c) \notin FriendKinds
    BY <1>1 DEF NoneBusy
  <2>2. CASE c \notin Busy
    <3>1. call[c].pc = "idle"
      BY <2>2, IdleFacts DEF Busy
    <3>2. QED
      BY <3>1 DEF FriendBegun, FriendEnding
  <2>3. CASE Kind(c) \notin FriendKinds
    <3>1. call[c].pc \notin AddingFriend \cup DeletingFriend
      BY <1>2, <2>3 DEF Shaped, KindAtLabel, Kind, FriendKinds
    <3>2. QED
      BY <3>1 DEF AddingFriend, DeletingFriend, FriendBegun, FriendEnding
  <2>4. QED
    BY <2>1, <2>2, <2>3
<1>4. QED
  BY <1>2, <1>3, FewAreCounted DEF FriendInv, FriendsWhole, StrangersClean, BindInv, StrangersUnbound, Bound

\* A call on the friendship is not half way with a member.
LEMMA FriendsNotHalfWay ==
  ASSUME Shaped, NEW c \in Handlers, call[c] = Idle \/ Kind(c) \in FriendKinds
  PROVE  ~HalfWay(c) /\ Kind(c) \notin {"create", "delete"}
<1>1. Kind(c) \in {None} \cup FriendKinds
  BY IdleFacts DEF Kind
<1>2. Kind(c) \notin {"create", "delete", "put", "add", "join", "remove"}
  BY <1>1 DEF FriendKinds, None
<1>3. call[c].pc \notin Writing \cup Granting \cup Restoring \cup {"m_get"} \cup Removing
  BY <1>2 DEF Shaped, KindAtLabel, Kind
<1>4. QED
  BY <1>2, <1>3 DEF HalfWay, Writing, Removing

\* With no call on a member, nobody is half way with it.
LEMMA GroupAtRest ==
  ASSUME SocialInv
  PROVE  GroupConsistent
<1>1. CASE ~Orderly
  BY <1>1 DEF GroupConsistent, MembersConsistent
<1>2. CASE Orderly
  <2>1. GroupInv /\ Shaped
    BY <1>2 DEF SocialInv
  <2>2. ASSUME NEW p \in Peers, \A c \in Busy : Kind(c) # "delete" /\ (Kind(c) \in FriendKinds \/ About(c) # p)
        PROVE  LeftAlone(p)
    <3>1. ASSUME NEW c \in Handlers
          PROVE  Kind(c) # "delete" /\ (About(c) = p => ~HalfWay(c))
      BY <2>1, <2>2, FriendsNotHalfWay DEF Busy
    <3>2. QED
      BY <3>1 DEF LeftAlone
  <2>3. MembersConsistent
    BY <2>1, <2>2 DEF MembersConsistent, GroupInv, MembersSettled, MemberAgrees, MembersGrouped, HasGroup
  <2>4. ASSUME NoneBusy({"create", "delete"}), NEW c \in Handlers
        PROVE  Kind(c) \notin {"create", "delete"}
    BY <2>1, <2>4, FriendsNotHalfWay DEF NoneBusy, Busy
  <2>5. QED
    BY <2>1, <2>3, <2>4 DEF GroupConsistent, GroupInv, RecordHasSpace, TokenGrouped, HasGroup
<1>3. QED
  BY <1>1, <1>2

\* A step that takes the role of the owner is a call's, and makes or deletes
\* the group.
LEMMA OwnerStaysStep ==
  ASSUME SocialInv, [SocialNext]_socialVars,
         NEW p \in Peers, db.members[p] = "owner", db'.members[p] # "owner"
  PROVE  \E c \in Busy :
           /\ call'[c] # call[c]
           /\ Kind(c) \in {"create", "delete"} \/ ByAdmin(c) \/ (c \in overtaken /\ About(c) = p)
<1>1. StoresTyped /\ Shaped /\ NotTheOwner
  BY DEF SocialInv
<1>2. db'.members # db.members
  OBVIOUS
<1>3. ASSUME TokenGone
      PROVE  FALSE
  BY <1>1, <1>2, <1>3, TokenGoneFacts
<1>4. ASSUME NEW c \in Handlers, NEW r \in Asked, Receive(c, r)
      PROVE  FALSE
  BY <1>1, <1>2, <1>4, ReceiveFacts
<1>5. ASSUME NEW c \in Handlers, CallAction(c)
      PROVE  /\ c \in Busy /\ call'[c] # call[c]
             /\ Kind(c) \in {"create", "delete"} \/ ByAdmin(c) \/ (c \in overtaken /\ About(c) = p)
  BY <1>1, <1>2, <1>5, OwnersKept, WriterMoves, FriendsOrNot
<1>6. ASSUME UNCHANGED socialVars
      PROVE  FALSE
  BY <1>2, <1>6 DEF socialVars, handlerVars
<1>7. QED
  BY <1>3, <1>4, <1>5, <1>6 DEF SocialNext, HandlerNext, CallAction

\* The invariant of friends and groups holds in every reachable state: what the
\* calls under way know of the stores they have yet to write.
THEOREM SocialInvariant == SocialSpec => []SocialInv
BY InitKnown, StepKnown, PTL DEF SocialSpec

\* The stores hold what their writers may write and every call keeps to the
\* steps, roles and lists of its handler (services/social/friend, friendgroup).
THEOREM SocialTyped == SocialSpec => []SocialTypeOK
<1>1. SocialInv => SocialTypeOK
  BY DEF SocialInv, StoresTyped, SocialTypeOK
<1>2. QED
  BY <1>1, SocialInvariant, PTL

\* However many calls are served and whichever write of an addition fails, two
\* friends have their workspace and both bindings whenever no call on the
\* friendship is under way, and two strangers have no workspace and no more
\* bindings than writes that failed: AddFriend undoes what it has done, and
\* DeleteFriend removes the rows last.  The writes of deletions and of rollbacks
\* succeed and no addition meets a deletion (Orderly).
THEOREM FriendsStayConsistent == SocialSpec => []FriendsConsistent
BY FriendsAtRest, SocialInvariant, PTL

\* However many calls are served and whichever writes fail, the two records
\* of a member agree with one another and with the binding whenever no call on
\* the member is under way (writeMember, restoreMember, DeleteFriendGroupMember),
\* and a group and its workspace come and go together (CreateFriendGroup,
\* DeleteFriendGroup).  The writes of a deletion of the group and of rollbacks
\* succeed, and calls that overlap are about different members, but for a peer
\* who joins twice while no write fails (Orderly).
THEOREM GroupStaysConsistent == SocialSpec => []GroupConsistent
BY GroupAtRest, SocialInvariant, PTL

\* Whatever calls overlap and whichever writes fail, an owner's role is taken by
\* the making and the deletion of the group and by administrators, and by a
\* peer's call only from a peer whom another call has made an owner since the
\* call began: AddFriendGroupMember, PutFriendGroupMember and
\* DeleteFriendGroupMember test the role on a record that they read before they
\* write.
THEOREM OwnerKept == SocialSpec => OwnerStays
<1>1. SocialInv /\ [SocialNext]_socialVars =>
        [\A p \in Peers : db.members[p] = "owner" /\ db'.members[p] # "owner" =>
           \E c \in Busy :
             /\ call'[c] # call[c]
             /\ Kind(c) \in {"create", "delete"} \/ ByAdmin(c) \/ (c \in overtaken /\ About(c) = p)]_socialVars
  BY OwnerStaysStep
<1>2. QED
  BY <1>1, SocialInvariant, PTL DEF SocialSpec, OwnerStays

=============================================================================
