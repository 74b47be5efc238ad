------------------------------ MODULE Gameplay ------------------------------
(***************************************************************************)
(* The wallet, the pets and the rewards of one peer                        *)
(* (services/gameplay/wallet, pet and reward).                             *)
(*                                                                         *)
(* Every RPC runs in a goroutine of its own and several calls of one peer  *)
(* may be under way.  The wallet is a row of a SQL database with one       *)
(* connection, so a SQL transaction is one step; pets and rewards are      *)
(* records of key-value stores.  Nothing spans the two: a call reads a     *)
(* record, asks a model for a decision, moves points and writes the record,*)
(* and any store may fail or the process may die in between.               *)
(*                                                                         *)
(* Peers are independent of one another.  Token balances are left out: no  *)
(* caller changes them.                                                    *)
(***************************************************************************)
EXTENDS Integers, FiniteSets, FiniteSetsExt

CONSTANTS Calls,        \* RPC calls, each made at most once
          PetIds,
          PetDecisions,    \* what the model may decide of a pet action
          RewardDecisions, \* what the model may decide of a claim
          AdoptCost,
          Cooldown,
          ExpPerLevel,  \* 100 in the code
          LifeMax,      \* 100 in the code
          LifeStart,    \* 60 in the code
          MaxInt,       \* the largest int64
          Opening,      \* points of a reward claimed before the calls
          MaxTime       \* bound of the clock

ASSUME GameplayAssumption ==
  /\ PetIds # {} /\ "before" \notin Calls
  /\ MaxInt \in Nat /\ AdoptCost \in 1 .. MaxInt /\ Opening \in 1 .. MaxInt
  /\ Cooldown \in Nat \ {0} /\ ExpPerLevel \in Nat \ {0} /\ MaxTime \in Nat
  /\ LifeMax \in Nat /\ LifeStart \in 1 .. LifeMax
  /\ \A d \in PetDecisions : d.points \in (-MaxInt) .. MaxInt /\ d.life \in Int /\ d.exp \in Int
  /\ \A d \in RewardDecisions : d.points \in (-MaxInt) .. MaxInt /\ d.badge \in BOOLEAN

VARIABLES
  row,      \* the peer has a row in wallets
  points,   \* its point_balance
  ledger,   \* wallet_transactions: the call that made each and its point_delta
  pets,     \* pet id -> its record
  rewards,  \* the reward records
  clock,
  kind,     \* call -> its method
  pc,       \* call -> what it does next
  pet,      \* call -> the pet id of its request
  held,     \* call -> the pet it has read or made
  due,      \* call -> the point_delta it must settle
  seen,     \* call -> the rewards that checkCooldown read
  result    \* call -> how it ended

walletVars == <<row, points, ledger>>
callVars == <<kind, pc, pet, held, due, seen, result>>
vars == <<walletVars, pets, rewards, clock, callVars>>

-----------------------------------------------------------------------------
Kinds == {"get_wallet", "adopt", "act", "put", "delete", "claim"}
\* The reward behind the opening balance.
Before == "before"

\* writes: the calls whose change this record contains, the adoption first of
\* all.  The five life stats are taken to move together.
PetFields ==
  [life : 0 .. LifeMax, exp : Nat, level : Nat \ {0}, writes : SUBSET Calls]
NoPet == [life |-> 0, exp |-> 0, level |-> 1, writes |-> {}]
Stored(i) == pets[i].writes # {}

Reward(c, p) == [call |-> c, points |-> p, at |-> clock, seen |-> seen[c]]
OpeningReward == [call |-> Before, points |-> Opening, at |-> 0, seen |-> {}]
OpeningEntry == [call |-> Before, delta |-> Opening]

\* A peer nobody has seen before, or one that has claimed a reward.
Init ==
  /\ \/ row = FALSE /\ points = 0 /\ ledger = {} /\ rewards = {}
     \/ row = TRUE /\ points = Opening /\ ledger = {OpeningEntry} /\ rewards = {OpeningReward}
  /\ pets = [i \in PetIds |-> NoPet]
  /\ clock = 0
  /\ kind = [c \in Calls |-> "none"]
  /\ pc = [c \in Calls |-> "idle"]
  /\ pet = [c \in Calls |-> CHOOSE i \in PetIds : TRUE]
  /\ held = [c \in Calls |-> NoPet]
  /\ due = [c \in Calls |-> 0]
  /\ seen = [c \in Calls |-> {}]
  /\ result = [c \in Calls |-> "none"]

Goto(c, l) == pc' = [pc EXCEPT ![c] = l]
\* The call is over; what it held is gone.
Return(c, how) ==
  /\ Goto(c, "idle")
  /\ result' = [result EXCEPT ![c] = how]
  /\ held' = [held EXCEPT ![c] = NoPet]
  /\ UNCHANGED <<kind, pet, due, seen>>

Tick ==
  /\ clock < MaxTime
  /\ clock' = clock + 1
  /\ UNCHANGED <<walletVars, pets, rewards, callVars>>

\* A request arrives.
Begin(c, k, i) ==
  /\ kind[c] = "none"
  /\ kind' = [kind EXCEPT ![c] = k]
  /\ pet' = [pet EXCEPT ![c] = i]
  /\ Goto(c, k)
  /\ UNCHANGED <<walletVars, pets, rewards, clock, held, due, seen, result>>

-----------------------------------------------------------------------------
(* The wallet                                                              *)

\* Addition of int64 values.
Add64(a, b) == ((a + b + MaxInt + 1) % (2 * (MaxInt + 1))) - (MaxInt + 1)

\* Mutant of AddTransaction: without the test of the final balance.
AddTransactionOverdraws(c, delta) ==
  /\ row' = TRUE
  /\ points' = Add64(points, delta)
  /\ ledger' = ledger \cup {[call |-> c, delta |-> delta]}

\* One SQL transaction: the row is made if it is missing, the balance updated
\* and the entry inserted, or nothing at all.  A row that is missing counts as
\* balance 0, and a sum that wraps is negative.
AddTransaction(c, delta) ==
  /\ delta # 0
  /\ Add64(points, delta) >= 0
  /\ row' = TRUE
  /\ points' = Add64(points, delta)
  /\ ledger' = ledger \cup {[call |-> c, delta |-> delta]}

\* GetWallet outside of any transaction: SELECT, then INSERT of a zero balance.
GetWalletRead(c) ==
  /\ pc[c] = "get_wallet"
  /\ \/ row /\ Return(c, "ok")
     \/ ~row /\ Goto(c, "insert") /\ UNCHANGED <<kind, pet, held, due, seen, result>>
  /\ UNCHANGED <<walletVars, pets, rewards, clock>>

\* Mutant of GetWalletInsert: an upsert instead of an insert.
GetWalletInsertReplaces(c) ==
  /\ pc[c] = "insert"
  /\ row' = TRUE /\ points' = 0
  /\ Return(c, "ok")
  /\ UNCHANGED <<ledger, pets, rewards, clock>>

\* The primary key refuses a second row.
GetWalletInsert(c) ==
  /\ pc[c] = "insert"
  /\ \/ ~row /\ row' = TRUE /\ points' = 0 /\ UNCHANGED ledger /\ Return(c, "ok")
     \/ row /\ UNCHANGED walletVars /\ Return(c, "refused")
  /\ UNCHANGED <<pets, rewards, clock>>

\* Settles the decision of a call: nothing to move, moved, or refused (too few
\* points, a wrapped sum, a database error) and then the call ends.
Settle(c, delta, next) ==
  \/ /\ \/ delta = 0 /\ UNCHANGED walletVars
        \/ AddTransaction(c, delta)
     /\ due' = [due EXCEPT ![c] = delta]
     /\ held' = [held EXCEPT ![c] = next]
     /\ Goto(c, "save")
     /\ UNCHANGED <<kind, pet, seen, result>>
  \/ /\ delta # 0
     /\ UNCHANGED walletVars
     /\ Return(c, "refused")

-----------------------------------------------------------------------------
(* Pets                                                                    *)

clampStat(v) == IF v < 0 THEN 0 ELSE IF v > LifeMax THEN LifeMax ELSE v
\* A record without life stats counts as a new pet's.
applyLifeDelta(life, delta) == clampStat((IF life = 0 THEN LifeStart ELSE life) + delta)

\* The loop of applyAbilityDelta: up until the next level is out of reach.
levelFor(level, exp) ==
  CHOOSE l \in level .. level + exp :
    /\ exp < l * ExpPerLevel
    /\ \A k \in level .. l - 1 : exp >= k * ExpPerLevel
applyDecision(p, d, c) ==
  LET exp == IF p.exp + d.exp < 0 THEN 0 ELSE p.exp + d.exp IN
  [life |-> applyLifeDelta(p.life, d.life), exp |-> exp,
   level |-> levelFor(p.level, exp), writes |-> p.writes \cup {c}]

newPet(c) == [life |-> LifeStart, exp |-> 0, level |-> 1, writes |-> {c}]

\* AdoptPet up to the charge: the id is taken, no species or voice is usable,
\* or the call goes on.
AdoptLookup(c) ==
  /\ pc[c] = "adopt"
  /\ \/ Return(c, "refused")
     \/ /\ ~Stored(pet[c])
        /\ Goto(c, "charge")
        /\ UNCHANGED <<kind, pet, held, due, seen, result>>
  /\ UNCHANGED <<walletVars, pets, rewards, clock>>

\* Mutant of AdoptCharge: a failed charge does not end the call.
AdoptChargeIgnoresError(c) ==
  /\ pc[c] = "charge"
  /\ \/ AddTransaction(c, -AdoptCost)
     \/ UNCHANGED walletVars
  /\ due' = [due EXCEPT ![c] = -AdoptCost]
  /\ held' = [held EXCEPT ![c] = newPet(c)]
  /\ Goto(c, "save")
  /\ UNCHANGED <<pets, rewards, clock, kind, pet, seen, result>>

AdoptCharge(c) ==
  /\ pc[c] = "charge"
  /\ Settle(c, -AdoptCost, newPet(c))
  /\ UNCHANGED <<pets, rewards, clock>>

\* applyPetAction, PutPet and DeletePet begin by reading the pet.
PetLoad(c) ==
  /\ pc[c] \in {"act", "put", "delete"}
  /\ \/ Return(c, "refused")
     \/ /\ Stored(pet[c])
        /\ held' = [held EXCEPT ![c] = pets[pet[c]]]
        /\ Goto(c, CASE pc[c] = "act" -> "decide" [] pc[c] = "put" -> "rename"
                     [] OTHER -> "remove")
        /\ UNCHANGED <<kind, pet, due, seen, result>>
  /\ UNCHANGED <<walletVars, pets, rewards, clock>>

\* The model answers with a decision or fails.
ActDecide(c, d) ==
  /\ pc[c] = "decide"
  /\ \/ Settle(c, d.points, applyDecision(held[c], d, c))
     \/ Return(c, "refused") /\ UNCHANGED walletVars
  /\ UNCHANGED <<pets, rewards, clock>>

PutRename(c) ==
  /\ pc[c] = "rename"
  /\ held' = [held EXCEPT ![c].writes = @ \cup {c}]
  /\ Goto(c, "save")
  /\ UNCHANGED <<walletVars, pets, rewards, clock, kind, pet, due, seen, result>>

\* savePet: the whole record as the call holds it.
PetSave(c) ==
  /\ pc[c] = "save" /\ kind[c] # "claim"
  /\ pets' = [pets EXCEPT ![pet[c]] = held[c]]
  /\ Return(c, "ok")
  /\ UNCHANGED <<walletVars, rewards, clock>>

DeleteKey(c) ==
  /\ pc[c] = "remove"
  /\ pets' = [pets EXCEPT ![pet[c]] = NoPet]
  /\ Return(c, "ok")
  /\ UNCHANGED <<walletVars, rewards, clock>>

-----------------------------------------------------------------------------
(* Rewards                                                                 *)

\* Mutant of onCooldown: the oldest reward instead of the latest.
onCooldownOldest ==
  rewards # {} /\ clock - Min({r.at : r \in rewards}) < Cooldown

\* checkCooldown: the latest of all rewards is too recent.
onCooldown ==
  rewards # {} /\ clock - Max({r.at : r \in rewards}) < Cooldown

ClaimCheck(c) ==
  /\ pc[c] = "claim"
  /\ \/ Return(c, "refused")
     \/ /\ ~onCooldown
        /\ seen' = [seen EXCEPT ![c] = {r.call : r \in rewards}]
        /\ Goto(c, "award")
        /\ UNCHANGED <<kind, pet, held, due, result>>
  /\ UNCHANGED <<walletVars, pets, rewards, clock>>

\* The decision, its validation, the badge and the credit.  The model may fail
\* and the badge may be missing or not permitted.
ClaimAward(c, d) ==
  /\ pc[c] = "award"
  /\ \/ /\ d.points >= 0
        /\ d.badge \/ d.points > 0
        /\ Settle(c, d.points, NoPet)
     \/ Return(c, "refused") /\ UNCHANGED walletVars
  /\ UNCHANGED <<pets, rewards, clock>>

\* saveReward under a new id.
ClaimSave(c) ==
  /\ pc[c] = "save" /\ kind[c] = "claim"
  /\ rewards' = rewards \cup {Reward(c, due[c])}
  /\ Return(c, "ok")
  /\ UNCHANGED <<walletVars, pets, clock>>

-----------------------------------------------------------------------------
(* Failures                                                                *)

\* The key-value store refuses the write of a call.
StoreFails(c) ==
  /\ pc[c] \in {"save", "remove"}
  /\ Return(c, "lost")
  /\ UNCHANGED <<walletVars, pets, rewards, clock>>

\* The process dies and is started again: the stores keep what they have.
Crash ==
  /\ \E c \in Calls : pc[c] # "idle"
  /\ result' = [c \in Calls |-> IF pc[c] # "idle" THEN "lost" ELSE result[c]]
  /\ pc' = [c \in Calls |-> "idle"]
  /\ held' = [c \in Calls |-> NoPet]
  /\ UNCHANGED <<walletVars, pets, rewards, clock, kind, pet, due, seen>>

Next ==
  \/ Tick \/ Crash
  \/ \E c \in Calls :
       \/ \E k \in Kinds, i \in PetIds : Begin(c, k, i)
       \/ GetWalletRead(c) \/ GetWalletInsert(c)
       \/ AdoptLookup(c) \/ AdoptCharge(c)
       \/ PetLoad(c) \/ PutRename(c) \/ PetSave(c) \/ DeleteKey(c)
       \/ \E d \in PetDecisions : ActDecide(c, d)
       \/ ClaimCheck(c) \/ ClaimSave(c)
       \/ \E d \in RewardDecisions : ClaimAward(c, d)
       \/ StoreFails(c)

Spec == Init /\ [][Next]_vars

-----------------------------------------------------------------------------
(* Properties                                                              *)

\* Types; the balance is a non-negative int64 (AddTransaction's test of the
\* final balance).
TypeOK ==
  /\ row \in BOOLEAN /\ points \in 0 .. MaxInt
  /\ \A e \in ledger : e.call \in Calls \cup {Before} /\ e.delta \in (-MaxInt) .. MaxInt
  /\ pets \in [PetIds -> PetFields]
  /\ \A r \in rewards : r.points \in Nat /\ r.at \in 0 .. MaxTime
  /\ clock \in 0 .. MaxTime
  /\ kind \in [Calls -> Kinds \cup {"none"}]
  /\ pc \in [Calls -> Kinds \cup {"idle", "insert", "charge", "decide", "rename", "remove",
                                  "award", "save"}]
  /\ pet \in [Calls -> PetIds]
  /\ held \in [Calls -> PetFields]
  /\ result \in [Calls -> {"none", "ok", "refused", "lost"}]

\* The balance is the sum of the transactions, whatever the order of the calls:
\* GetWallet's lazy row, the charges and the credits race, and a sum may wrap.
BalanceIsLedger ==
  /\ points = MapThenSumSet(LAMBDA e : e.delta, ledger)
  /\ ledger # {} => row

Settled(c, delta) ==
  {e \in ledger : e.call = c} = IF delta = 0 THEN {} ELSE {[call |-> c, delta |-> delta]}

\* What a pet or a reward record contains has been settled in the wallet with
\* the very amount of its decision: adoptions, actions and claims all move the
\* points before they write the record.
StoredIsSettled ==
  /\ \A i \in PetIds : \A c \in pets[i].writes : Settled(c, due[c])
  /\ \A r \in rewards : r.call # Before => Settled(r.call, r.points)
  /\ \A i \in PetIds : Stored(i) => \E c \in pets[i].writes : kind[c] = "adopt"

\* A call that reported success moved exactly the points of its decision, and
\* one that was refused (id taken, cooldown, bad decision, badge, too few
\* points) moved none.
CallsAreSettled ==
  \A c \in Calls :
    /\ result[c] = "ok" => Settled(c, due[c])
    /\ result[c] = "refused" => Settled(c, 0)

\* Records and results both tell the truth about the wallet.
PointsAreSettled == StoredIsSettled /\ CallsAreSettled

\* A claim that began after a reward had been recorded comes at least the
\* cooldown after it, though the record is dated long after the check.
CooldownAfterRecord ==
  \A r, s \in rewards : r.call \in s.seen => s.at - r.at >= Cooldown

-----------------------------------------------------------------------------
(* Formulas that the code does not satisfy; see the README.                *)

\* "Failed reward claims do not mutate wallet state" (docs/wallet.md:255).
FailedClaimIsFree ==
  \A c \in Calls : kind[c] = "claim" /\ result[c] = "lost" => Settled(c, 0)

\* No two rewards closer than the cooldown.
RewardsAreSpaced ==
  \A r, s \in rewards : r # s => r.at - s.at >= Cooldown \/ s.at - r.at >= Cooldown

\* One charge per adopted pet: of two adoptions of one id that both succeed the
\* second one overwrites the first.
AdoptedPetIsKept ==
  [][\A i \in PetIds : Stored(i) /\ Stored(i)' => pets[i].writes \subseteq pets'[i].writes]_vars

\* A deleted pet comes back only by adoption.
DeletedStaysDeleted ==
  [][\A i \in PetIds : ~Stored(i) /\ Stored(i)' => \E c \in Calls : pets'[i].writes = {c}]_vars

=============================================================================
