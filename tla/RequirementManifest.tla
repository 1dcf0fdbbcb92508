-------------------------- MODULE RequirementManifest --------------------------
(***************************************************************************)
(* build_requirement_manifest: what the requirement uses of one repair     *)
(* definition add up to.  A definition in status "draft" grows by one use  *)
(* after the other; the use_id of a fact is its place.                     *)
(*                                                                         *)
(* Category and display name come from the one row of a requirement_key,   *)
(* so the conflict of two of them cannot arise from the tables; timing and *)
(* operations are only listed.  "reuse_existing" and "replace_if_damaged"  *)
(* add up like "reusable", "replacement_required" like "consumed".         *)
(***************************************************************************)
EXTENDS Integers, Sequences, SequencesExt, FiniteSetsExt

CONSTANTS
  RequirementKeys,
  Amounts,   \* quantities, above 0 (ck_requirement_uses_quantity)
  Units,
  Unknown,   \* None as a quantity
  Conflict,  \* ManifestConflict
  MaxUses    \* bound of the uses

ASSUME AmountsAssumption == Amounts \subseteq Nat \ {0} /\ Unknown \notin Nat

FulfillmentModes == {"reusable", "consumed"}
Necessities      == {"required", "recommended"}

Fact == [key: RequirementKeys, quantity: Amounts \cup {Unknown}, unit: Units,
         mode: FulfillmentModes, necessity: Necessities]

ManifestItems ==
  [quantity: Nat \cup {Unknown}, unit: Units, mode: FulfillmentModes,
   necessity: Necessities, uses: SUBSET Nat]

ASSUME ConflictAssumption ==
  \A keys \in SUBSET RequirementKeys : Conflict \notin [keys -> ManifestItems]

VARIABLE facts  \* the uses of a definition, by requirement_key and id

ManifestInit == facts = <<>>

AddUse(f) == Len(facts) < MaxUses /\ facts' = Append(facts, f)

ManifestNext == \E f \in Fact : AddUse(f)

ManifestSpec == ManifestInit /\ [][ManifestNext]_facts

-----------------------------------------------------------------------------
(* grouped: the use_ids of a key *)
UsesOf(fs, k) == {i \in DOMAIN fs : fs[i].key = k}

(* sum(known_quantities, start=0) *)
SumOf(fs, uses) ==
  LET sum[n \in 0..Len(fs)] ==
        IF n = 0 THEN 0
        ELSE sum[n - 1] + (IF n \in uses THEN fs[n].quantity ELSE 0)
  IN sum[Len(fs)]

(* Mutant: a tool is needed once for every use. *)
SumQuantity(fs, uses, mode) ==
  IF \E i \in uses : fs[i].quantity = Unknown THEN Unknown ELSE SumOf(fs, uses)

(* _aggregate_quantity *)
AggregateQuantity(fs, uses, mode) ==
  IF \E i \in uses : fs[i].quantity = Unknown THEN Unknown
  ELSE IF mode = "reusable" THEN Max({fs[i].quantity : i \in uses})
  ELSE SumOf(fs, uses)

ManifestItem(fs, uses) ==
  LET mode == fs[Min(uses)].mode IN
  [quantity  |-> AggregateQuantity(fs, uses, mode),
   unit      |-> fs[Min(uses)].unit,
   mode      |-> mode,
   necessity |-> IF \E i \in uses : fs[i].necessity = "required"
                 THEN "required" ELSE "recommended",
   uses      |-> uses]

BuildRequirementManifest(fs) ==
  IF \E i, j \in DOMAIN fs : fs[i].key = fs[j].key
                             /\ (fs[i].unit # fs[j].unit \/ fs[i].mode # fs[j].mode)
  THEN Conflict
  ELSE [k \in {fs[i].key : i \in DOMAIN fs} |-> ManifestItem(fs, UsesOf(fs, k))]

-----------------------------------------------------------------------------
(* Properties *)

(* "Aggregate verified requirement uses without inventing quantities or    *)
(* conversions": one more use adds its quantity to what is consumed, but   *)
(* raises what is reused only to the quantity of that use; nothing is      *)
(* known where one use says nothing; a use never makes a requirement       *)
(* weaker, touches the item of another key, or takes a conflict away; and  *)
(* the order in which the rows are read is of no effect.                   *)
Demand(fs) ==
  [k \in DOMAIN BuildRequirementManifest(fs) |->
     [BuildRequirementManifest(fs)[k] EXCEPT !.uses = {}]]

LastUseAddsUp ==
  LET f      == Last(facts)
      before == BuildRequirementManifest(Front(facts))
      after  == BuildRequirementManifest(facts)
      item   == after[f.key]
  IN
  after # Conflict =>
    /\ before # Conflict
    /\ \A k \in (DOMAIN after) \ {f.key} : k \in DOMAIN before /\ after[k] = before[k]
    /\ IF f.key \notin DOMAIN before THEN item.quantity = f.quantity
       ELSE LET q == before[f.key].quantity IN
            /\ Unknown \in {q, f.quantity} <=> item.quantity = Unknown
            /\ item.quantity # Unknown =>
                 IF f.mode = "consumed" THEN item.quantity = q + f.quantity
                 ELSE item.quantity \in {q, f.quantity} /\ item.quantity >= q
            /\ before[f.key].necessity = "required" => item.necessity = "required"

QuantitiesAreNotInvented ==
  /\ facts # <<>> => LastUseAddsUp
  /\ BuildRequirementManifest(facts) # Conflict =>
       \A i \in 1..Len(facts) - 1 :
         LET other == [facts EXCEPT ![i] = facts[i + 1], ![i + 1] = facts[i]]
         IN BuildRequirementManifest(other) # Conflict /\ Demand(other) = Demand(facts)
===============================================================================
