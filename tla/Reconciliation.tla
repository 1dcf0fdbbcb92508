---------------------------- MODULE Reconciliation ----------------------------
(***************************************************************************)
(* reconcile_field_observations: what the reviewed observations of one     *)
(* field of a vehicle specification add up to.  Fields do not influence    *)
(* each other, and a value stands for all its spellings                    *)
(* (_normalized_value).  Observations come one after the other, in the     *)
(* order of fetched_at, as reviewers verify records.                       *)
(***************************************************************************)
EXTENDS Integers, Sequences, FiniteSets, TLC, SequencesExt

CONSTANTS
  Sources,          \* names of sources
  Manufacturers,    \* the sources of class "manufacturer"
  Values,           \* numbers, so that they have an order (_normalized_value)
  MaxObservations,  \* bound of the observations
  NoValue           \* None

ASSUME ValuesAssumption == Values \subseteq Int

Threshold == 3

Kinds == {"ordinary", "manufacturer_reported"}

Observation == [source: Sources, value: Values, kind: Kinds]

VARIABLE observations

ReconciliationInit == observations = <<>>

(* A record with an observation of the field is verified.                  *)
Observe(o) ==
  /\ Len(observations) < MaxObservations
  /\ observations' = Append(observations, o)

ReconciliationNext == \E o \in Observation : Observe(o)

ReconciliationSpec == ReconciliationInit /\ [][ReconciliationNext]_observations

-----------------------------------------------------------------------------
Spoken(obs) == {obs[i].source : i \in DOMAIN obs}

IsLastWord(obs, i) == \A j \in DOMAIN obs : i < j => obs[j].source # obs[i].source

(* by_field_source: of a source, each observation overwrites the ones      *)
(* before it.                                                              *)
BySource(obs) ==
  [s \in Spoken(obs) |->
     obs[CHOOSE i \in DOMAIN obs : obs[i].source = s /\ IsLastWord(obs, i)]]

(* value_groups *)
Group(votes, v) == {x \in DOMAIN votes : votes[x].value = v}

(* More votes first, then by value. *)
Ahead(votes, a, b) ==
  LET size(v) == Cardinality(Group(votes, v))
  IN size(a) > size(b) \/ (size(a) = size(b) /\ a < b)

(* The i-th of the values has i - 1 ahead of it. *)
Ranked(votes) ==
  LET values == {votes[x].value : x \in DOMAIN votes} IN
  [i \in 1..Cardinality(values) |->
     CHOOSE v \in values : Cardinality({w \in values : Ahead(votes, w, v)}) = i - 1]

(* Mutant: a value with as many votes does not matter. *)
NeverTied(votes) == FALSE

Tied(votes) ==
  LET ranked == Ranked(votes) IN
  /\ Len(ranked) > 1
  /\ Cardinality(Group(votes, ranked[2])) = Cardinality(Group(votes, ranked[1]))

(* A field is manufacturer_reported when all its observations are. *)
Kind(votes) ==
  IF {votes[x].kind : x \in DOMAIN votes} = {"manufacturer_reported"}
  THEN "manufacturer_reported" ELSE "ordinary"

Decision(votes) ==
  LET winner == Group(votes, Ranked(votes)[1])
      kind   == Kind(votes)
  IN CASE kind = "manufacturer_reported" /\ ~Tied(votes)
            /\ (\E x \in winner : votes[x].source \in Manufacturers) -> "manufacturer_reported"
       [] kind = "ordinary" /\ Cardinality(winner) >= Threshold /\ ~Tied(votes) -> "verified"
       [] OTHER -> IF Len(Ranked(votes)) > 1 THEN "conflict" ELSE "candidate"

Promoted == {"verified", "manufacturer_reported"}

(* The entry of the field in the result.                                   *)
Entry(votes) ==
  LET ranked == Ranked(votes)
      who(v) == {votes[x].source : x \in Group(votes, v)}
  IN [kind |-> Kind(votes),
      status |-> Decision(votes),
      selected |-> IF Decision(votes) \in Promoted THEN ranked[1] ELSE NoValue,
      sources |-> who(ranked[1]),
      conflicts |-> [i \in 1..Len(ranked) - 1 |->
                       [value |-> ranked[i + 1], sources |-> who(ranked[i + 1])]]]

Reconcile(obs) == Entry(BySource(obs))

-----------------------------------------------------------------------------
(* Properties *)

Says(s, v) ==
  \E i \in DOMAIN observations :
    /\ observations[i].source = s /\ observations[i].value = v
    /\ \A j \in i + 1..Len(observations) : observations[j].source # s

Result == Reconcile(observations)

(* "promotes ordinary fields only after three matching sources", "one vote *)
(* per source": a promoted value is what more sources say now than any     *)
(* other, three at least of an ordinary field and a manufacturer among     *)
(* them of the other kind, however often, and in whatever order, a source  *)
(* has spoken.                                                             *)
PromotedValueIsSupported ==
  observations # <<>> /\ Result.status \in Promoted =>
    LET say(v) == {s \in Sources : Says(s, v)} IN
    /\ \A v \in Values \ {Result.selected} :
         Cardinality(say(v)) < Cardinality(say(Result.selected))
    /\ IF Result.status = "verified"
       THEN Cardinality(say(Result.selected)) >= Threshold
       ELSE say(Result.selected) \cap Manufacturers # {}

(* What a source said before does not count any more, and the order of     *)
(* different sources never did: records that are fetched or verified in    *)
(* another order come to the same result.                                  *)
OnlyLastWordsCount ==
  \A i \in 1..Len(observations) - 1 :
    IF \E j \in i + 1..Len(observations) : observations[j].source = observations[i].source
    THEN Reconcile(RemoveAt(observations, i)) = Result
    ELSE observations[i].source # observations[i + 1].source =>
           Reconcile([observations EXCEPT ![i] = observations[i + 1],
                                          ![i + 1] = observations[i]]) = Result

(* A field of a specification is promoted by the votes its sources have    *)
(* now, and by nothing else.                                               *)
PromotionIsByVotes == PromotedValueIsSupported /\ OnlyLastWordsCount
===============================================================================
