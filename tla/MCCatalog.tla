------------------------------- MODULE MCCatalog ------------------------------
(***************************************************************************)
(* The catalog, from what collectors stage to what a repair session reads, *)
(* for TLC: staging and review, the reconciliation of what reviews let     *)
(* through, the manifest that the uses of a definition add up to, and the  *)
(* reading of definitions that are published and superseded.  Staging does *)
(* not look into a record, reconciliation at nothing but observations, and *)
(* the definitions are curated outside the API, so the four share no       *)
(* state, and a behaviour is one of one of them.                           *)
(***************************************************************************)
EXTENDS CatalogStaging, Reconciliation, VerifiedKnowledge

CONSTANTS jack, oil, piece, litre, c1, c2, c3, c4

(* The older of two versions uses the jack twice; a claim about oil stands *)
(* behind both versions, and only the older has a procedure.               *)
MCFact(k, q, u, m) ==
  [key |-> k, quantity |-> q, unit |-> u, mode |-> m, necessity |-> "required"]

MCUses ==
  <<<<MCFact(jack, 1, piece, "reusable"), MCFact(jack, 2, piece, "reusable"),
      MCFact(oil, 2, litre, "consumed")>>,
    <<MCFact(oil, Unknown, litre, "consumed")>>>>

MCUseClaims == <<<<{c1}, {c2}, {c2, c3}>>, <<{c3}>>>>

MCProcedure == <<<<{c1}, {c4}>>, <<>>>>

MCInit == Init /\ ReconciliationInit /\ ManifestInit /\ KnowledgeInit

MCStaging ==
  /\ ReconciliationInit /\ ManifestInit /\ KnowledgeInit
  /\ Next /\ UNCHANGED <<observations, facts, knowledgeVars>>

MCReconciliation ==
  /\ Init /\ ManifestInit /\ KnowledgeInit
  /\ ReconciliationNext /\ UNCHANGED <<vars, facts, knowledgeVars>>

MCManifest ==
  /\ Init /\ ReconciliationInit /\ KnowledgeInit
  /\ ManifestNext /\ UNCHANGED <<vars, observations, knowledgeVars>>

MCKnowledge ==
  /\ Init /\ ReconciliationInit /\ ManifestInit
  /\ KnowledgeNext /\ UNCHANGED <<vars, observations, facts>>

MCNext == MCStaging \/ MCReconciliation \/ MCManifest \/ MCKnowledge

MCSpec == MCInit /\ [][MCNext]_<<vars, observations, facts, knowledgeVars>>

(* Sources of the same class are alike, and so are sessions and records.   *)
MCSymmetry ==
  Permutations(Sources \ Manufacturers) \cup Permutations(Sessions) \cup Permutations(Keys)
===============================================================================
