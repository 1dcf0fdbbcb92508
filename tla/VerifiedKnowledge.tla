--------------------------- MODULE VerifiedKnowledge ---------------------------
(***************************************************************************)
(* Reading verified repair knowledge: the manifest and the procedure of a  *)
(* repair definition, each put together from several SELECTs at READ       *)
(* COMMITTED, while versions are published and superseded by transactions  *)
(* outside the API.                                                        *)
(*                                                                         *)
(* The uses, actions and evidence links of a definition do not change once *)
(* it is verified; what changes are the status of definitions, the states  *)
(* of the claims behind them and the capability policy.  A claim is linked *)
(* to what it supports; one with the wrong domain, vehicle or repair key   *)
(* supports nothing.  The graph of dependencies is checked in GuidedRepair.*)
(***************************************************************************)
EXTENDS RequirementManifest

CONSTANTS
  Readers,     \* requests, each with a database session of its own
  Versions,    \* definitions of one repair of one vehicle configuration
  Claims,      \* mechanical_claims
  Uses,        \* Uses[v]: the requirement uses of a version, as facts
  UseClaims,   \* UseClaims[v][i]: the claims linked to a use
  Procedure,   \* Procedure[v][i]: the claims linked to the i-th action
  NoAnswer     \* no request has been answered

(* Versions are curated outside the API.  A reader of one that is not so   *)
(* ends in an integrity error.                                             *)
ASSUME KnowledgeAssumption ==
  \A v \in Versions :
    /\ Uses[v] \in Seq(Fact) /\ BuildRequirementManifest(Uses[v]) # Conflict
    /\ UseClaims[v] \in [DOMAIN Uses[v] -> (SUBSET Claims) \ {{}}]
    /\ Procedure[v] \in Seq((SUBSET Claims) \ {{}})

VARIABLES
  definition,  \* repair_definitions: status
  claim,       \* mechanical_claims: promotion_state
  policy,      \* repair_capability_policies: guidance_state
  reader,      \* the requests under way
  answer       \* what the last request of a reader was answered

knowledgeVars == <<definition, claim, policy, reader, answer>>

GuidanceStates == {"supported", "professional_required", "prohibited"}

NotReading == [pc |-> "idle"]

KnowledgeInit ==
  /\ definition = [v \in Versions |-> "draft"]
  /\ claim = [c \in Claims |-> "needs_review"]
  /\ policy = "supported"
  /\ reader = [r \in Readers |-> NotReading]
  /\ answer = [r \in Readers |-> NoAnswer]

-----------------------------------------------------------------------------
(* Publication, outside the API: each of these is one transaction.         *)

ClaimsOf(v) ==
  UNION ({UseClaims[v][i] : i \in DOMAIN UseClaims[v]}
         \cup {Procedure[v][i] : i \in DOMAIN Procedure[v]})

(* A claim stays verified while a verified version rests on it.            *)
ClaimsUnder(status) ==
  LET resting(s) == UNION {ClaimsOf(v) : v \in {v \in Versions : status[v] = s}} IN
  [c \in Claims |-> IF c \in resting("verified") THEN "verified"
                    ELSE IF c \in resting("superseded") THEN "superseded" ELSE claim[c]]

SetStatus(status) ==
  /\ definition' = status
  /\ claim' = ClaimsUnder(status)
  /\ UNCHANGED <<policy, reader, answer>>

Publish(v) ==
  definition[v] = "draft" /\ SetStatus([definition EXCEPT ![v] = "verified"])

SupersedeVersion(v) ==
  definition[v] = "verified" /\ SetStatus([definition EXCEPT ![v] = "superseded"])

Replace(v, w) ==
  /\ definition[v] = "verified" /\ definition[w] = "draft"
  /\ SetStatus([definition EXCEPT ![v] = "superseded", ![w] = "verified"])

ChangePolicy(state) ==
  /\ policy' = state
  /\ UNCHANGED <<definition, claim, reader, answer>>

-----------------------------------------------------------------------------
(* Requests *)

Continue(r, next) ==
  reader' = [reader EXCEPT ![r] = next] /\ UNCHANGED <<definition, claim, policy, answer>>

Answer(r, outcome, content) ==
  /\ answer' = [answer EXCEPT ![r] =
       [want |-> reader[r].want, bound |-> reader[r].bound, version |-> reader[r].version,
        outcome |-> outcome, content |-> content]]
  /\ reader' = [reader EXCEPT ![r] = NotReading]
  /\ UNCHANGED <<definition, claim, policy>>

Fail(r, code) == Answer(r, code, {})

(* verified_requirement_manifest, verified_procedure_plan *)
BeginVerified(r, want) ==
  /\ reader[r] = NotReading
  /\ Continue(r, [pc |-> "definitions", want |-> want, bound |-> FALSE, version |-> 0])

(* bound_requirement_manifest, and _guidance_view of a session that was    *)
(* bound to a version when it was verified.                                *)
BeginBound(r, want, v) ==
  /\ reader[r] = NotReading
  /\ definition[v] # "draft"
  /\ Continue(r, [pc |-> "definition", want |-> want, bound |-> TRUE, version |-> v])

First(want) == IF want = "manifest" THEN "uses" ELSE "policy"

(* The definitions of the repair in status "verified", two at most.        *)
FindVerified(r) ==
  LET found == {v \in Versions : definition[v] = "verified"} IN
  /\ reader[r].pc = "definitions"
  /\ CASE found = {} -> Fail(r, "NOT_FOUND")
       [] Cardinality(found) > 1 -> Fail(r, "INTEGRITY_ERROR")
       [] OTHER -> Continue(r, [reader[r] EXCEPT !.pc = First(reader[r].want),
                                                 !.version = CHOOSE v \in found : TRUE])

BoundStates == {"verified", "superseded"}

FindBound(r) ==
  /\ reader[r].pc = "definition"
  /\ IF definition[reader[r].version] \in BoundStates
     THEN Continue(r, [reader[r] EXCEPT !.pc = First(reader[r].want)])
     ELSE Fail(r, "BINDING_INVALID")

(* Mutant: evidence has to be verified now, whoever asks. *)
CurrentStates(bound) == {"verified"}

(* allowed_claim_states *)
AllowedClaimStates(bound) == IF bound THEN {"verified", "superseded"} ELSE {"verified"}

Supporting(claims, bound) == {c \in claims : claim[c] \in AllowedClaimStates(bound)}

(* _manifest_for_definition: the uses, ... *)
ReadUses(r) ==
  /\ reader[r].pc = "uses"
  /\ Continue(r, [reader[r] EXCEPT !.pc = "use evidence"])

(* ... their evidence, without which there is no manifest.                 *)
ReadUseEvidence(r) ==
  LET v        == reader[r].version
      found    == [i \in DOMAIN Uses[v] |-> Supporting(UseClaims[v][i], reader[r].bound)]
      manifest == BuildRequirementManifest(Uses[v])
  IN
  /\ reader[r].pc = "use evidence"
  /\ IF \E i \in DOMAIN found : found[i] = {} THEN Fail(r, "INTEGRITY_ERROR")
     ELSE Answer(r, "ok", {<<k, manifest[k], UNION {found[i] : i \in manifest[k].uses}>> :
                             k \in DOMAIN manifest})

(* _procedure_for_definition: the policy, ... *)
ReadPolicy(r) ==
  /\ reader[r].pc = "policy"
  /\ IF policy = "supported" THEN Continue(r, [reader[r] EXCEPT !.pc = "actions"])
     ELSE Fail(r, policy)

(* ... the actions, with their dependencies and uses, ... *)
ReadActions(r) ==
  /\ reader[r].pc = "actions"
  /\ IF Procedure[reader[r].version] = <<>> THEN Fail(r, "NOT_AVAILABLE")
     ELSE Continue(r, [reader[r] EXCEPT !.pc = "action evidence"])

(* ... and their evidence. *)
ReadActionEvidence(r) ==
  LET actions == Procedure[reader[r].version]
      found   == [i \in DOMAIN actions |-> Supporting(actions[i], reader[r].bound)]
  IN
  /\ reader[r].pc = "action evidence"
  /\ IF \E i \in DOMAIN found : found[i] = {} THEN Fail(r, "INTEGRITY_ERROR")
     ELSE Answer(r, "ok", {<<i, found[i]>> : i \in DOMAIN found})

Read(r) ==
  \/ FindVerified(r) \/ FindBound(r)
  \/ ReadUses(r) \/ ReadUseEvidence(r)
  \/ ReadPolicy(r) \/ ReadActions(r) \/ ReadActionEvidence(r)

KnowledgeNext ==
  \/ \E v \in Versions : Publish(v) \/ SupersedeVersion(v) \/ \E w \in Versions : Replace(v, w)
  \/ \E state \in GuidanceStates : ChangePolicy(state)
  \/ \E r \in Readers :
       \/ \E want \in {"manifest", "procedure"} :
            BeginVerified(r, want) \/ \E v \in Versions : BeginBound(r, want, v)
       \/ Read(r)

KnowledgeSpec == KnowledgeInit /\ [][KnowledgeNext]_knowledgeVars
-----------------------------------------------------------------------------
(* Properties *)

(* What a session is bound to stays readable, and the same                 *)
(* (test_bound_readiness_remains_version_pinned_when_definition_is_        *)
(* superseded): whatever is published, superseded or replaced before, or   *)
(* between two SELECTs of, the request, the manifest and the procedure are *)
(* the whole ones of that version with all their evidence, never an error; *)
(* only the policy withholds a procedure.                                  *)
WholeAnswer(want, v) ==
  IF want = "procedure" THEN {<<i, Procedure[v][i]>> : i \in DOMAIN Procedure[v]}
  ELSE LET manifest == BuildRequirementManifest(Uses[v])
       IN {<<k, manifest[k], UNION {UseClaims[v][i] : i \in manifest[k].uses}>> :
             k \in DOMAIN manifest}

BoundKnowledgeIsPinned ==
  \A r \in Readers : answer[r] # NoAnswer =>
    LET a == answer[r] IN
    /\ a.bound => \/ a.outcome = "ok"
                  \/ a.want = "procedure" /\ a.outcome \in GuidanceStates \ {"supported"}
                  \/ a.want = "procedure" /\ a.outcome = "NOT_AVAILABLE"
                     /\ Procedure[a.version] = <<>>
    /\ a.bound /\ a.outcome = "ok" => a.content = WholeAnswer(a.want, a.version)
===============================================================================
