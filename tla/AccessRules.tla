---------------------------- MODULE AccessRules ----------------------------
(***************************************************************************)
(* Decision Authority: what a token may do (libs/access/rbac.py and        *)
(* tenant_scope.py), the two services that decide it for themselves        *)
(* (api-gateway and user-service), the cognitive boundary                  *)
(* (api-gateway/src/boundary.py, capability_policy.py), the execution      *)
(* authorization (libs/action/executor.py) and the handler that puts them  *)
(* in a row, POST /actions/{action}, which reads Redis and the confidence  *)
(* store while tokens are revoked, Redis goes away and rows are written.   *)
(*                                                                         *)
(* A request is a record; no message text is modelled, only the status.    *)
(***************************************************************************)
EXTENDS Integers, FiniteSets

CONSTANTS GateTenants,     \* tenants of requests and of confidence rows
          GateOwn,         \* the token's
          GateConfidences, \* confidence ids a request may carry
          GateTargets      \* what a confidence may be about: [type, id]

VARIABLES gateRequest,     \* the request being handled
          gateAt,          \* where action_handler is
          gateStatus,      \* its answer, 0 before
          gateRevoked,     \* the token's jti is on the blacklist
          gateRedisUp,     \* Redis answers
          gateRows,        \* confidence_scores: [id, tenant, target]
          gateAdapter,     \* the store given to GatewayService
          gateSeen         \* history: revocation as authentication saw it

gateVars == <<gateRequest, gateAt, gateStatus, gateRevoked, gateRedisUp,
              gateRows, gateAdapter, gateSeen>>

Roles == {"viewer", "operator", "admin", "superadmin"}
GateActions == {"read", "propose", "ack", "commit", "execute"}
Risks == {"low", "medium", "high"}
NoTenant == "none"
NoConfidence == "none"
Unstated == "unstated"

-----------------------------------------------------------------------------
(* libs/access/rbac.py                                                     *)

\* _ROLE_PERMISSIONS
RolePermissions ==
  [viewer     |-> {"read"},
   operator   |-> {"read", "ack"},
   admin      |-> {"read", "propose", "ack", "commit", "define_policy"},
   superadmin |-> {"read", "propose", "ack", "commit", "execute",
                   "define_policy", "cross_tenant"}]

\* _COMMIT_RISK_CEILING
CommitRiskCeiling ==
  [viewer |-> {}, operator |-> {}, admin |-> {"low", "medium"},
   superadmin |-> Risks]

RoleCan(role, permission) == permission \in RolePermissions[role]

\* Mutant: whoever may commit may commit at any risk.
CommitAllowedAnyRisk(role, risk) == RoleCan(role, "commit")

\* No risk named is no constraint.
CommitAllowed(role, risk) ==
  /\ RoleCan(role, "commit")
  /\ risk = "unstated" \/ risk \in CommitRiskCeiling[role]

\* tenant_scope: the effective tenant, or "refused".
TenantScope(role, own, requested) ==
  LET target == IF requested = NoTenant THEN own ELSE requested IN
  IF target # own /\ ~RoleCan(role, "cross_tenant") THEN "refused" ELSE target

-----------------------------------------------------------------------------
(* The two deciders and the boundary.                                      *)

\* AuthorizationContext.resolve
ResolveTenant(role, own, requested) ==
  IF requested = NoTenant \/ requested = own THEN own
  ELSE IF RoleCan(role, "cross_tenant") THEN requested ELSE "refused"

\* GatewayService.authorize_action; ACTION_PERMISSION is the identity.
AuthorizeAction(role, own, action, risk, requested) ==
  /\ IF action = "commit" THEN CommitAllowed(role, risk)
     ELSE RoleCan(role, action)
  /\ requested \in {NoTenant, own} \/ RoleCan(role, "cross_tenant")

\* Mutant: the user service forgets the tenant of the request.
UserServiceAuthorizeAnywhere(role, permission, risk, requested, own) ==
  IF permission = "commit" THEN CommitAllowed(role, risk)
  ELSE RoleCan(role, permission)

\* UserService.authorize
UserServiceAuthorize(role, permission, risk, requested, own) ==
  /\ IF permission = "commit" THEN CommitAllowed(role, risk)
     ELSE RoleCan(role, permission)
  /\ (requested # NoTenant /\ requested # own) => RoleCan(role, "cross_tenant")

\* boundary_gate: propose and commit name a confidence.
BoundaryGate(action, confidence) ==
  IF action \notin GateActions THEN "unknown_action"
  ELSE IF action \in {"propose", "commit"} /\ confidence = NoConfidence
       THEN "missing_confidence" ELSE "ok"

\* validate_execution_authorization
ExecutionAuthorized(role, risk) ==
  RoleCan(role, "execute") /\ risk \in CommitRiskCeiling[role]

\* CANONICAL_FLOW, the successor of each concept.
CanonicalFlow ==
  [observation |-> {"evidence"}, evidence |-> {"context"},
   context |-> {"pattern"}, pattern |-> {"anomaly"},
   anomaly |-> {"hypothesis"}, hypothesis |-> {"insight"},
   insight |-> {"recommendation"}, recommendation |-> {"decision"},
   decision |-> {"execution"}]

\* CAPABILITY_POLICIES, as far as the validators read it.
Policy(inputs, outputs, confidence, authority) ==
  [inputs |-> inputs, outputs |-> outputs, confidence |-> confidence,
   authority |-> authority]

CapabilityPolicies ==
  [observation    |-> Policy({}, {"evidence"}, FALSE, "read"),
   evidence       |-> Policy({"observation"}, {"context"}, FALSE, "read"),
   context        |-> Policy({"evidence"}, {"pattern"}, FALSE, "read"),
   pattern        |-> Policy({"context"}, {"anomaly"}, FALSE, "read"),
   anomaly        |-> Policy({"pattern"}, {"hypothesis"}, FALSE, "read"),
   hypothesis     |-> Policy({"anomaly"}, {"insight"}, FALSE, "read"),
   insight        |-> Policy({"hypothesis"}, {"recommendation"}, FALSE,
                             "read"),
   confidence     |-> Policy({"hypothesis", "recommendation", "decision"}, {},
                             FALSE, "read"),
   recommendation |-> Policy({"insight"}, {"decision"}, TRUE, "propose"),
   decision       |-> Policy({"recommendation"}, {"execution"}, TRUE,
                             "commit"),
   execution      |-> Policy({"decision"}, {}, TRUE, "execute")]

\* validate_capability_transition
TransitionAllowed(source, target) ==
  /\ source \in DOMAIN CapabilityPolicies
  /\ target \in CapabilityPolicies[source].outputs

\* validate_authority
AuthorityAllowed(capability, role) ==
  /\ capability \in DOMAIN CapabilityPolicies
  /\ RoleCan(role, CapabilityPolicies[capability].authority)

-----------------------------------------------------------------------------
(* POST /actions/{action}                                                  *)

\* A request without a bearer token is refused before anything else is read.
NoRequest == [role |-> "viewer", own |-> GateOwn, action |-> "read",
              risk |-> "low", tenant |-> NoTenant,
              confidence |-> NoConfidence, target_type |-> Unstated,
              target_id |-> Unstated, header |-> "other"]

\* The client names the tenant, the confidence and what it is about as it
\* likes.  What the handler does not read of a request is left at its default:
\* the risk unless it commits, the target unless it has a confidence to check.
GateRequests ==
  {NoRequest} \cup
  {r \in [role : Roles, own : {GateOwn}, action : GateActions \cup {"delete"},
          risk : Risks \cup {"extreme"}, tenant : GateTenants \cup {NoTenant},
          confidence : GateConfidences \cup {NoConfidence},
          target_type : {t.type : t \in GateTargets} \cup {Unstated},
          target_id : {t.id : t \in GateTargets} \cup {Unstated},
          header : {"bearer"}] :
     /\ r.action # "commit" => r.risk = "low"
     /\ r.action \notin {"propose", "commit"} \/ r.confidence = NoConfidence =>
          r.target_type = Unstated /\ r.target_id = Unstated}

GateInit ==
  /\ gateRequest = NoRequest /\ gateAt = "waiting" /\ gateStatus = 0
  /\ gateRevoked \in BOOLEAN /\ gateRedisUp = TRUE /\ gateSeen = FALSE
  /\ gateRows = {}
  /\ gateAdapter \in {"unset", "without method", "store"}

GateReceive(r) ==
  /\ gateAt = "waiting"
  /\ gateRequest' = r /\ gateAt' = "authenticate"
  /\ UNCHANGED <<gateStatus, gateRevoked, gateRedisUp, gateRows, gateAdapter,
                 gateSeen>>

GateAnswer(status) == gateAt' = "answered" /\ gateStatus' = status

\* authenticate: no bearer, a revoked jti and an unreachable blacklist are
\* all 401.
Authenticate ==
  /\ gateAt = "authenticate"
  /\ gateSeen' = gateRevoked
  /\ IF gateRequest.header = "bearer" /\ gateRedisUp /\ ~gateRevoked
     THEN gateAt' = "decide" /\ UNCHANGED gateStatus
     ELSE GateAnswer(401)
  /\ UNCHANGED <<gateRequest, gateRevoked, gateRedisUp, gateRows, gateAdapter>>

\* enforce_boundary, the risk check and require_authorized, without an
\* await in between.
Decide ==
  LET r == gateRequest IN
  /\ gateAt = "decide"
  /\ IF \/ BoundaryGate(r.action, r.confidence) # "ok"
        \/ r.action = "commit" /\ r.risk \notin Risks
     THEN GateAnswer(400)
     ELSE IF ~AuthorizeAction(r.role, r.own, r.action,
                IF r.action = "commit" THEN r.risk ELSE "unstated", r.tenant)
     THEN GateAnswer(403)
     ELSE IF r.action \in {"propose", "commit"}
     THEN gateAt' = "provenance" /\ UNCHANGED gateStatus
     ELSE GateAnswer(200)
  /\ UNCHANGED <<gateRequest, gateRevoked, gateRedisUp, gateRows, gateAdapter,
                 gateSeen>>

\* The tenant the confidence is looked up in.
ConfidenceTenant(r) == IF r.tenant = NoTenant THEN r.own ELSE r.tenant

\* Mutant: a confidence counts in every tenant.
BindingFoundAnywhere(r, row) ==
  /\ row.id = r.confidence
  /\ row.target.type = (IF r.target_type = Unstated THEN "hypothesis" ELSE r.target_type)
  /\ r.target_id \in {Unstated, row.target.id}

\* get_confidence_for_boundary, as the handler asks: for a row of the tenant,
\* about a target of the type the client names, a hypothesis if it names none,
\* and about the very target if it names one.
BindingFound(r, row) ==
  /\ row.id = r.confidence /\ row.tenant = ConfidenceTenant(r)
  /\ row.target.type = (IF r.target_type = Unstated THEN "hypothesis" ELSE r.target_type)
  /\ r.target_id \in {Unstated, row.target.id}

\* verify_confidence_provenance: no store is SecurityControlUnavailable and
\* a store without the method an AttributeError, both answered 400; a row
\* that is not found is ConfidenceProvenanceError, 403.
VerifyProvenance ==
  LET r == gateRequest IN
  /\ gateAt = "provenance"
  /\ IF gateAdapter # "store" THEN GateAnswer(400)
     ELSE IF \E row \in gateRows : BindingFound(r, row)
     THEN GateAnswer(200) ELSE GateAnswer(403)
  /\ UNCHANGED <<gateRequest, gateRevoked, gateRedisUp, gateRows, gateAdapter,
                 gateSeen>>

GateReturns ==
  /\ gateAt = "answered"
  /\ gateAt' = "waiting" /\ gateStatus' = 0 /\ gateRequest' = NoRequest
  /\ gateSeen' = FALSE
  /\ UNCHANGED <<gateRevoked, gateRedisUp, gateRows, gateAdapter>>

\* The rest of the system meanwhile.
TokenRevoked ==
  /\ ~gateRevoked /\ gateRevoked' = TRUE
  /\ UNCHANGED <<gateRequest, gateAt, gateStatus, gateRedisUp, gateRows,
                 gateAdapter, gateSeen>>

RedisChanges ==
  /\ gateRedisUp' = ~gateRedisUp
  /\ UNCHANGED <<gateRequest, gateAt, gateStatus, gateRevoked, gateRows,
                 gateAdapter, gateSeen>>

\* One row, a bound of the model; it may come at any moment of a request.
ConfidenceStored(id, tenant, target) ==
  /\ gateRows = {}
  /\ gateRows' = {[id |-> id, tenant |-> tenant, target |-> target]}
  /\ UNCHANGED <<gateRequest, gateAt, gateStatus, gateRevoked, gateRedisUp,
                 gateAdapter, gateSeen>>

GateNext ==
  \/ gateAt = "waiting" /\ \E r \in GateRequests : GateReceive(r)
  \/ Authenticate \/ Decide \/ VerifyProvenance \/ GateReturns
  \/ TokenRevoked \/ RedisChanges
  \/ \E id \in GateConfidences, t \in GateTenants,
        target \in GateTargets : ConfidenceStored(id, t, target)

GateSpec == GateInit /\ [][GateNext]_gateVars

-----------------------------------------------------------------------------
\* Authority as the documentation of the roles ranks it.
Rank == [viewer |-> 1, operator |-> 2, admin |-> 3, superadmin |-> 4]

Needed(action, risk) ==
  CASE action = "read" -> 1 [] action = "ack" -> 2
    [] action = "propose" -> 3 [] action = "execute" -> 4
    [] action = "commit" /\ risk \in {"low", "medium"} -> 3
    [] OTHER -> 4

\* The action endpoint says yes exactly to what the rank of the role covers,
\* across tenants only to a superadmin, with a token that was not revoked
\* when it was authenticated, and for propose and commit with a confidence
\* row of the tenant acted on, about the target the client names or, if it
\* names none, about some hypothesis of that tenant.  What the row is about is
\* the client's word: the handler knows no subject of the action to hold it
\* against.  Within the rank, only a propose or a commit gets a 403.
GateFollowsRank ==
  LET r == gateRequest
      within == /\ Rank[r.role] >= Needed(r.action, r.risk)
                /\ ConfidenceTenant(r) # r.own => Rank[r.role] = 4
      proved == r.action \in {"propose", "commit"} =>
                  \E row \in gateRows :
                     /\ row.id = r.confidence
                     /\ row.tenant = (IF r.tenant = NoTenant THEN r.own ELSE r.tenant)
                     /\ \/ r.target_type = row.target.type
                        \/ r.target_type = Unstated /\ row.target.type = "hypothesis"
                     /\ r.target_id # Unstated => row.target.id = r.target_id
  IN  /\ gateStatus = 200 => /\ r.header = "bearer" /\ ~gateSeen
                             /\ r.action \in GateActions
                             /\ r.action = "commit" => r.risk \in Risks
                             /\ within /\ proved
      /\ gateStatus = 403 /\ within => r.action \in {"propose", "commit"}

\* The deciders of the two services, the two tenant scopes and the two tables
\* of the boundary agree on every request that was answered; execution is
\* never wider than commit.
DecidersAgree ==
  LET r == gateRequest
      risk == IF r.risk \in Risks THEN r.risk ELSE "unstated"
  IN  gateAt = "answered" =>
      /\ r.action \in GateActions =>
           (UserServiceAuthorize(r.role, r.action, risk, r.tenant, r.own)
              <=> AuthorizeAction(r.role, r.own, r.action, risk, r.tenant))
      /\ TenantScope(r.role, r.own, r.tenant)
           = ResolveTenant(r.role, r.own, r.tenant)
      /\ \A s \in DOMAIN CanonicalFlow : \A t \in DOMAIN CapabilityPolicies :
           /\ TransitionAllowed(s, t) <=> t \in CanonicalFlow[s]
           /\ TransitionAllowed(s, t) => s \in CapabilityPolicies[t].inputs
      /\ AuthorityAllowed("decision", r.role) <=> CommitAllowed(r.role, "low")
      /\ ExecutionAuthorized(r.role, risk) => CommitAllowed(r.role, risk)

\* One authority: what action_handler answers is what every decider of the
\* repository would.
AuthorityConsistent == GateFollowsRank /\ DecidersAgree
=============================================================================
