---------------------------- MODULE Placement -----------------------------
(***************************************************************************)
(* The operator's placement document (enterprise/control/placement.py):    *)
(* what PlacementConfig accepts, the policy it derives for a table and the *)
(* checks made again at every dispatch.                                    *)
(*                                                                         *)
(* A document is the record of its parsed JSON sections.  An absent text is*)
(* "", an absent limit is NoLimit, an absent list is empty.  The policy of *)
(* a connection or table is written as a record of the fields the document *)
(* names, so the merge of a table with its connection is the merge of two  *)
(* records.  Identities, locations, tenants and tables are opaque names; a *)
(* table pattern is the set of names it matches.                           *)
(***************************************************************************)
EXTENDS Naturals, FiniteSets, Sequences, Functions, TLC

CONSTANT None

NoLimit == 0

Empty == [tenant |-> "", required |-> "", fallbacks |-> << >>, location |-> "",
          profile |-> "", max |-> NoLimit, sourceMax |-> NoLimit, residency |-> {},
          staging |-> "", endpoints |-> {}, replicas |-> {}, caches |-> {}]

PolicyOf(raw) == raw @@ Empty

Targets(p) == (IF p.required = "" THEN << >> ELSE <<p.required>>) \o p.fallbacks
TargetPools(p) == Range(Targets(p))

\* The tenant of one definition: declared when tenants are, and only then.
TenantOk(doc, tenant) == IF doc.tenants = {} THEN tenant = "" ELSE tenant \in doc.tenants

VersionsOk(v) ==
    v # None =>
        /\ v.current # v.previous
        /\ DOMAIN v.rings # {}
        /\ \A ring \in DOMAIN v.rings :
              v.rings[ring] # {} /\ v.rings[ring] \subseteq {v.current, v.previous}

RingOk(doc, pool) ==
    IF doc.versions = None THEN pool.ring = "" ELSE pool.ring \in DOMAIN doc.versions.rings

PoolsOk(doc) ==
    \A i \in DOMAIN doc.pools :
        /\ i # "" /\ doc.pools[i].identities # {}
        /\ TenantOk(doc, doc.pools[i].tenant)
        /\ RingOk(doc, doc.pools[i])
        /\ \A j \in DOMAIN doc.pools \ {i} :
              doc.pools[i].identities \cap doc.pools[j].identities = {}

PolicyOk(doc, p) ==
    /\ p.fallbacks # << >> => p.required # ""
    /\ TargetPools(p) \subseteq DOMAIN doc.pools
    /\ Cardinality(TargetPools(p)) = Len(Targets(p))
    /\ TenantOk(doc, p.tenant)

ConnectionPolicy(doc, c) ==
    IF c \in DOMAIN doc.connections THEN PolicyOf(doc.connections[c]) ELSE Empty

\* What a table's definition becomes: its connection's tenant when it names none,
\* and the rest of a constrained connection's definition under its own fields.
TableRaw(doc, k) ==
    LET raw    == doc.tables[k]
        parent == ConnectionPolicy(doc, k[1])
        owned  == IF parent.tenant # "" THEN raw @@ [tenant |-> parent.tenant] ELSE raw
    IN IF parent.residency # {} THEN owned @@ doc.connections[k[1]] ELSE owned

TablePolicy(doc, k) == PolicyOf(TableRaw(doc, k))

\* A table neither changes its connection's tenant nor widens its residency.
WithinParent(doc, k) ==
    LET parent == ConnectionPolicy(doc, k[1]) table == TablePolicy(doc, k)
    IN /\ parent.tenant # "" => table.tenant = parent.tenant
       /\ parent.residency # {} =>
             table.residency # {} /\ table.residency \subseteq parent.residency

\* validate_tenant: every store, pool and endpoint the policy names is its tenant's.
ValidTenant(doc, p) ==
    doc.tenants # {} =>
        /\ p.tenant \in doc.tenants
        /\ \A s \in ({p.profile, p.staging} \cup p.replicas \cup p.caches) \ {""} :
              s \in DOMAIN doc.stores /\ doc.stores[s].tenant = p.tenant
        /\ \A i \in TargetPools(p) : doc.pools[i].tenant = p.tenant
        /\ \A e \in p.endpoints :
              e \in DOMAIN doc.endpoints /\ doc.endpoints[e].tenant = p.tenant

Staging(p) == IF p.staging = "" THEN p.profile ELSE p.staging

EndpointOk(doc, p, e) ==
    /\ e \in DOMAIN doc.endpoints
    /\ doc.endpoints[e].location \in p.residency
    /\ doc.endpoints[e].profile \in DOMAIN doc.stores
    /\ doc.stores[doc.endpoints[e].profile].location = doc.endpoints[e].location
    /\ doc.endpoints[e].profile \in {p.profile} \cup p.replicas

\* Mutant of PoolsInside: the fallbacks are not looked at.
RequiredPoolInside(doc, p) ==
    doc.pools[p.required].location \in p.residency /\ doc.pools[p.required].profile # ""

PoolsInside(doc, p) ==
    \A i \in TargetPools(p) :
        /\ i \in DOMAIN doc.pools
        /\ doc.pools[i].location \in p.residency /\ doc.pools[i].profile # ""

\* validate_residency: the whole chain, from the pools that read the source to
\* the stores and endpoints that serve it, is inside the policy's locations.
ValidResidency(doc, p) ==
    IF p.residency = {}
    THEN p.staging = "" /\ p.endpoints = {} /\ p.replicas = {} /\ p.caches = {}
    ELSE /\ p.required # "" /\ p.profile # "" /\ p.endpoints # {}
         /\ p.location # "" => p.location \in p.residency
         /\ PoolsInside(doc, p)
         /\ \A e \in p.endpoints : EndpointOk(doc, p, e)
         /\ \A s \in {p.profile, Staging(p)} \cup p.replicas \cup p.caches
                     \cup {doc.pools[i].profile : i \in TargetPools(p)} :
               s \in DOMAIN doc.stores /\ doc.stores[s].location \in p.residency

PoolTenantsOk(doc) ==
    doc.tenants # {} =>
        \A i \in DOMAIN doc.pools : \A c \in doc.pools[i].connections :
            /\ c \in DOMAIN doc.connections
            /\ ConnectionPolicy(doc, c).tenant = doc.pools[i].tenant

StoresOk(doc) ==
    \A n \in DOMAIN doc.stores :
        /\ doc.stores[n].provider \in {"azure", "s3", "gcs", "local"}
        /\ TenantOk(doc, doc.stores[n].tenant)

EndpointsOk(doc) ==
    \A n \in DOMAIN doc.endpoints : TenantOk(doc, doc.endpoints[n].tenant)

Policies(doc) ==
    {PolicyOf(doc.connections[c]) : c \in DOMAIN doc.connections}
        \cup {TablePolicy(doc, k) : k \in DOMAIN doc.tables}

\* from_dict: the document becomes the placement, or startup fails.
Accepted(doc) ==
    /\ VersionsOk(doc.versions)
    /\ PoolsOk(doc)
    /\ StoresOk(doc)
    /\ EndpointsOk(doc)
    /\ \A k \in DOMAIN doc.tables : k[2] # "" /\ WithinParent(doc, k)
    /\ \A p \in Policies(doc) :
          PolicyOk(doc, p) /\ ValidTenant(doc, p) /\ ValidResidency(doc, p)
    /\ PoolTenantsOk(doc)

\* policy_for: the table's policy or its connection's; a table that sets no
\* source limit keeps the connection's.
PolicyFor(doc, c, t) ==
    LET parent == ConnectionPolicy(doc, c)
        table  == TablePolicy(doc, <<c, t>>)
    IN IF <<c, t>> \notin DOMAIN doc.tables THEN parent
       ELSE IF table.sourceMax = NoLimit
            THEN [table EXCEPT !.sourceMax = parent.sourceMax]
            ELSE table

\* validate_dispatch: the checks above with the connection at hand, and one store
\* for staging and publication, the Manager's own, under a constrained policy.
ValidDispatch(doc, p, c, active) ==
    /\ ValidTenant(doc, p) /\ ValidResidency(doc, p)
    /\ doc.tenants # {} /\ c \in DOMAIN doc.connections =>
          ConnectionPolicy(doc, c).tenant = p.tenant
    /\ ConnectionPolicy(doc, c).residency # {} =>
          p.residency # {} /\ p.residency \subseteq ConnectionPolicy(doc, c).residency
    /\ p.residency # {} =>
          /\ active # "" /\ p.profile = active /\ Staging(p) = active
          /\ \A i \in TargetPools(p) : doc.pools[i].profile = active

\* bind_runtime_store: the store this Manager runs on, and every policy with it.
Bound(doc, active, provider) ==
    /\ active # "" => active \in DOMAIN doc.stores /\ doc.stores[active].provider = provider
    /\ \A p \in Policies(doc) : ValidDispatch(doc, p, "", active)

Enabled(doc) ==
    doc.tenants # {} \/ DOMAIN doc.pools # {} \/ DOMAIN doc.connections # {}
        \/ DOMAIN doc.tables # {}

\* pool_for_identity; "" is no pool.
PoolOf(doc, a) ==
    IF \E i \in DOMAIN doc.pools : a \in doc.pools[i].identities
    THEN CHOOSE i \in DOMAIN doc.pools : a \in doc.pools[i].identities
    ELSE ""

\* validate_agent_version: release N or N-1, as the ring of the Agent's pool has it.
VersionOk(doc, a, release) ==
    doc.versions # None =>
        /\ PoolOf(doc, a) # ""
        /\ release \in {doc.versions.current, doc.versions.previous}
        /\ release \in doc.versions.rings[doc.pools[PoolOf(doc, a)].ring]

\* validate_identity_tokens: every identity of a pool has a token of its own, no
\* other identity has one, and two pools never share one.
IdentityTokensOk(doc, tokens, shared) ==
    /\ Enabled(doc) =>
          DOMAIN tokens = UNION {doc.pools[i].identities : i \in DOMAIN doc.pools}
    /\ \A a, b \in DOMAIN tokens : tokens[a] = tokens[b] =>
          PoolOf(doc, a) = "" \/ PoolOf(doc, b) = "" \/ PoolOf(doc, a) = PoolOf(doc, b)
    /\ Range(tokens) \cap shared = {}

Allows(pool, c, t) ==
    c \in pool.connections /\ (pool.tables = {} \/ t \in pool.tables)
=============================================================================
