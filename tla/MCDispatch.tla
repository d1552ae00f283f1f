---------------------------- MODULE MCDispatch ----------------------------
(***************************************************************************)
(* Small placements for Dispatch: a pool with a limit and a fallback, a    *)
(* resident connection with documents that break one rule each, tenants    *)
(* that a new revision moves or drops, and release rings.                  *)
(***************************************************************************)
EXTENDS Dispatch

Pool(ids, loc, max, tenant, ring) ==
    [identities |-> ids, location |-> loc, profile |-> "main", connections |-> {"crm"},
     tables |-> {}, max |-> max, tenant |-> tenant, ring |-> ring]

Base == [tenants |-> {}, versions |-> None, stores |-> << >>, endpoints |-> << >>,
         pools |-> "east" :> Pool({"e1", "e2"}, "eu", 1, "", "")
                   @@ "west" :> Pool({"w1"}, "eu", NoLimit, "", ""),
         connections |-> "crm" :> [required |-> "east", fallbacks |-> <<"west">>, sourceMax |-> 2],
         tables |-> <<"crm", "orders">> :> [max |-> 2, required |-> "east", fallbacks |-> <<"west">>]]

Resident ==
    [Base EXCEPT
        !.stores = "main" :> [location |-> "eu", provider |-> "s3", tenant |-> ""]
                   @@ "far" :> [location |-> "us", provider |-> "s3", tenant |-> ""],
        !.endpoints = "edge" :> [location |-> "eu", profile |-> "main", tenant |-> ""]
                      @@ "away" :> [location |-> "us", profile |-> "far", tenant |-> ""],
        !.connections = "crm" :> [required |-> "east", fallbacks |-> <<"west">>, profile |-> "main",
                                  residency |-> {"eu"}, endpoints |-> {"edge"}],
        !.tables = <<"crm", "orders">> :> [max |-> 1]]

\* Each breaks one rule of the resident document, or binds to another store.
Override(raw) == [Resident EXCEPT !.tables = <<"crm", "orders">> :> raw]
Broken ==
    "wider" :> Override([residency |-> {"eu", "us"}])
    @@ "none" :> Override([residency |-> {}])
    @@ "served_away" :> Override([endpoints |-> {"away"}])
    @@ "copied_away" :> Override([replicas |-> {"far"}])
    @@ "staged_away" :> Override([staging |-> "far"])
    @@ "read_away" :> Override([location |-> "us"])
    @@ "twice" :> Override([required |-> "west"])
    @@ "moved" :> Override([required |-> "west", fallbacks |-> << >>])
    @@ "pool_away" :> [Resident EXCEPT !.pools["west"].location = "us"]
    @@ "store_away" :> [Resident EXCEPT !.stores["main"].location = "us"]
    @@ "shared" :> [Resident EXCEPT !.pools["west"].identities = {"e1"}]
    @@ "two_stores" :> [Resident EXCEPT
           !.pools["west"].profile = "spare",
           !.stores = @ @@ "spare" :> [location |-> "eu", provider |-> "s3", tenant |-> ""]]

Tenant(x) ==
    [Base EXCEPT !.tenants = {"a", "b"},
        !.pools = "east" :> Pool({"e1"}, "eu", NoLimit, x, "")
                  @@ "west" :> [Pool({"w1"}, "eu", NoLimit, "b", "") EXCEPT !.connections = {}],
        !.connections = "crm" :> [tenant |-> x], !.tables = << >>]
Untenanted ==
    [Base EXCEPT !.pools["east"].identities = {"e1"}, !.connections = << >>, !.tables = << >>]

Ring(stable) ==
    [Base EXCEPT !.versions = [current |-> "2.1", previous |-> "2.0",
                               rings |-> "canary" :> {"2.1"} @@ "stable" :> stable],
        !.pools["east"].ring = "stable", !.pools["west"].ring = "canary"]

MCDocuments ==
    "base" :> Base @@ "resident" :> Resident @@ "a" :> Tenant("a") @@ "b" :> Tenant("b")
    @@ "untenanted" :> Untenanted @@ "rings" :> Ring({"2.0", "2.1"}) @@ "ahead" :> Ring({"2.1"})
    @@ "unknown" :> Ring({"1.9"}) @@ Broken

Task(table, shard) == [conn |-> "crm", table |-> table, shard |-> shard]
Quiet == [publish |-> 0, stop |-> 0, rejoin |-> 0, remove |-> 0, weaken |-> 0, fail |-> 0,
          expire |-> 0]

Common == [docs |-> {"base"}, first |-> "base", maxRev |-> 1, store |-> "main", provider |-> "s3",
           agents |-> {"e1", "w1"}, joined |-> {"e1", "w1"}, materializers |-> Agents, maxLeases |-> 3,
           release |-> [a \in Agents |-> IF a = "e1" THEN "2.0" ELSE "2.1"],
           capacity |-> [a \in Agents |-> 1], pinnable |-> [a \in Agents |-> TRUE],
           shard |-> [a \in Agents |-> IF a = "e1" THEN 0 ELSE 1],
           tokens |-> [a \in Agents |-> a],
           tasks |-> "t1" :> Task("orders", None), order |-> <<"t1">>, maxInflight |-> 1, elastic |-> TRUE,
           events |-> Quiet]

MCLimits == [Common EXCEPT
    !.store = "", !.agents = Agents, !.joined = Agents, !.maxLeases = 2, !.maxInflight = 2,
    !.tasks = "t1" :> Task("orders", None) @@ "t2" :> Task("orders", None) @@ "t3" :> Task("items", None),
    !.order = <<"t1", "t2", "t3">>,
    !.events = [Quiet EXCEPT !.remove = 1]]
MCFixed == [Common EXCEPT
    !.store = "", !.elastic = FALSE, !.joined = {"e1"}, !.maxLeases = 3,
    !.tasks = "t1" :> Task("items", 0) @@ "t2" :> Task("items", None), !.order = <<"t1", "t2">>,
    !.pinnable = [a \in Agents |-> a # "e2"],
    !.events = [Quiet EXCEPT !.rejoin = 1, !.weaken = 1, !.expire = 1]]
MCResident == [Common EXCEPT
    !.first = "resident", !.docs = {"resident"} \cup DOMAIN Broken, !.maxRev = 2, !.maxLeases = 2,
    !.tasks = "t1" :> Task("orders", None) @@ "t2" :> Task("orders", None), !.order = <<"t1", "t2">>,
    !.events = [Quiet EXCEPT !.publish = 1, !.stop = 1, !.remove = 1]]
MCTenants == [Common EXCEPT
    !.store = "", !.first = "a", !.docs = {"a", "b", "untenanted"},
    !.maxRev = 3, !.maxLeases = 2, !.tokens = [a \in {"e1", "w1"} |-> a],
    !.events = [Quiet EXCEPT !.publish = 2, !.stop = 2]]
MCRings == [Common EXCEPT
    !.store = "", !.first = "rings", !.docs = {"rings", "ahead", "unknown"}, !.maxRev = 2, !.maxLeases = 3,
    !.events = [Quiet EXCEPT !.publish = 1, !.stop = 1, !.fail = 1]]

MCAgents == {"e1", "e2", "w1"}
MCTasks == {"t1", "t2", "t3"}
MCDeployments == "limits" :> MCLimits @@ "fixed" :> MCFixed @@ "resident" :> MCResident
                 @@ "tenants" :> MCTenants @@ "rings" :> MCRings
=============================================================================
