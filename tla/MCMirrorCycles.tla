---------------------------- MODULE MCMirrorCycles ----------------------------
EXTENDS MirrorCycles

T(conn, splits, token, column) ==
    [conn |-> conn, splits |-> splits, key |-> TRUE, token |-> token, column |-> column]

Plain == T("default", 1, "none", "other")
Lake  == T("lake", 1, "none", "other")

U(set, tables, connections) ==
    [set |-> set, tables |-> tables, connections |-> connections, mounts |-> None]

Only(key, value) == U(key :> value, None, None)

MCUpdates ==
    {Only("num_splits", 0), Only("num_splits", 2), Only("split_count_max", 0),
     Only("materialize_mode", "virtual"), Only("auto_refresh", TRUE),
     Only("generation_source_consistency", "snapshot"), Only("bucket", "share"),
     U(("auto_refresh" :> TRUE) @@ ("split_count_min" :> 2), {Plain}, None),
     U(<<>>, {Plain, Lake}, {"lake"}), U(<<>>, {Lake}, None), U(<<>>, None, {"mart"}),
     U(<<>>, {Lake}, {"mart"}), U(<<>>, {T("default", 1, "hash", "key")}, None),
     U("num_splits" :> 2, {Plain, T("mart", 1, "random", "alias")}, {"mart"})}

Target(id, conn, healing, ids, days) ==
    [id |-> id, conn |-> conn, healing |-> healing, ids |-> ids, days |-> days,
     keep |-> 7, enabled |-> TRUE, onelake |-> TRUE]

Sales == Target("sales", "lake", "on", TRUE, 7)
Parts == [Target("parts", "default", "default", TRUE, None) EXCEPT !.enabled = FALSE,
                                                                  !.onelake = FALSE]

MCTargetSets == {{}, {Sales}, {[Parts EXCEPT !.days = 31]}}

Share == [bucket |-> "share", backend |-> "local", root |-> "there", auth |-> "none",
          account |-> FALSE, format |-> "none", policy |-> "none", output |-> "none",
          snapshot |-> None]

Vault == [Share EXCEPT !.bucket = "vault", !.backend = "s3", !.auth = "stored"]

MCMountSets ==
    {{Share}, {Vault, [Share EXCEPT !.root = "gone"]},
     {[Vault EXCEPT !.backend = "azure", !.auth = "lost"],
      [Share EXCEPT !.format = "iceberg", !.policy = "good", !.snapshot = 1]},
     {[Share EXCEPT !.bucket = "warehouse"]}, {Share, [Vault EXCEPT !.bucket = "share"]},
     {[Vault EXCEPT !.auth = "default"]}, {[Share EXCEPT !.format = "delta", !.policy = "bad"]}}

Console(env, tables, shards) ==
    [env |-> env, tables |-> tables, shards |-> shards, serving |-> FALSE,
     publish |-> FALSE, content |-> TRUE, targets |-> {}, part |-> "console",
     status |-> "Running", requests |-> 3, restarts |-> 2]

Cycles(publish, targets, status, asks, starts) ==
    [Console(<<>>, {Plain, Lake}, 1) EXCEPT
        !.part = "cycles", !.publish = publish, !.targets = targets, !.status = status,
        !.requests = asks, !.restarts = starts]

MCDeployments ==
    {Console(<<>>, {}, 1), Console(<<>>, {Plain, Lake}, 1),
     Console("auto_refresh" :> FALSE, {Lake}, 2),
     Cycles(TRUE, {Sales}, "Initialized", 2, 1),
     Cycles(TRUE, {Parts, [Sales EXCEPT !.days = None]}, "Stopped", 1, 0),
     Cycles(FALSE, {Parts, [Sales EXCEPT !.ids = FALSE, !.healing = "default"]}, "Starting", 2, 0),
     [Cycles(FALSE, {}, "Running", 2, 0) EXCEPT !.part = "cleanup"]}
=============================================================================
