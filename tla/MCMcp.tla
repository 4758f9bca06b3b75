-------------------------------- MODULE MCMcp --------------------------------
(* One server with one tool for TLC.  Its calls fetch a page while reading *)
(* the workspace, fetch the page twice, or reach for VIGIL's own files.    *)
EXTENDS McpProxy

Interchangeable == Permutations(Hashes) \cup Permutations(Proxies)

Path(category, place) == [named |-> category, resolves |-> place, target |-> category]
MCResources ==
    [src  |-> [action |-> "fs.read", path |-> Path("none", "inside")],
     own  |-> [action |-> "fs.read", path |-> Path("vigil_integrity", "outside")],
     page |-> [action |-> "network.connect", path |-> Path("none", "outside")]]

Call(resources) == [tool |-> "fetch", resources |-> resources]
MCCalls == {Call(<<"src", "page">>), Call(<<"page", "page">>), Call(<<"own">>)}

Manifest(schema, capabilities) ==
    [fetch |-> [schema |-> schema, description |-> "d", capabilities |-> capabilities]]
MCOperatorManifests ==
    {Manifest("v1", {"fs.read", "network.connect"}), Manifest("v1", {"network.connect"})}
MCListings == {Manifest("v1", {"fs.read", "network.connect"}), Manifest("v2", {})}
=============================================================================
