----------------------------- MODULE MCEndpoint -----------------------------
(* Two sessions, of which the second generation of the policy keeps one,    *)
(* three process tokens that are interchangeable, a table of two            *)
(* attributions and one peer. Explored                                      *)
(* in two planes: "control" interleaves the XPC messages, deadlines, lost   *)
(* connections and restarts of the control channel; "kernel" interleaves    *)
(* the kernel's events with control requests that are sent one at a time.   *)
EXTENDS EndpointSecurity, TLC

CONSTANTS s1, s2, p1, p2, p3

VARIABLE plane

MCEnvelopes ==
    {[signed |-> TRUE, schema |-> TRUE, instance |-> TRUE, generation |-> g, issued |-> 0,
      expires |-> g, sessions |-> IF g = 1 THEN Sessions ELSE {s1}, copies |-> 1, roots |-> 1,
      executables |-> 1, prefixes |-> 1, normal |-> TRUE] : g \in {1, 2}}
MCLimits == [lifetime |-> 2, skew |-> 1, sessions |-> 2, roots |-> 1, executables |-> 1,
             prefixes |-> 1]

MCRoots       == [s \in Sessions |-> IF s = s1 THEN {"workspace", "protected"} ELSE {"outside"}]
MCExecutables == [s \in Sessions |-> IF s = s1 THEN {"tool", "protected"} ELSE {}]
MCOpenModes   == {{"read"}, {"read", "execute"}}
Symmetry      == Permutations(Tokens)

(* One request at a time, and binds name the generation that is installed. *)
Sequential ==
    Len(requests') > Len(requests) =>
        /\ Pending = {}
        /\ requests'[Len(requests')].body.op = "bind_root"
           => requests'[Len(requests')].body.generation = policy.generation

MCInit == EndpointInit /\ plane \in {"control", "kernel"}

MCNext ==
    /\ \/ /\ plane = "control"
          /\ ControlStep \/ FaultStep \/ Tick
          /\ Len(requests') <= 2
       \/ /\ plane = "kernel"
          /\ KernelStep \/ (ControlStep /\ Sequential) \/ Tick
    /\ UNCHANGED plane

MCSpec == MCInit /\ [][MCNext]_<<endpointVars, plane>>
=============================================================================
