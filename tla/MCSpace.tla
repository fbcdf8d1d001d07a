------------------------------ MODULE MCSpace -------------------------------
EXTENDS Space, TLC

CONSTANTS a, p, q, k, v1, v2, s1, s2, y

Match(s, d) == [src |-> s, dst |-> d, mode |-> "match"]
Sync(s, d) == [src |-> s, dst |-> d, mode |-> "sync"]
Yield == [src |-> p, dst |-> q, mode |-> "yield"]

MCKindOf == [d \in Digi |-> IF d \in {a, p} THEN {a, p} ELSE {d}]
MCSpecs == [n \in Name |->
    CASE n = s1 -> {Match(a, p)}
      [] n = s2 -> {Match(a, q), Sync(p, q)}
      [] n = y -> {Yield}]

NoMounts == [d \in Digi |-> [e \in Digi |-> "none"]]
OneMounts == [NoMounts EXCEPT ![p][k] = "active"]
BothMount == [NoMounts EXCEPT ![p][k] = "active", ![q][k] = "inactive"]
Objs(f) == [n \in Name |-> IF n \in DOMAIN f THEN f[n] ELSE NoSpec]
Max(o, f, c) == [ops |-> o, fails |-> f, crashes |-> c]

Pipes(does, objects, max) ==
    [up |-> {"sync"}, ops |-> does, objs |-> Objs(objects), mounts |-> NoMounts,
     attr |-> [d \in Digi |-> IF d \in {a, p} THEN v1 ELSE None], max |-> max]
Policies(ctl, does, objects, max) ==
    [Pipes(does, objects, max) EXCEPT !.up = ctl, !.mounts = BothMount]

MCSetup == {
    \* a pipe made and removed, and a fault
    Pipes({"write", "pipe"}, s1 :> Match(a, p), Max(2, 1, 1)),
    \* two bindings with a source, one of which may fail
    Pipes({"write"}, s1 :> Match(a, p) @@ s2 :> Match(a, q), Max(2, 1, 0)),
    \* an object applied with another spec
    Pipes({"write", "apply"}, s2 :> Match(a, q), Max(3, 0, 0)),
    \* both ways, with digis that come and go
    Pipes({"write", "digi"}, s2 :> Sync(p, q), Max(3, 0, 0)),
    \* a policy, and mount calls and drivers against it
    Policies({"policy"}, {"write", "mount", "digi", "apply"}, y :> Yield, Max(2, 1, 1)),
    \* the condition holds before the child is mounted at the target
    [Policies({"policy"}, {"mount", "write"}, y :> Yield, Max(2, 0, 0))
        EXCEPT !.mounts = OneMounts, !.attr[p] = v2],
    \* a pipe that sets off a policy
    Policies({"sync", "policy"}, {"write"}, s1 :> Match(a, p) @@ y :> Yield, Max(1, 0, 0))}

MCMountArgs ==
    {[op |-> "MOUNT", srcs |-> {a}, target |-> p],
     [op |-> "MOUNT", srcs |-> {k}, target |-> q],
     [op |-> "ACTIVATE", srcs |-> {k}, target |-> p],
     [op |-> "UNMOUNT", srcs |-> {k}, target |-> q],
     [op |-> "YIELD", srcs |-> {a, k}, target |-> p]}
=============================================================================
