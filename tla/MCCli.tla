------------------------------- MODULE MCCli --------------------------------
EXTENDS Cli, TLC

CONSTANTS n1, n2, k1, k2, v, x, y, z, sx, sy

RunCmd(k, names, alias, snap) ==
    [op |-> "run", kind |-> k, names |-> names, alias |-> alias, snap |-> snap]
StopCmd(names, k, quiet) == [op |-> "stop", names |-> names, kind |-> k, quiet |-> quiet]
ExposeCmd(n, given) == [op |-> "expose", names |-> {n}, given |-> given]
AliasCmd(n, k) == [op |-> "setalias", name |-> n, kind |-> k]
ClearCmd(s) == [op |-> "clear", section |-> s]
ConfigCmd == [op |-> "config", value |-> v]
DiscoverCmd == [op |-> "discover"]
SpaceCmd(op, s) == [op |-> op, name |-> s]
RenameCmd(op, old, new) == [op |-> op, name |-> old, new |-> new]

\* Configuration files: a context, its cluster and its user of one name, or a
\* user's of another name.
Only(i, e) == [j \in Id |-> IF j = i THEN e ELSE Nowhere]
Given(i, u, s) ==
    [contexts |-> Only(i, [cluster |-> i, user |-> u]), clusters |-> Only(i, s),
     users |-> Only(u, s), current |-> i]
AddCmd(i, u, s, force) == [op |-> "add", given |-> Given(i, u, s), force |-> force]
KubeX == Given(x, x, sx)
KubeXY == Merged(KubeX, Given(y, y, sy))

Empty == [kinds |-> {}, models |-> {}, driver |-> [n \in Name |-> Nil],
          pools |-> {}, services |-> {}, ports |-> {}]
\* n1 of k1 and n2 of k2 run.
Running == [kinds |-> Kind, models |-> {<<k1, n1>>, <<k2, n2>>},
            driver |-> [n \in Name |-> IF n = n1 THEN k1 ELSE k2],
            pools |-> Name, services |-> Name, ports |-> {n1}]
Known == [alias |-> [n \in Name |-> IF n = n1 THEN k1 ELSE k2], setting |-> v]

BuildCmd(ks) == [op |-> "build", kinds |-> ks]
KindsCmd(op, ks) == [op |-> op, kinds |-> ks]
GcCmd == [op |-> "gc"]

\* No instance tells the terminals apart.
Symmetry == Permutations(Terminal)

MCUser == Terminal \X Thread

InstanceOf(f, k, s, cmds, ops_, kills_) ==
    [file |-> f, profile |-> Kind, archive |-> {}, kube |-> k, space |-> [i \in Server |-> IF i = sx THEN s ELSE Empty],
     does |-> cmds, ops |-> ops_, kills |-> kills_, fails |-> 0]
Failing(i, n) == [i EXCEPT !.fails = n]

MCSession == {
    \* the configuration file alone
    InstanceOf(Known, KubeX, Empty,
        {AliasCmd(n1, n2), ConfigCmd, ClearCmd("alias"), ClearCmd("config")}, 3, 1),
    InstanceOf(NoConfig, KubeX, Running, {DiscoverCmd, AliasCmd(n1, k2), ConfigCmd}, 2, 1),
    \* digis started, in one call and in two terminals
    Failing(InstanceOf(NoConfig, KubeX, Empty, {RunCmd(k1, Name, TRUE, FALSE)}, 1, 1), 1),
    Failing(InstanceOf(NoConfig, KubeX, Empty,
        {RunCmd(k, {n}, TRUE, FALSE) : k \in Kind, n \in Name}, 2, 0), 1),
    \* digis stopped and started
    Failing(InstanceOf(Known, KubeX, Running,
        {StopCmd({n1}, Nil, FALSE), StopCmd({n1}, k1, TRUE),
         RunCmd(k2, {n1}, FALSE, TRUE), ExposeCmd(n1, FALSE)}, 2, 1), 1),
    Failing(InstanceOf(Known, KubeX, Running,
        {StopCmd(Name, Nil, FALSE), StopCmd(Name, k1, FALSE)}, 1, 0), 2),
    InstanceOf([Known EXCEPT !.alias[n2] = Nil], KubeX, Running,
        {StopCmd(Name, Nil, FALSE), StopCmd({n2}, k2, TRUE), ExposeCmd(n2, TRUE)}, 2, 0),
    \* kinds that come and go, while they are built and run
    Failing(InstanceOf(Known, KubeX, Empty,
        {BuildCmd(Kind), RunCmd(k1, {n1}, FALSE, FALSE), KindsCmd("rmk", {k1}), ConfigCmd}, 2, 0), 1),
    [InstanceOf(Known, KubeX, Running,
        {KindsCmd("push", {k1}), KindsCmd("pull", Kind), KindsCmd("get", {k2}),
         KindsCmd("rmk", Kind), RunCmd(k1, {n1}, FALSE, FALSE)}, 3, 1) EXCEPT !.profile = {k1}],
    Failing(InstanceOf(Known, KubeX, [Running EXCEPT !.models = {<<k1, n1>>}],
        {GcCmd, RunCmd(k2, {n2}, FALSE, FALSE), RunCmd(k1, {n2}, FALSE, TRUE)}, 3, 0), 1),
    \* in two spaces
    InstanceOf(Known, KubeXY, Running,
        {SpaceCmd("use", y), RunCmd(k1, {n2}, TRUE, FALSE), StopCmd({n1}, Nil, FALSE)}, 2, 0),
    \* spaces
    InstanceOf(NoConfig, KubeXY, Empty,
        {SpaceCmd("use", x), SpaceCmd("use", y), SpaceCmd("swap", NoId),
         SpaceCmd("delete", x), SpaceCmd("forget", y), SpaceCmd("unset", NoId),
         AddCmd(z, y, sx, FALSE), AddCmd(x, x, sy, TRUE), AddCmd(z, z, sx, FALSE),
         RenameCmd("rename", x, y), RenameCmd("alias", y, z)}, 4, 1)}

\* One digi run of two digis, and nothing fails.
RunSession ==
    {InstanceOf(NoConfig, KubeX, Empty, {RunCmd(k1, Name, FALSE, FALSE)}, 1, 0)}
=============================================================================
