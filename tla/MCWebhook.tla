----------------------------- MODULE MCWebhook ------------------------------
(* Two programs link the digi-graph: its test, which calls it in any order *)
(* and removes edges and nodes too, and the webhook, which never gets that *)
(* far.  The run has either of them.                                       *)
EXTENDS Webhook

CONSTANTS a, b, c, d, e

VARIABLE user  \* the program that runs

\* Two digis that may mount a third, and one that may mount both.
MCWants == [o \in Digi |->
    CASE o = a -> {{b}, {b, c}}
      [] o = b -> {{}, {d}}
      [] OTHER -> {{d}, {a}}]
MCResources == {{a}, Digi \ {a}}

UserInit == HookInit /\ user \in {"test", "webhook"}

UserNext ==
    \/ user = "test" /\ Next /\ UNCHANGED <<hook, user>>
    \/ user = "webhook" /\ HookNext /\ UNCHANGED user

\* HookFairness, where the webhook runs.
UserSpec ==
    /\ UserInit /\ [][UserNext]_<<vars, hook, user>>
    /\ WF_hook(user = "webhook" /\ Process)
    /\ \A o \in Digi : SF_hook(user = "webhook" /\ Lock(o))
=============================================================================
