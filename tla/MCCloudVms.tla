----------------------------- MODULE MCCloudVms -----------------------------
\* Two nodes, on every provider: workers in turn and rebuilt, in parallel, and with a gateway.
EXTENDS CloudVms

Two == {"n1", "n2"}
Lab(c, m, withGw, k) == [cloud |-> c, mode |-> m, overlay |-> withGw, starts |-> k]
Every == {Lab(c, "turn", FALSE, 2) : c \in Providers}
         \cup {Lab(c, "parallel", FALSE, 2) : c \in {"hetzner", "aws"}}
         \cup {Lab(c, "turn", TRUE, 2) : c \in {"aws"}}
=============================================================================
