------------------------------ MODULE MCExpose -------------------------------
(***************************************************************************)
(* Instances of Expose for TLC.                                            *)
(***************************************************************************)
EXTENDS Expose, TLC

CONSTANTS n1, ip1

Of(mode, external, ingressHost) ==
    [mode |-> mode, external |-> external, ingressHost |-> ingressHost]

N1 == <<"name", n1>>

\* For two modes a change of a name, all changes of the mode, and a mode that is
\* not valid.
SomeSettings ==
    {Of("", NoHost, NoHost), Of("Ingress", N1, NoHost),
     Of("ClusterIP", NoHost, NoHost), Of("ClusterIP", N1, NoHost),
     Of("LoadBalancer", NoHost, N1), Of("NodePort", NoHost, NoHost)}
==============================================================================
