------------------------ MODULE MCProviderLifecycle ------------------------
(***************************************************************************)
(* Three traces, two at a time, over three provider bits of which two are   *)
(* supported: traces that share a bit, that want different supported bits,  *)
(* and that do not concern the provider.                                    *)
(***************************************************************************)
EXTENDS ProviderLifecycle

CONSTANTS p, q, other

AllBits == {p, q, other}
Known == {p, q}
AskedFor == {{p}, {q}, {p, q}, {other}}
=============================================================================
