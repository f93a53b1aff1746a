----------------------------- MODULE MCIngress -----------------------------
(* Model-checking instances of Ingress.                                    *)
EXTENDS Ingress

\* "a", "b" and "a:b".
SomeTenants == {<<"a">>, <<"b">>, <<"a", "b">>}

\* "1", and "b:1", with which "a" meets "a:b".
SomeHeaders == {<<"1">>, <<"b", "1">>}
=============================================================================
