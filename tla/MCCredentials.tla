---------------------------- MODULE MCCredentials ----------------------------
\* Credentials instances.
EXTENDS Credentials, TLC

\* Handlers are interchangeable.
AnyHandler == Permutations(Handlers)
=============================================================================
