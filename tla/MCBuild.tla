------------------------------- MODULE MCBuild -------------------------------
EXTENDS Build
CONSTANTS A, B, C, env, agent
Chain == <<env, agent>>
AllA == [c \in {env, agent} |-> A]
EarlyOrLate == {{A, B, C}, {B, C}}
AB == {A, B}
Called4 == {<<A, B>>, <<B, C>>, <<B, A>>, <<AB, C>>}
AnyAB == {AB}
EnvOrAll == {{env}, {env, agent}}
\* the test creates one component, and two of the types are registered late
OnlyEnv == <<env>>
OnlyA == [c \in {env} |-> A]
CAlways == {{C}}
LateLoop == {<<A, C>>, <<B, A>>, <<A, B>>}
=============================================================================
