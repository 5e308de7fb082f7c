------------------------ MODULE DefinitionRegistryMC ------------------------
(* A small instance of DefinitionRegistry.                                 *)
EXTENDS DefinitionRegistry, TLC

CONSTANTS b1, b2

Registration(v, status, effective) ==
    [version |-> v, status |-> status, effective |-> effective,
     body |-> b1, publication |-> FALSE, base |-> NoUuid]

\* A version of the future, a draft and a version of now; a first publication
\* and publications of the second and the third version from every base.
RegistryCommands ==
    {Registration(1, "active", 1), Registration(2, "draft", 0), Registration(3, "active", 0)} \cup
    {[Registration(v, "active", 0) EXCEPT !.publication = TRUE, !.base = u] :
        v \in {2, 3}, u \in Uuid \cup {NoUuid}}

RegistrySymmetry == Permutations(Uuid) \cup Permutations(Registrar)
=============================================================================
