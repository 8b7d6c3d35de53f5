------------------------------ MODULE MCAccess ------------------------------
\* Instances of Access for TLC.
EXTENDS Access, TLC

\* What role updates ask for: disjoint from what is granted, equal, or more.
Lists == {{Need}, {ActAs, Need}}

\* The owner has everything, the other role two permissions.
Templates == [n \in SystemRole |-> IF n = Owner THEN {"all"} ELSE {"read", "use"}]
\* A database where one role is still missing, and the tenant has its name for
\* a role of its own; and one of a release that had neither the permission "use"
\* nor, so, the role that is given it in full.
EarlierRole(n, codes) == [by |-> Earlier, name |-> n, system |-> TRUE, codes |-> codes]
OwnRole(n) == [by |-> Earlier, name |-> n, system |-> FALSE, codes |-> {}]
Releases ==
    {[permissions |-> {"all", "read", "use"},
      roles |-> {EarlierRole(Owner, {"all"})} \cup {OwnRole(n) : n \in SystemRole \ {Owner}}],
     [permissions |-> {"all", "read"},
      roles |-> {EarlierRole(n, Templates[n] \ {"use"}) : n \in SystemRole}
                \cup {OwnRole(n) : n \in RoleName \ SystemRole}]}

\* The names of calls are interchangeable.
Interchangeable == Permutations(Call)
=============================================================================
