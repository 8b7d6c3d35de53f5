--------------------------- MODULE SessionsProofs ---------------------------
(***************************************************************************)
(* Proofs about Sessions, for any calls, tenants and passwords.            *)
(*                                                                         *)
(* What makes it inductive: History speaks of the tables and of the calls  *)
(* that committed, Open of what a call that has read, and not committed,   *)
(* still knows.  A step that commits nothing leaves History alone; what a  *)
(* commit does to the tables is summed up once (the Shapes), and each part *)
(* of History follows from that.                                           *)
(***************************************************************************)
EXTENDS Sessions, FiniteSetTheorems, TLAPS

Count == Cardinality(Committed)
Started(c) == pc[c] \in {"signin", "revoke", "write", "ended"}
Got == [user: Id, active: BOOLEAN, stale: BOOLEAN, slug: Slug \cup {None}]
SignUps == {"register", "register_individual"}
Creators == SignUps \cup {"google", "invite"}
Minters == SignUps \cup {"google", "login", "refresh"}
Revokers == {"logout", "change", "confirm"}

Typed ==
    /\ TypeOK
    /\ \A c \in Call :
        /\ Started(c) => req[c] \in Request /\ got[c] \in Got
        /\ c \in Committed <=> pc[c] = "ended"
        /\ pc[c] # "ended" => users[c] = None /\ tokens[c] = None /\ resets[c] = None
        /\ found[c] \subseteq Exists(tokens)
Counted ==
    /\ IsFiniteSet(Committed)
    /\ \A c \in Call : readAt[c] <= Count /\ wroteAt[c] <= Count /\ foundAt[c] <= Count

-----------------------------------------------------------------------------
(* The tables and the calls that committed.                                *)

\* A call wrote to a user there is, and a token knows who inserted it.
Owned == \A c \in Committed : got[c].user \in Exists(users)
TokenRow(t) ==
    /\ t # Seed => req[t].op \in Minters /\ got[t].user = tokens[t].user
    /\ tokens[t].session \in Exists(tokens)
    /\ tokens[tokens[t].session].user = tokens[t].user
    /\ tokens[t].parent = None => tokens[t].session = t
    /\ tokens[t].parent # None =>
        /\ t # Seed /\ req[t].op = "refresh" /\ req[t].token = tokens[t].parent
        /\ tokens[t].parent \in Exists(tokens) /\ tokens[tokens[t].parent].revoked
        /\ tokens[tokens[t].parent].session = tokens[t].session
TokenRows == \A t \in Exists(tokens) : TokenRow(t)
Rotated ==
    \A c \in Committed : req[c].op = "refresh" =>
        c \in Exists(tokens) /\ tokens[c].parent = req[c].token

\* Rotations of one token overlap, and so do resets with one token; and where
\* they do not, a session has one token that was not rotated.
Siblings(c, d) == req[c].op = "refresh" /\ req[d].op = "refresh" /\ req[c].token = req[d].token
Redeemers(c, d) == req[c].op = "confirm" /\ req[d].op = "confirm" /\ req[c].reset = req[d].reset
SiblingsOverlap == \A c, d \in Committed : c # d /\ Siblings(c, d) => readAt[c] < wroteAt[d]
RedeemersOverlap == \A c, d \in Committed : c # d /\ Redeemers(c, d) => readAt[c] < wroteAt[d]
UsedUp == \A c \in Committed : req[c].op = "confirm" =>
              req[c].reset \in Exists(resets) /\ resets[req[c].reset].used
Forked(s) == \E c, d \in Rotations(s) :
                 c # d /\ tokens[c].parent = tokens[d].parent /\ Overlap(c, d)
Leaf(t) == t \in Exists(tokens) /\ \A x \in Exists(tokens) : tokens[x].parent # t
OneLeaf == \A t, u \in Exists(tokens) :
    Leaf(t) /\ Leaf(u) /\ t # u /\ tokens[t].session = tokens[u].session => Forked(tokens[t].session)

\* The session s of u was rotated over a call whose UPDATE began after m
\* commits, and whose own was the n-th.
Crossed(s, u, m, n) ==
    \E d \in Did({"refresh"}, u) : tokens[d].session = s /\ readAt[d] < n /\ m < wroteAt[d]
Outlives == \A t \in Unrevoked : \A c \in PasswordSetters(tokens[t].user) :
    Place(tokens[t].session) <= foundAt[c] =>
        Crossed(tokens[t].session, tokens[t].user, foundAt[c], wroteAt[c])

FreshHash == \A u \in Exists(users) : PasswordSetters(u) # {} => ~users[u].stale

\* Who bars u; and that someone activated u after place n.
Barring(c) == \/ req[c].op = "delete"
              \/ req[c].op = "set_active" /\ ~req[c].active
Excused(u, n) == \E a \in Did({"set_active"}, u) : req[a].active /\ n < wroteAt[a]
BarsHold == \A u \in Exists(users) : users[u].active =>
    \A c \in Committed : Barring(c) /\ got[c].user = u => Excused(u, readAt[c])
MayMint(t) == \A c \in Committed :
    Barring(c) /\ got[c].user = got[t].user /\ wroteAt[c] <= readAt[t] => Excused(got[t].user, readAt[c])
MintsHold == \A t \in Committed : req[t].op \in Minters => MayMint(t)

Tables == Owned /\ OneAccountPerTenant
Chains == TokenRows /\ Rotated /\ SiblingsOverlap /\ OneLeaf
SessionsEnd == UnrevokedArePostdated /\ Outlives
Passwords == FreshHash /\ PasswordIsTheLastSet /\ UsedUp /\ RedeemersOverlap
Bars == BarsHold /\ MintsHold
History == Tables /\ Chains /\ SessionsEnd /\ Passwords /\ Bars

-----------------------------------------------------------------------------
(* What a call that is under way knows.                                    *)

OpenUser(c) ==
    /\ \/ got[c].user \in Exists(users)
       \/ got[c].user = c /\ req[c].op \in Creators /\ got[c].slug \in Slug /\ ~got[c].stale
    /\ req[c].op = "invite" => got[c].user = c
    /\ req[c].op \in SignUps => got[c].slug \in Slug
    /\ req[c].op = "register" => req[c].slug = got[c].slug /\ got[c].user = c
    /\ pc[c] = "signin" => req[c].op \in SignUps /\ got[c].user = c
OpenRows(c) ==
    /\ req[c].op = "refresh" =>
        req[c].token \in Exists(tokens) /\ tokens[req[c].token].user = got[c].user
    /\ req[c].op = "confirm" =>
        req[c].reset \in Exists(resets) /\ resets[req[c].reset].user = got[c].user
    /\ req[c].op = "logout" => req[c].token \in Exists(tokens) \cup {None}
OpenRefresh(c) ==
    req[c].op = "refresh" =>
        /\ \A d \in Committed : Siblings(c, d) => readAt[c] < wroteAt[d]
        /\ \A d \in PasswordSetters(got[c].user) :
              LET s == tokens[req[c].token].session IN
              Place(s) <= foundAt[d] /\ wroteAt[d] <= readAt[c]
                  => Crossed(s, got[c].user, foundAt[d], wroteAt[d])
OpenPassword(c) ==
    /\ \A d \in Committed : Redeemers(c, d) => readAt[c] < wroteAt[d]
    /\ req[c].op \in SignUps \cup {"login"} /\ got[c].stale =>
        \A d \in PasswordSetters(got[c].user) : readAt[c] < wroteAt[d]
OpenBars(c) ==
    /\ req[c].op \in Minters => MayMint(c)
    /\ Barring(c) /\ ~got[c].active /\ got[c].user \in Exists(users) /\ users[got[c].user].active =>
        Excused(got[c].user, readAt[c])
\* A call that ends all sessions has found the user's tokens, but for those
\* that came after its UPDATE.
EndsAll(c) == req[c].op \in {"change", "confirm"} \/ (req[c].op = "logout" /\ req[c].token = None)
OpenFound(c) ==
    pc[c] = "write" /\ EndsAll(c) =>
        \A t \in Unrevoked \ found[c] : tokens[t].user = got[c].user => foundAt[c] < Place(t)
Open(c) == /\ OpenUser(c) /\ OpenRows(c) /\ OpenRefresh(c) /\ OpenPassword(c) /\ OpenBars(c)
           /\ OpenFound(c)
Opened == \A c \in Call : pc[c] \in {"signin", "revoke", "write"} => Open(c)

IInv == Typed /\ Counted /\ History /\ Opened

-----------------------------------------------------------------------------
LEMMA InitIInv == Init => IInv
<1> SUFFICES ASSUME Init PROVE IInv
    OBVIOUS
<1> USE NamesAssumption, NoneAssumption
<1>1. Committed = {}
    BY DEF Init, Committed
<1>2. Exists(tokens) \subseteq {Seed} /\ Exists(users) \subseteq {Seed}
    BY DEF Init, Exists, Id
<1>3. \A op, u : Did(op, u) = {}
    BY <1>1 DEF Did
<1>4. TypeOK
    <2>1. PICK s \in Slug, p \in Password, a \in BOOLEAN, st \in BOOLEAN :
            users = [i \in Id |-> IF i # Seed THEN None ELSE
                   [tenant |-> s, password |-> p, active |-> a, deleted |-> FALSE, stale |-> st]]
        BY DEF Init
    <2>0. [tenant |-> s, password |-> p, active |-> a, deleted |-> FALSE, stale |-> st] \in User
        BY DEF User
    <2>2. users \in [Id -> User \cup {None}]
        BY <2>0, <2>1
    <2>3. [user |-> Seed, session |-> Seed, parent |-> None, revoked |-> FALSE] \in RefreshToken
        BY DEF RefreshToken, Id
    <2>4. tokens \in [Id -> RefreshToken \cup {None}]
        BY <2>3 DEF Init
    <2>5. resets \in [Id -> PasswordResetToken \cup {None}]
        BY DEF Init, PasswordResetToken, Id
    <2>6. Seed \in Id /\ users[Seed] # None
        BY <2>0, <2>1 DEF Id
    <2>7. /\ \A t \in Exists(tokens) : tokens[t].user \in Exists(users)
          /\ \A r \in Exists(resets) : resets[r].user \in Exists(users)
        <3>1. Seed \in Exists(users)
            BY <2>6 DEF Exists
        <3>2. \A t \in Exists(tokens) : t = Seed /\ tokens[t].user = Seed
            BY <1>2, <2>6 DEF Init
        <3>3. \A r \in Exists(resets) : r = Seed /\ resets[r].user = Seed
            BY <2>6 DEF Init, Exists
        <3> QED BY <3>1, <3>2, <3>3
    <2>8. Cardinality(Call) \in Nat
        BY FS_CardinalityType
    <2>9. /\ pc \in [Call -> {"idle", "signin", "revoke", "write", "ended", "refused"}]
          /\ req \in [Call -> Request \cup {None}]
          /\ got \in [Call -> {None} \cup
                   [user: Id, active: BOOLEAN, stale: BOOLEAN, slug: Slug \cup {None}]]
        BY DEF Init
    <2>10. /\ readAt \in [Call -> 0 .. Cardinality(Call)]
           /\ wroteAt \in [Call -> 0 .. Cardinality(Call)]
           /\ foundAt \in [Call -> 0 .. Cardinality(Call)] /\ found \in [Call -> SUBSET Id]
        BY <2>8 DEF Init
    <2> QED BY <2>2, <2>4, <2>5, <2>7, <2>9, <2>10 DEF TypeOK
<1>5. Typed
    BY <1>1, <1>4 DEF Init, Typed, Started, Id
<1>6. Counted
    BY <1>1, FS_EmptySet DEF Init, Counted, Count
<1>7. Tables /\ Bars
    BY <1>1, <1>2, <1>3
    DEF Tables, Owned, OneAccountPerTenant, Alive, Bars, BarsHold, MintsHold
<1>8. Chains
    <2>1. TokenRows
        BY <1>2 DEF Init, TokenRows, TokenRow, Exists
    <2> QED BY <1>1, <1>2, <2>1 DEF Chains, Rotated, SiblingsOverlap, OneLeaf
<1>9. SessionsEnd
    BY <1>3 DEF SessionsEnd, UnrevokedArePostdated, Outlives, SessionEnders, PasswordSetters
<1>10. Passwords
    BY <1>1, <1>3 DEF Passwords, FreshHash, PasswordIsTheLastSet, UsedUp, RedeemersOverlap, PasswordSetters
<1>11. Opened
    BY DEF Init, Opened
<1> QED BY <1>5, <1>6, <1>7, <1>8, <1>9, <1>10, <1>11 DEF IInv, History

LEMMA CountIsNat == ASSUME Counted PROVE Count \in Nat
BY FS_CardinalityType DEF Counted, Count

-----------------------------------------------------------------------------
(* A step of a call that has not committed, and commits nothing.           *)

LEMMA HistoryStays ==
    ASSUME IInv, NEW c \in Call, c \notin Committed, UNCHANGED <<tables, wroteAt>>,
           \A d \in Call \ {c} : /\ req'[d] = req[d] /\ got'[d] = got[d] /\ readAt'[d] = readAt[d]
                                 /\ foundAt'[d] = foundAt[d]
    PROVE  /\ Committed' = Committed /\ Count' = Count
           /\ \A op, u : Did(op, u)' = Did(op, u) /\ Did(op, u) \subseteq Call \ {c}
           /\ Exists(users)' = Exists(users) /\ Exists(tokens)' = Exists(tokens)
           /\ Exists(resets)' = Exists(resets)
           /\ History'
<1> USE DEF IInv, History
<1>1. Committed' = Committed /\ Count' = Count
    BY DEF Committed, Count
<1>2. Committed \subseteq Call \ {c}
    BY DEF Committed
<1>3. users' = users /\ tokens' = tokens /\ resets' = resets /\ wroteAt' = wroteAt
    BY DEF tables
<1>4. \A op, u : Did(op, u)' = Did(op, u) /\ Did(op, u) \subseteq Call \ {c}
    BY <1>1, <1>2 DEF Did
<1>5. /\ Exists(users)' = Exists(users) /\ Exists(tokens)' = Exists(tokens)
      /\ Exists(resets)' = Exists(resets)
    BY <1>3 DEF Exists
<1>6. \A u : PasswordSetters(u)' = PasswordSetters(u) /\ PasswordSetters(u) \subseteq Call \ {c}
    BY <1>4 DEF PasswordSetters
<1>7. \A u : SessionEnders(u)' = SessionEnders(u) /\ SessionEnders(u) \subseteq Call \ {c}
    <2> TAKE u
    <2>1. \A d \in Did({"logout"}, u) : req'[d] = req[d]
        BY <1>4
    <2> QED BY <1>4, <1>6, <2>1 DEF SessionEnders
<1>8. Tables'
    BY <1>1, <1>2, <1>3, <1>5 DEF Tables, Owned, OneAccountPerTenant, Alive
<1>9. \A s : Rotations(s)' = Rotations(s) /\ Rotations(s) \subseteq Call \ {c}
    BY <1>3, <1>4 DEF Rotations
<1>10. TokenRows'
    <2> SUFFICES ASSUME NEW t \in Exists(tokens) PROVE TokenRow(t)'
        BY <1>5 DEF TokenRows
    <2>1. t # Seed => t \in Call \ {c}
        BY DEF Typed, Exists, Id, Committed
    <2>2. TokenRow(t)
        BY DEF Chains, TokenRows
    <2> QED BY <1>3, <1>5, <2>1, <2>2 DEF TokenRow
<1>11. Rotated' /\ SiblingsOverlap'
    BY <1>1, <1>2, <1>3, <1>5 DEF Chains, Rotated, SiblingsOverlap, Siblings
<1>12. OneLeaf'
    <2>1. \A s : Forked(s)' <=> Forked(s)
        BY <1>3, <1>9 DEF Forked, Overlap
    <2>2. \A t : Leaf(t)' <=> Leaf(t)
        BY <1>3, <1>5 DEF Leaf
    <2> QED BY <1>3, <1>5, <2>1, <2>2 DEF Chains, OneLeaf
<1>13. Unrevoked' = Unrevoked /\ \A t : Place(t)' = Place(t)
    BY <1>3, <1>5 DEF Unrevoked, Place
<1>14. \A s, u, m, n : Crossed(s, u, m, n)' <=> Crossed(s, u, m, n)
    BY <1>3, <1>4 DEF Crossed
<1>15. SessionsEnd'
    BY <1>3, <1>6, <1>7, <1>13, <1>14 DEF SessionsEnd, UnrevokedArePostdated, Outlives
<1>16. FreshHash' /\ UsedUp' /\ RedeemersOverlap'
    BY <1>1, <1>2, <1>3, <1>5, <1>6 DEF Passwords, FreshHash, UsedUp, RedeemersOverlap, Redeemers
<1>17. PasswordIsTheLastSet'
    BY <1>3, <1>4, <1>5, <1>6 DEF Passwords, PasswordIsTheLastSet
<1>18. \A u, n : Excused(u, n)' <=> Excused(u, n)
    BY <1>3, <1>4 DEF Excused
<1>19. \A d \in Call \ {c} : Barring(d)' <=> Barring(d)
    BY DEF Barring
<1>20. Bars'
    <2>1. BarsHold'
        BY <1>1, <1>2, <1>3, <1>5, <1>18, <1>19 DEF Bars, BarsHold
    <2>2. \A t \in Call \ {c} : MayMint(t)' <=> MayMint(t)
        BY <1>1, <1>2, <1>3, <1>18, <1>19 DEF MayMint
    <2> QED BY <1>1, <1>2, <2>1, <2>2 DEF Bars, MintsHold
<1>21. Chains' /\ Passwords'
    BY <1>10, <1>11, <1>12, <1>16, <1>17 DEF Chains, Passwords
<1> QED BY <1>1, <1>4, <1>5, <1>8, <1>15, <1>20, <1>21

LEMMA OthersStay ==
    ASSUME IInv, NEW c \in Call, c \notin Committed, UNCHANGED <<tables, wroteAt>>,
           \A d \in Call \ {c} : /\ req'[d] = req[d] /\ got'[d] = got[d] /\ readAt'[d] = readAt[d]
                                 /\ pc'[d] = pc[d] /\ found'[d] = found[d] /\ foundAt'[d] = foundAt[d],
           NEW d \in Call \ {c}, pc[d] \in {"signin", "revoke", "write"}
    PROVE  Open(d)'
<1>1. Open(d)
    BY DEF IInv, Opened
<1>2. /\ Committed' = Committed
      /\ \A op, u : Did(op, u)' = Did(op, u) /\ Did(op, u) \subseteq Call \ {c}
      /\ Exists(users)' = Exists(users) /\ Exists(tokens)' = Exists(tokens)
      /\ Exists(resets)' = Exists(resets)
    BY HistoryStays
<1>3. /\ pc'[d] = pc[d] /\ req'[d] = req[d] /\ got'[d] = got[d] /\ readAt'[d] = readAt[d]
      /\ found'[d] = found[d] /\ foundAt'[d] = foundAt[d]
      /\ users' = users /\ tokens' = tokens /\ resets' = resets /\ wroteAt' = wroteAt
    BY DEF tables
<1>4. \A e \in Committed : req'[e] = req[e] /\ got'[e] = got[e] /\ readAt'[e] = readAt[e]
    BY DEF Committed
<1>5. \A u : PasswordSetters(u)' = PasswordSetters(u) /\ PasswordSetters(u) \subseteq Call \ {c}
    BY <1>2 DEF PasswordSetters
<1>6. \A s, u, m, n : Crossed(s, u, m, n)' <=> Crossed(s, u, m, n)
    BY <1>2, <1>3 DEF Crossed
<1>7. \A u, n : Excused(u, n)' <=> Excused(u, n)
    BY <1>2, <1>3 DEF Excused
<1>8. OpenUser(d)' /\ OpenRows(d)'
    BY <1>1, <1>2, <1>3 DEF Open, OpenUser, OpenRows
<1>9. OpenRefresh(d)'
    BY <1>1, <1>2, <1>3, <1>4, <1>5, <1>6 DEF Open, OpenRefresh, Siblings, Place
<1>10. OpenPassword(d)'
    BY <1>1, <1>2, <1>3, <1>4, <1>5 DEF Open, OpenPassword, Redeemers
<1>11. \A e \in Committed : Barring(e)' <=> Barring(e)
    BY <1>4 DEF Barring
<1>12. MayMint(d)' <=> MayMint(d)
    BY <1>2, <1>3, <1>4, <1>7, <1>11 DEF MayMint
<1>13. Barring(d)' <=> Barring(d)
    BY <1>3 DEF Barring
<1>14. OpenBars(d)'
    BY <1>1, <1>2, <1>3, <1>7, <1>12, <1>13 DEF Open, OpenBars
<1>15. OpenFound(d)'
    BY <1>1, <1>2, <1>3 DEF Open, OpenFound, EndsAll, Unrevoked, Place
<1> QED BY <1>8, <1>9, <1>10, <1>14, <1>15 DEF Open

\* What a call has seen when it goes on to do r, having loaded g.
Sees(c, r, g, l) ==
    /\ \/ /\ g.user \in Exists(users) /\ r.op \notin SignUps \cup {"invite"}
          /\ l = IF r.op \in Revokers THEN "revoke" ELSE "write"
          /\ g.active = users[g.user].active /\ g.stale = users[g.user].stale
          /\ r.op \in Minters => users[g.user].active
       \/ /\ g.user = c /\ g.slug \in Slug /\ ~g.stale /\ r.op \in Creators
          /\ r.op = "register" => r.slug = g.slug
          /\ l \in {"signin", "write"} /\ (l = "signin" => r.op \in SignUps)
    /\ r.op = "refresh" => /\ r.token \in Unrevoked
                           /\ tokens[r.token].user = g.user
    /\ r.op = "confirm" => /\ r.reset \in Exists(resets) /\ ~resets[r.reset].used
                           /\ resets[r.reset].user = g.user
    /\ r.op = "logout" => r.token \in Exists(tokens) \cup {None}

LEMMA GoesKeeps ==
    ASSUME IInv, NEW c \in Call, NEW r \in Request, NEW g \in Got, NEW l \in {"signin", "revoke", "write"},
           Goes(c, r, g, l), Sees(c, r, g, l)
    PROVE  IInv'
<1> USE DEF IInv
<1>1. /\ pc[c] = "idle" /\ pc' = [pc EXCEPT ![c] = l]
      /\ req' = [req EXCEPT ![c] = r] /\ got' = [got EXCEPT ![c] = g]
      /\ readAt' = [readAt EXCEPT ![c] = Count]
      /\ UNCHANGED <<tables, hits, wroteAt>>
    BY DEF Goes, Count
<1>2. c \notin Committed /\ Count \in Nat /\ users[c] = None
    BY <1>1, CountIsNat DEF Typed
<1>3. /\ pc'[c] = l /\ req'[c] = r /\ got'[c] = g /\ readAt'[c] = Count
      /\ \A d \in Call \ {c} : /\ pc'[d] = pc[d] /\ req'[d] = req[d] /\ got'[d] = got[d]
                               /\ readAt'[d] = readAt[d]
      /\ users' = users /\ tokens' = tokens /\ resets' = resets /\ wroteAt' = wroteAt
      /\ found' = found /\ foundAt' = foundAt
    BY <1>1 DEF Typed, TypeOK, tables, hits
<1>4. /\ Committed' = Committed /\ Count' = Count
      /\ \A op, u : Did(op, u)' = Did(op, u) /\ Did(op, u) \subseteq Call \ {c}
      /\ Exists(users)' = Exists(users) /\ Exists(tokens)' = Exists(tokens)
      /\ Exists(resets)' = Exists(resets)
      /\ History'
    BY <1>1, <1>2, <1>3, HistoryStays
<1>5. Count <= Cardinality(Call) /\ Cardinality(Call) \in Nat
    <2>1. Committed \subseteq Call
        BY DEF Committed
    <2> QED BY <2>1, FS_Subset, FS_CardinalityType, NamesAssumption DEF Count
<1>6. Typed'
    <2>1. TypeOK'
        <3>1. /\ pc' \in [Call -> {"idle", "signin", "revoke", "write", "ended", "refused"}]
              /\ req' \in [Call -> Request \cup {None}]
              /\ got' \in [Call -> {None} \cup
                   [user: Id, active: BOOLEAN, stale: BOOLEAN, slug: Slug \cup {None}]]
            BY <1>1 DEF Typed, TypeOK, Got
        <3>2. readAt' \in [Call -> 0 .. Cardinality(Call)]
            BY <1>1, <1>2, <1>5 DEF Typed, TypeOK
        <3> QED BY <1>3, <1>4, <3>1, <3>2 DEF Typed, TypeOK
    <2>2. ASSUME NEW d \in Call
          PROVE  /\ Started(d)' => req'[d] \in Request /\ got'[d] \in Got
                 /\ d \in Committed <=> pc'[d] = "ended"
                 /\ pc'[d] # "ended" => users[d] = None /\ tokens[d] = None /\ resets[d] = None
                 /\ found'[d] \subseteq Exists(tokens)
        <3>1. CASE d = c
            BY <1>1, <1>2, <1>3, <3>1 DEF Typed
        <3>2. CASE d # c
            BY <1>3, <3>2 DEF Typed, Started
        <3> QED BY <3>1, <3>2
    <2> QED BY <1>3, <1>4, <2>1, <2>2 DEF Typed
<1>7. Counted'
    BY <1>1, <1>2, <1>3, <1>4 DEF Counted
<1>8. Open(c)'
    <2> USE DEF Sees
    <2>1. OpenUser(c)' /\ OpenRows(c)'
        <3>1. r.op = "refresh" => r.token \in Exists(tokens)
            BY DEF Unrevoked
        <3>2. OpenUser(c)'
            BY <1>3, <1>4 DEF OpenUser, SignUps, Creators
        <3> QED BY <1>3, <1>4, <3>1, <3>2 DEF OpenRows
    <2>2. \A d \in Committed : d # c /\ wroteAt[d] <= Count /\ wroteAt[d] \in Nat
        BY <1>2 DEF Counted, Committed, Typed, TypeOK
    <2>3. \A d \in Committed : req'[d] = req[d] /\ got'[d] = got[d] /\ readAt'[d] = readAt[d]
        BY <1>3, <2>2 DEF Committed
    <2>4. \A u : PasswordSetters(u)' = PasswordSetters(u)
        BY <1>4 DEF PasswordSetters
    <2>5. OpenRefresh(c)'
        <3> SUFFICES ASSUME r.op = "refresh" PROVE OpenRefresh(c)'
            BY <1>3 DEF OpenRefresh
        <3>1. r.token \in Unrevoked /\ r.token \in Exists(tokens) /\ ~tokens[r.token].revoked
            BY DEF Unrevoked
        <3>2. ASSUME NEW d \in Committed, req[d].op = "refresh", req[d].token = r.token PROVE FALSE
            <4>1. d \in Exists(tokens) /\ tokens[d].parent = r.token
                BY <3>2 DEF History, Chains, Rotated
            <4>2. r.token # None
                BY <3>1, NamesAssumption DEF Exists, Id
            <4>3. tokens[r.token].revoked
                BY <4>1, <4>2 DEF History, Chains, TokenRows, TokenRow
            <4> QED BY <3>1, <4>3
        <3>3. \A d \in PasswordSetters(g.user) : Place(tokens[r.token].session) <= foundAt[d] =>
                Crossed(tokens[r.token].session, g.user, foundAt[d], wroteAt[d])
            BY <3>1 DEF History, SessionsEnd, Outlives
        <3>4. \A s, u, m, n : Crossed(s, u, m, n)' <=> Crossed(s, u, m, n)
            BY <1>3, <1>4 DEF Crossed
        <3>5. \A d \in Committed : ~Siblings(c, d)'
            BY <1>3, <2>3, <3>2 DEF Siblings
        <3> QED BY <1>3, <1>4, <2>4, <3>3, <3>4, <3>5 DEF OpenRefresh, Place
    <2>6. OpenPassword(c)'
        <3>1. \A d \in Committed : ~Redeemers(c, d)'
            BY <1>3, <2>3 DEF Redeemers, History, Passwords, UsedUp
        <3>2. g.stale => PasswordSetters(g.user) = {}
            BY DEF History, Passwords, FreshHash
        <3> QED BY <1>3, <1>4, <2>4, <3>1, <3>2 DEF OpenPassword
    <2>7. OpenBars(c)'
        <3>1. \A d \in Committed : Barring(d)' <=> Barring(d)
            BY <2>3 DEF Barring
        <3>2. \A u, n : Excused(u, n)' <=> Excused(u, n)
            BY <1>3, <1>4 DEF Excused
        <3>3. r.op \in Minters => MayMint(c)'
            <4> SUFFICES ASSUME r.op \in Minters, NEW d \in Committed, Barring(d), got[d].user = g.user
                         PROVE  Excused(g.user, readAt[d])
                BY <1>3, <1>4, <2>3, <3>1, <3>2 DEF MayMint
            <4>1. g.user \in Exists(users)
                BY DEF History, Tables, Owned
            <4>2. g.user # c
                BY <1>2, <4>1 DEF Exists
            <4> QED BY <4>1, <4>2 DEF History, Bars, BarsHold
        <3>4. g.user \in Exists(users) /\ users[g.user].active => g.active
            BY <1>2 DEF Exists
        <3> QED BY <1>3, <1>4, <3>2, <3>3, <3>4 DEF OpenBars
    <2>8. OpenFound(c)'
        BY <1>3 DEF OpenFound, EndsAll, Revokers, Creators, SignUps
    <2> QED BY <2>1, <2>5, <2>6, <2>7, <2>8 DEF Open
<1>9. Opened'
    BY <1>1, <1>2, <1>3, <1>8, OthersStay DEF Opened
<1> QED BY <1>4, <1>6, <1>7, <1>9

LEMMA RefusedKeeps ==
    ASSUME IInv, NEW c \in Call, pc[c] \in {"idle", "signin", "revoke", "write"}, Refused(c) PROVE IInv'
<1> USE DEF IInv
<1>1. /\ pc' = [pc EXCEPT ![c] = "refused"]
      /\ req' = [req EXCEPT ![c] = None] /\ got' = [got EXCEPT ![c] = None]
      /\ found' = [found EXCEPT ![c] = {}] /\ foundAt' = [foundAt EXCEPT ![c] = 0]
      /\ readAt' = [readAt EXCEPT ![c] = 0]
      /\ UNCHANGED <<tables, wroteAt>>
    BY DEF Refused
<1>2. c \notin Committed /\ Count \in Nat
    BY CountIsNat DEF Typed
<1>3. /\ pc'[c] = "refused" /\ readAt'[c] = 0 /\ found'[c] = {} /\ foundAt'[c] = 0
      /\ \A d \in Call \ {c} : /\ pc'[d] = pc[d] /\ req'[d] = req[d] /\ got'[d] = got[d]
                               /\ readAt'[d] = readAt[d]
                               /\ found'[d] = found[d] /\ foundAt'[d] = foundAt[d]
      /\ users' = users /\ tokens' = tokens /\ resets' = resets /\ wroteAt' = wroteAt
    BY <1>1 DEF Typed, TypeOK, tables
<1>4. /\ Committed' = Committed /\ Count' = Count
      /\ Exists(users)' = Exists(users) /\ Exists(tokens)' = Exists(tokens)
      /\ Exists(resets)' = Exists(resets)
      /\ History'
    BY <1>1, <1>2, <1>3, HistoryStays
<1>5. Typed'
    <2>1. TypeOK'
        <3>1. /\ pc' \in [Call -> {"idle", "signin", "revoke", "write", "ended", "refused"}]
              /\ req' \in [Call -> Request \cup {None}]
              /\ got' \in [Call -> {None} \cup
                   [user: Id, active: BOOLEAN, stale: BOOLEAN, slug: Slug \cup {None}]]
            BY <1>1 DEF Typed, TypeOK
        <3>2. /\ readAt' \in [Call -> 0 .. Cardinality(Call)]
              /\ foundAt' \in [Call -> 0 .. Cardinality(Call)] /\ found' \in [Call -> SUBSET Id]
            BY <1>1, NamesAssumption, FS_CardinalityType DEF Typed, TypeOK
        <3> QED BY <1>3, <1>4, <3>1, <3>2 DEF Typed, TypeOK
    <2>2. ASSUME NEW d \in Call
          PROVE  /\ Started(d)' => req'[d] \in Request /\ got'[d] \in Got
                 /\ d \in Committed <=> pc'[d] = "ended"
                 /\ pc'[d] # "ended" => users[d] = None /\ tokens[d] = None /\ resets[d] = None
                 /\ found'[d] \subseteq Exists(tokens)
        <3>1. CASE d = c
            BY <1>2, <1>3, <3>1 DEF Typed, Started
        <3>2. CASE d # c
            BY <1>3, <3>2 DEF Typed, Started
        <3> QED BY <3>1, <3>2
    <2> QED BY <1>3, <1>4, <2>1, <2>2 DEF Typed
<1>6. Counted'
    BY <1>1, <1>2, <1>3, <1>4 DEF Counted
<1>7. Opened'
    BY <1>1, <1>2, <1>3, OthersStay DEF Opened
<1> QED BY <1>4, <1>5, <1>6, <1>7

LEMMA SignInKeeps == ASSUME IInv, NEW c \in Call, SignIn(c) PROVE IInv'
<1> USE DEF IInv
<1>1. /\ pc[c] = "signin" /\ got[c].slug \notin Tenants
      /\ pc' = [pc EXCEPT ![c] = "write"]
      /\ UNCHANGED <<tables, req, hits, readAt, wroteAt>>
    BY DEF SignIn
<1>2. PICK u \in Matching(req[c].slug) \cup {c} :
        /\ u # c => Verified(u, req[c].password)
        /\ got' = [got EXCEPT ![c].user = u, ![c].stale = u # c /\ users[u].stale]
    BY DEF SignIn
<1>3. /\ c \notin Committed /\ Count \in Nat /\ users[c] = None /\ Started(c)
      /\ req[c] \in Request /\ got[c] \in Got
    BY <1>1, CountIsNat DEF Typed, Started
<1>4. u # c => u \in Exists(users) /\ users[u].active
               /\ (req[c].slug # None => users[u].tenant = req[c].slug)
    BY <1>2 DEF Matching, Alive, Verified
<1>5. /\ pc'[c] = "write" /\ req' = req /\ readAt' = readAt
      /\ found' = found /\ foundAt' = foundAt
      /\ got'[c].user = u /\ got'[c].stale = (u # c /\ users[u].stale) /\ got'[c].slug = got[c].slug
      /\ got'[c].active = got[c].active /\ got'[c] \in Got
      /\ \A d \in Call \ {c} : pc'[d] = pc[d] /\ got'[d] = got[d]
      /\ users' = users /\ tokens' = tokens /\ resets' = resets /\ wroteAt' = wroteAt
    <2>1. got'[c] = [got[c] EXCEPT !.user = u, !.stale = (u # c /\ users[u].stale)]
        BY <1>2 DEF Typed, TypeOK
    <2>2. u \in Id
        BY <1>2 DEF Matching, Id
    <2>3. (u # c /\ users[u].stale) \in BOOLEAN
        OBVIOUS
    <2>4. /\ got'[c].user = u /\ got'[c].stale = (u # c /\ users[u].stale)
          /\ got'[c].slug = got[c].slug /\ got'[c].active = got[c].active /\ got'[c] \in Got
        BY <1>3, <2>1, <2>2, <2>3 DEF Got
    <2> QED BY <1>1, <1>2, <2>4 DEF Typed, TypeOK, tables, hits
<1>6. /\ Committed' = Committed /\ Count' = Count
      /\ \A op, v : Did(op, v)' = Did(op, v) /\ Did(op, v) \subseteq Call \ {c}
      /\ Exists(users)' = Exists(users) /\ Exists(tokens)' = Exists(tokens)
      /\ Exists(resets)' = Exists(resets)
      /\ History'
    BY <1>1, <1>3, <1>5, HistoryStays
<1>7. Typed'
    <2>1. TypeOK'
        <3>1. pc' \in [Call -> {"idle", "signin", "revoke", "write", "ended", "refused"}]
            BY <1>1 DEF Typed, TypeOK
        <3>2. got' \in [Call -> {None} \cup
                   [user: Id, active: BOOLEAN, stale: BOOLEAN, slug: Slug \cup {None}]]
            BY <1>2, <1>5 DEF Typed, TypeOK, Got
        <3> QED BY <1>5, <1>6, <3>1, <3>2 DEF Typed, TypeOK
    <2>2. ASSUME NEW d \in Call
          PROVE  /\ Started(d)' => req[d] \in Request /\ got'[d] \in Got
                 /\ d \in Committed <=> pc'[d] = "ended"
                 /\ pc'[d] # "ended" => users[d] = None /\ tokens[d] = None /\ resets[d] = None
                 /\ found'[d] \subseteq Exists(tokens)
        <3>1. CASE d = c
            BY <1>1, <1>3, <1>5, <3>1 DEF Typed
        <3>2. CASE d # c
            BY <1>5, <3>2 DEF Typed, Started
        <3> QED BY <3>1, <3>2
    <2> QED BY <1>5, <1>6, <2>1, <2>2 DEF Typed
<1>8. Counted'
    BY <1>5, <1>6 DEF Counted
<1>9. Open(c)'
    <2>1. Open(c) /\ req[c].op \in SignUps /\ got[c].slug \in Slug
        BY <1>1 DEF Opened, Open, OpenUser
    <2>2. req[c].op = "register" => u = c
        <3> SUFFICES ASSUME req[c].op = "register", u # c PROVE FALSE
            OBVIOUS
        <3>1. req[c].slug = got[c].slug /\ req[c].slug # None
            BY <2>1, NamesAssumption DEF Open, OpenUser
        <3> QED BY <1>1, <1>4, <3>1 DEF Tenants
    <2>3. OpenUser(c)'
        BY <1>4, <1>5, <1>6, <2>1, <2>2 DEF Open, OpenUser, SignUps, Creators
    <2>4. req[c].op \notin {"refresh", "confirm", "logout", "delete", "set_active"}
        BY <2>1 DEF SignUps
    <2>5. OpenRows(c)' /\ OpenRefresh(c)'
        BY <1>5, <2>4 DEF OpenRows, OpenRefresh
    <2>6. \A d \in Committed : d # c /\ got'[d] = got[d] /\ wroteAt[d] <= Count /\ wroteAt[d] \in Nat
        BY <1>3, <1>5 DEF Committed, Counted, Typed, TypeOK
    <2>7. OpenPassword(c)'
        <3>1. \A v : PasswordSetters(v)' = PasswordSetters(v)
            BY <1>6 DEF PasswordSetters
        <3>2. u # c /\ users[u].stale => PasswordSetters(u) = {}
            BY <1>4 DEF History, Passwords, FreshHash
        <3> QED BY <1>5, <2>4, <3>1, <3>2 DEF OpenPassword, Redeemers
    <2>8. OpenBars(c)'
        <3>1. ~Barring(c)'
            BY <1>5, <2>4 DEF Barring
        <3>2. \A v, n : Excused(v, n)' <=> Excused(v, n)
            BY <1>5, <1>6 DEF Excused
        <3>3. MayMint(c)'
            <4> SUFFICES ASSUME NEW d \in Committed, Barring(d), got[d].user = u
                         PROVE  Excused(u, readAt[d])
                BY <1>5, <1>6, <2>6, <3>2 DEF MayMint, Barring
            <4>1. u \in Exists(users)
                BY DEF History, Tables, Owned
            <4>2. u # c
                BY <1>3, <4>1 DEF Exists
            <4> QED BY <1>4, <4>1, <4>2 DEF History, Bars, BarsHold
        <3> QED BY <3>1, <3>3 DEF OpenBars
    <2>9. OpenFound(c)'
        BY <1>5, <2>1 DEF OpenFound, EndsAll, SignUps
    <2> QED BY <2>3, <2>5, <2>7, <2>8, <2>9 DEF Open
<1>10. Opened'
    BY <1>1, <1>3, <1>5, <1>9, OthersStay DEF Opened
<1> QED BY <1>6, <1>7, <1>8, <1>10

\* The UPDATE that revokes: nothing good of the user's is left out of it.
LEMMA RevokesKeep == ASSUME IInv, NEW c \in Call, Revokes(c) PROVE IInv'
<1> USE DEF IInv
<1>1. /\ pc[c] = "revoke" /\ pc' = [pc EXCEPT ![c] = "write"]
      /\ found' = [found EXCEPT ![c] = Revocable(c)] /\ foundAt' = [foundAt EXCEPT ![c] = Count]
      /\ UNCHANGED <<tables, req, got, readAt, wroteAt>>
    BY DEF Revokes, Count
<1>2. /\ c \notin Committed /\ Count \in Nat /\ Started(c) /\ Open(c)
      /\ req[c] \in Request /\ got[c] \in Got
    BY <1>1, CountIsNat DEF Typed, Started, Opened
<1>3. /\ pc'[c] = "write" /\ found'[c] = Revocable(c) /\ foundAt'[c] = Count
      /\ \A d \in Call \ {c} : pc'[d] = pc[d] /\ found'[d] = found[d] /\ foundAt'[d] = foundAt[d]
      /\ req' = req /\ got' = got /\ readAt' = readAt
      /\ users' = users /\ tokens' = tokens /\ resets' = resets /\ wroteAt' = wroteAt
    BY <1>1 DEF Typed, TypeOK, tables
<1>4. /\ Committed' = Committed /\ Count' = Count
      /\ \A op, v : Did(op, v)' = Did(op, v) /\ Did(op, v) \subseteq Call \ {c}
      /\ Exists(users)' = Exists(users) /\ Exists(tokens)' = Exists(tokens)
      /\ Exists(resets)' = Exists(resets)
      /\ History'
    BY <1>1, <1>2, <1>3, HistoryStays
<1>5. Count <= Cardinality(Call) /\ Cardinality(Call) \in Nat
    <2>1. Committed \subseteq Call
        BY DEF Committed
    <2> QED BY <2>1, FS_Subset, FS_CardinalityType, NamesAssumption DEF Count
<1>6. Revocable(c) \subseteq Exists(tokens) /\ Exists(tokens) \subseteq Id
    BY DEF Revocable, Exists
<1>7. Typed'
    <2>1. TypeOK'
        <3>1. pc' \in [Call -> {"idle", "signin", "revoke", "write", "ended", "refused"}]
            BY <1>1 DEF Typed, TypeOK
        <3>2. found' \in [Call -> SUBSET Id] /\ foundAt' \in [Call -> 0 .. Cardinality(Call)]
            BY <1>1, <1>2, <1>5, <1>6 DEF Typed, TypeOK
        <3> QED BY <1>3, <1>4, <3>1, <3>2 DEF Typed, TypeOK
    <2>2. ASSUME NEW d \in Call
          PROVE  /\ Started(d)' => req[d] \in Request /\ got[d] \in Got
                 /\ d \in Committed <=> pc'[d] = "ended"
                 /\ pc'[d] # "ended" => users[d] = None /\ tokens[d] = None /\ resets[d] = None
                 /\ found'[d] \subseteq Exists(tokens)
        <3>1. CASE d = c
            BY <1>1, <1>2, <1>3, <1>6, <3>1 DEF Typed
        <3>2. CASE d # c
            BY <1>3, <3>2 DEF Typed, Started
        <3> QED BY <3>1, <3>2
    <2> QED BY <1>3, <1>4, <2>1, <2>2 DEF Typed
<1>8. Counted'
    BY <1>2, <1>3, <1>4 DEF Counted
<1>9. Open(c)'
    <2>1. OpenUser(c)' /\ OpenRows(c)'
        BY <1>1, <1>2, <1>3, <1>4 DEF Open, OpenUser, OpenRows
    <2>2. \A u : PasswordSetters(u)' = PasswordSetters(u) /\ PasswordSetters(u) \subseteq Call \ {c}
        BY <1>4 DEF PasswordSetters
    <2>3. OpenRefresh(c)'
        <3>1. \A s, u, m, n : Crossed(s, u, m, n)' <=> Crossed(s, u, m, n)
            BY <1>3, <1>4 DEF Crossed
        <3> QED BY <1>2, <1>3, <1>4, <2>2, <3>1 DEF Open, OpenRefresh, Siblings, Place
    <2>4. OpenPassword(c)'
        BY <1>2, <1>3, <1>4, <2>2 DEF Open, OpenPassword, Redeemers
    <2>5. OpenBars(c)'
        <3>1. \A v, n : Excused(v, n)' <=> Excused(v, n)
            BY <1>3, <1>4 DEF Excused
        <3>2. MayMint(c)' <=> MayMint(c)
            BY <1>3, <1>4, <3>1 DEF MayMint, Barring
        <3> QED BY <1>2, <1>3, <1>4, <3>1, <3>2 DEF Open, OpenBars, Barring
    <2>6. OpenFound(c)'
        BY <1>3, <1>4 DEF OpenFound, EndsAll, Revocable, Unrevoked
    <2> QED BY <2>1, <2>3, <2>4, <2>5, <2>6 DEF Open
<1>10. Opened'
    BY <1>1, <1>2, <1>3, <1>9, OthersStay DEF Opened
<1> QED BY <1>4, <1>7, <1>8, <1>10

\* Every call that goes on has seen what it needs.
LEMMA LoadsKeeps ==
    ASSUME IInv, NEW c \in Call, NEW r \in Request, NEW u \in Exists(users),
           NEW l \in {"revoke", "write"}, Goes(c, r, Row(u), l),
           l = IF r.op \in Revokers THEN "revoke" ELSE "write",
           r.op \notin SignUps \cup {"invite"},
           r.op \in Minters => users[u].active,
           r.op = "refresh" => r.token \in Unrevoked /\ tokens[r.token].user = u,
           r.op = "confirm" => /\ r.reset \in Exists(resets) /\ ~resets[r.reset].used
                               /\ resets[r.reset].user = u,
           r.op = "logout" => r.token \in Exists(tokens) \cup {None}
    PROVE  IInv'
<1> DEFINE g == Row(u)
<1>1. users[u] \in User
    BY DEF IInv, Typed, TypeOK, Exists
<1>2. /\ g \in Got /\ g.user = u /\ g.active = users[u].active /\ g.stale = users[u].stale
    BY <1>1 DEF Got, User, Exists, Row
<1>3. Goes(c, r, g, l)
    OBVIOUS
<1> HIDE DEF g
<1>4. Sees(c, r, g, l)
    BY <1>2 DEF Sees
<1> QED BY <1>2, <1>3, <1>4, GoesKeeps

LEMMA ToCreateKeeps ==
    ASSUME IInv, NEW c \in Call, NEW r \in Request, NEW s \in Slug, NEW l \in {"signin", "write"},
           ToCreate(c, r, s, l), r.op \in Creators, r.op = "register" => r.slug = s,
           l = "signin" <=> r.op \in SignUps
    PROVE  IInv'
<1> DEFINE g == [user |-> c, active |-> TRUE, stale |-> FALSE, slug |-> s]
<1>1. g \in Got
    BY DEF Got, Id
<1>2. Goes(c, r, g, l)
    BY DEF ToCreate
<1>3. Sees(c, r, g, l)
    BY DEF Sees, Creators, SignUps
<1> HIDE DEF g
<1> QED BY <1>1, <1>2, <1>3, GoesKeeps

LEMMA RefuseKeeps == ASSUME IInv, NEW c \in Call, Refuse(c) PROVE IInv'
BY RefusedKeeps DEF Refuse

LEMMA ReadsKeep == ASSUME IInv, NEW c \in Call, Reads(c) PROVE IInv'
<1> USE RefuseKeeps DEF SignUps, Minters, Creators, Revokers, Loads, LoadsToRevoke
<1>1. ASSUME NEW s \in Slug \cup {None}, NEW p \in Password, LoginRead(c, s, p) PROVE IInv'
    <2>1. CASE Refuse(c)
        BY <2>1
    <2>2. ASSUME NEW u \in Matching(s), Verified(u, p),
                 Loads(c, [op |-> "login", slug |-> s, password |-> p], u)
          PROVE  IInv'
        <3> DEFINE r == [op |-> "login", slug |-> s, password |-> p]
        <3>1. r \in Request /\ r.op = "login"
            BY DEF Request
        <3>2. u \in Exists(users) /\ users[u].active
            BY <2>2 DEF Matching, Alive, Verified
        <3>3. Goes(c, r, Row(u), "write")
            BY <2>2
        <3> HIDE DEF r
        <3> QED BY <3>1, <3>2, <3>3, LoadsKeeps
    <2> QED BY <1>1, <2>1, <2>2 DEF LoginRead
<1>2. ASSUME NEW t \in Id, RefreshRead(c, t) PROVE IInv'
    <2>1. CASE Refuse(c)
        BY <2>1
    <2>2. CASE Rotatable(t) /\ Loads(c, [op |-> "refresh", token |-> t], tokens[t].user)
        <3> DEFINE r == [op |-> "refresh", token |-> t]
        <3>1. r \in Request /\ r.op = "refresh" /\ r.token = t
            BY DEF Request
        <3>2. t \in Unrevoked /\ users[tokens[t].user].active
            BY <1>2, <2>2 DEF RefreshRead, Rotatable, Unrevoked
        <3>3. tokens[t].user \in Exists(users)
            BY <1>2 DEF RefreshRead, IInv, Typed, TypeOK
        <3>4. Goes(c, r, Row(tokens[t].user), "write")
            BY <2>2
        <3> HIDE DEF r
        <3> QED BY <3>1, <3>2, <3>3, <3>4, LoadsKeeps
    <2> QED BY <1>2, <2>1, <2>2 DEF RefreshRead
<1>3. ASSUME NEW u \in Id, NEW t \in Id \cup {None}, LogoutRead(c, u, t) PROVE IInv'
    <2>1. CASE Refuse(c)
        BY <2>1
    <2>2. CASE LoadsToRevoke(c, [op |-> "logout", token |-> t], u)
        <3> DEFINE r == [op |-> "logout", token |-> t]
        <3>1. r \in Request /\ r.op = "logout" /\ r.token = t
            BY DEF Request
        <3>2. u \in Exists(users) /\ t \in Exists(tokens) \cup {None}
            BY <1>3 DEF LogoutRead
        <3>3. Goes(c, r, Row(u), "revoke")
            BY <2>2
        <3> HIDE DEF r
        <3> QED BY <3>1, <3>2, <3>3, LoadsKeeps
    <2> QED BY <1>3, <2>1, <2>2 DEF LogoutRead
<1>4. ASSUME NEW u \in Id, NEW p \in Password, NEW q \in Password, ChangeRead(c, u, p, q) PROVE IInv'
    <2>1. CASE Refuse(c)
        BY <2>1
    <2>2. CASE LoadsToRevoke(c, [op |-> "change", password |-> q], u)
        <3> DEFINE r == [op |-> "change", password |-> q]
        <3>1. r \in Request /\ r.op = "change"
            BY DEF Request
        <3>2. u \in Exists(users) /\ Goes(c, r, Row(u), "revoke")
            BY <1>4, <2>2 DEF ChangeRead
        <3> HIDE DEF r
        <3> QED BY <3>1, <3>2, LoadsKeeps
    <2> QED BY <1>4, <2>1, <2>2 DEF ChangeRead
<1>5. ASSUME ForgotRead(c) PROVE IInv'
    <2>1. CASE Refuse(c)
        BY <2>1
    <2>2. ASSUME NEW u \in Matching(None), Loads(c, [op |-> "forgot"], u) PROVE IInv'
        <3> DEFINE r == [op |-> "forgot"]
        <3>1. r \in Request /\ r.op = "forgot"
            BY DEF Request
        <3>2. u \in Exists(users) /\ Goes(c, r, Row(u), "write")
            BY <2>2 DEF Matching, Alive
        <3> HIDE DEF r
        <3> QED BY <3>1, <3>2, LoadsKeeps
    <2> QED BY <1>5, <2>1, <2>2 DEF ForgotRead
<1>6. ASSUME NEW i \in Id, NEW p \in Password, ConfirmRead(c, i, p) PROVE IInv'
    <2>1. CASE Refuse(c)
        BY <2>1
    <2>2. CASE /\ Redeemable(i)
               /\ LoadsToRevoke(c, [op |-> "confirm", reset |-> i, password |-> p], resets[i].user)
        <3> DEFINE r == [op |-> "confirm", reset |-> i, password |-> p]
        <3>1. r \in Request /\ r.op = "confirm" /\ r.reset = i
            BY DEF Request
        <3>2. i \in Exists(resets) /\ ~resets[i].used
            BY <1>6, <2>2 DEF ConfirmRead, Redeemable
        <3>3. resets[i].user \in Exists(users) /\ Goes(c, r, Row(resets[i].user), "revoke")
            BY <2>2, <3>2 DEF IInv, Typed, TypeOK
        <3> HIDE DEF r
        <3> QED BY <3>1, <3>2, <3>3, LoadsKeeps
    <2> QED BY <1>6, <2>1, <2>2 DEF ConfirmRead
<1>7. ASSUME GoogleRead(c) PROVE IInv'
    <2> DEFINE r == [op |-> "google", slug |-> None, password |-> Random]
    <2>1. r \in Request /\ r.op = "google"
        BY DEF Request
    <2>2. CASE Refuse(c)
        BY <2>2
    <2>3. ASSUME NEW u \in Matching(None), SignedIn(u), Loads(c, r, u) PROVE IInv'
        <3>1. u \in Exists(users) /\ users[u].active /\ Goes(c, r, Row(u), "write")
            BY <2>3 DEF SignedIn
        <3> HIDE DEF r
        <3> QED BY <2>1, <3>1, LoadsKeeps
    <2>4. ASSUME NEW s \in Slug, ToCreate(c, r, s, "write") PROVE IInv'
        <3>1. ToCreate(c, r, s, "write")
            BY <2>4
        <3> HIDE DEF r
        <3> QED BY <2>1, <3>1, ToCreateKeeps
    <2> QED BY <1>7, <2>2, <2>3, <2>4 DEF GoogleRead, FreshSlug
<1>8. ASSUME NEW s \in Slug, NEW p \in Password, RegisterRead(c, s, p) PROVE IInv'
    <2>1. CASE Refuse(c)
        BY <2>1
    <2>2. CASE ToCreate(c, [op |-> "register", slug |-> s, password |-> p], s, "signin")
        <3> DEFINE r == [op |-> "register", slug |-> s, password |-> p]
        <3>1. r \in Request /\ r.op = "register" /\ r.slug = s
            BY DEF Request
        <3>2. ToCreate(c, r, s, "signin")
            BY <2>2
        <3> HIDE DEF r
        <3> QED BY <3>1, <3>2, ToCreateKeeps
    <2> QED BY <1>8, <2>1, <2>2 DEF RegisterRead
<1>9. ASSUME NEW s \in Slug, NEW p \in Password, InviteRead(c, s, p) PROVE IInv'
    <2>1. CASE Refuse(c)
        BY <2>1
    <2>2. CASE ToCreate(c, [op |-> "invite", slug |-> s, password |-> p], s, "write")
        <3> DEFINE r == [op |-> "invite", slug |-> s, password |-> p]
        <3>1. r \in Request /\ r.op = "invite"
            BY DEF Request
        <3>2. ToCreate(c, r, s, "write")
            BY <2>2
        <3> HIDE DEF r
        <3> QED BY <3>1, <3>2, ToCreateKeeps
    <2> QED BY <1>9, <2>1, <2>2 DEF InviteRead
<1>10. ASSUME NEW p \in Password, RegisterIndividualRead(c, p) PROVE IInv'
    <2> DEFINE r == [op |-> "register_individual", slug |-> None, password |-> p]
    <2>1. r \in Request /\ r.op = "register_individual"
        BY DEF Request
    <2>2. CASE Refuse(c)
        BY <2>2
    <2>3. ASSUME NEW s \in Slug, ToCreate(c, r, s, "signin") PROVE IInv'
        <3>1. ToCreate(c, r, s, "signin")
            BY <2>3
        <3> HIDE DEF r
        <3> QED BY <2>1, <3>1, ToCreateKeeps
    <2> QED BY <1>10, <2>2, <2>3 DEF RegisterIndividualRead, FreshSlug
<1>11. ASSUME NEW u \in Id, NEW a \in BOOLEAN, SetActiveRead(c, u, a) PROVE IInv'
    <2> DEFINE r == [op |-> "set_active", active |-> a]
    <2>1. r \in Request /\ r.op = "set_active"
        BY DEF Request
    <2>2. u \in Exists(users) /\ Goes(c, r, Row(u), "write")
        BY <1>11 DEF SetActiveRead
    <2> HIDE DEF r
    <2> QED BY <2>1, <2>2, LoadsKeeps
<1>12. ASSUME NEW u \in Id, DeleteRead(c, u) PROVE IInv'
    <2> DEFINE r == [op |-> "delete"]
    <2>1. r \in Request /\ r.op = "delete"
        BY DEF Request
    <2>2. u \in Exists(users) /\ Goes(c, r, Row(u), "write")
        BY <1>12 DEF DeleteRead
    <2> HIDE DEF r
    <2> QED BY <2>1, <2>2, LoadsKeeps
<1> QED BY <1>1, <1>2, <1>3, <1>4, <1>5, <1>6, <1>7, <1>8, <1>9, <1>10, <1>11, <1>12 DEF Reads

-----------------------------------------------------------------------------
(* What a commit counts, and what it does to each table.                   *)

Operations == Minters \cup {"logout", "change", "forgot", "confirm", "invite", "set_active", "delete"}
LEMMA CommitCounts ==
    ASSUME IInv, NEW c \in Call, Commits(c, Operations)
    PROVE  /\ pc[c] = "write" /\ c \notin Committed /\ Count \in Nat /\ Open(c)
           /\ req[c] \in Request /\ got[c] \in Got
           /\ users[c] = None /\ tokens[c] = None /\ resets[c] = None
           /\ pc' = [pc EXCEPT ![c] = "ended"] /\ wroteAt' = [wroteAt EXCEPT ![c] = 1 + Count]
           /\ req' = req /\ got' = got /\ readAt' = readAt
           /\ found' = found /\ foundAt' = foundAt
           /\ pc'[c] = "ended" /\ wroteAt'[c] = Count + 1
           /\ \A d \in Call \ {c} : pc'[d] = pc[d] /\ wroteAt'[d] = wroteAt[d]
           /\ Committed' = Committed \cup {c} /\ Count' = Count + 1
           /\ Counted' /\ wroteAt' \in [Call -> 0 .. Cardinality(Call)]
           /\ pc' \in [Call -> {"idle", "signin", "revoke", "write", "ended", "refused"}]
           /\ \A d \in Call : d \in Committed' <=> pc'[d] = "ended"
           /\ \A d \in Call : /\ readAt[d] \in Nat /\ wroteAt[d] \in Nat /\ foundAt[d] \in Nat
                              /\ readAt[d] <= Count /\ wroteAt[d] <= Count /\ foundAt[d] <= Count
           /\ \A op, u : Did(op, u)' = IF req[c].op \in op /\ got[c].user = u
                                       THEN Did(op, u) \cup {c} ELSE Did(op, u)
           /\ \A op, u : Did(op, u) \subseteq Committed /\ Did(op, u) \subseteq Call \ {c}
<1> USE DEF IInv
<1>1. /\ pc[c] = "write"
      /\ pc' = [pc EXCEPT ![c] = "ended"] /\ wroteAt' = [wroteAt EXCEPT ![c] = 1 + Count]
      /\ req' = req /\ got' = got /\ readAt' = readAt
      /\ found' = found /\ foundAt' = foundAt
    BY DEF Commits, Count, hits
<1>2. /\ c \notin Committed /\ Count \in Nat /\ Open(c) /\ req[c] \in Request /\ got[c] \in Got
      /\ users[c] = None /\ tokens[c] = None /\ resets[c] = None
    BY <1>1, CountIsNat DEF Typed, Started, Opened
<1>3. /\ pc'[c] = "ended" /\ wroteAt'[c] = Count + 1
      /\ \A d \in Call \ {c} : pc'[d] = pc[d] /\ wroteAt'[d] = wroteAt[d]
    BY <1>1, <1>2 DEF Typed, TypeOK
<1>4. \A d \in Call : /\ readAt[d] \in Nat /\ wroteAt[d] \in Nat /\ foundAt[d] \in Nat
                      /\ readAt[d] <= Count /\ wroteAt[d] <= Count /\ foundAt[d] <= Count
    <2>1. Cardinality(Call) \in Nat
        BY NamesAssumption, FS_CardinalityType
    <2> QED BY <2>1 DEF Typed, TypeOK, Counted
<1>5. Committed' = Committed \cup {c}
    BY <1>2, <1>3 DEF Committed
<1>6. IsFiniteSet(Committed') /\ Count' = Count + 1
    BY <1>2, <1>5, FS_AddElement DEF Counted, Count
<1>7. Counted'
    BY <1>1, <1>2, <1>3, <1>4, <1>6 DEF Counted
<1>8. Count' <= Cardinality(Call) /\ Cardinality(Call) \in Nat
    <2>1. Committed' \subseteq Call
        BY <1>5 DEF Committed
    <2> QED BY <2>1, FS_Subset, FS_CardinalityType, NamesAssumption DEF Count
<1>9. wroteAt' \in [Call -> 0 .. Cardinality(Call)]
    BY <1>1, <1>2, <1>6, <1>8 DEF Typed, TypeOK
<1>10. pc' \in [Call -> {"idle", "signin", "revoke", "write", "ended", "refused"}]
    BY <1>1 DEF Typed, TypeOK
<1>11. \A d \in Call : d \in Committed' <=> pc'[d] = "ended"
    BY <1>3, <1>5 DEF Typed
<1>12. \A op, u : Did(op, u)' = IF req[c].op \in op /\ got[c].user = u
                                THEN Did(op, u) \cup {c} ELSE Did(op, u)
    BY <1>1, <1>5 DEF Did
<1>13. \A op, u : Did(op, u) \subseteq Committed /\ Did(op, u) \subseteq Call \ {c}
    BY <1>2 DEF Did, Committed
<1> QED BY <1>1, <1>2, <1>3, <1>4, <1>5, <1>6, <1>7, <1>9, <1>10, <1>11, <1>12, <1>13

RowShape(c) ==
    /\ users' \in [Id -> User \cup {None}]
    /\ \A i \in Id \ {c} : users[i] = None => users'[i] = None
    /\ \A i \in Exists(users) : /\ users'[i] # None /\ users'[i].tenant = users[i].tenant
                                /\ users[i].deleted => users'[i].deleted
    /\ got[c].user = c => users'[c] # None
    /\ users'[c] # None => \A i \in Id : Alive(i) => users[i].tenant # users'[c].tenant
PasswordShape(c) ==
    \A i \in Exists(users) :
        IF i = got[c].user /\ req[c].op \in {"change", "confirm"}
        THEN users'[i].password = req[c].password /\ ~users'[i].stale
        ELSE IF i = got[c].user /\ req[c].op \in SignUps \cup {"login"} /\ got[c].stale
        THEN ~users'[i].stale
        ELSE users'[i].password = users[i].password /\ users'[i].stale = users[i].stale
ActiveShape(c) ==
    \A i \in Exists(users) : users'[i].active =>
        \/ users[i].active /\ (i = got[c].user /\ Barring(c) => ~got[c].active)
        \/ i = got[c].user /\ req[c].op = "set_active" /\ req[c].active
\* A login, a rotation, or tokens that are revoked.
RevokesSome(c) ==
    /\ req[c].op \notin Minters /\ tokens' \in [Id -> RefreshToken \cup {None}]
    /\ \A t \in Id : tokens[t] = None => tokens'[t] = None
    /\ \A t \in Exists(tokens) :
        /\ tokens'[t] # None /\ tokens'[t].user = tokens[t].user
        /\ tokens'[t].session = tokens[t].session /\ tokens'[t].parent = tokens[t].parent
        /\ tokens[t].revoked => tokens'[t].revoked
        /\ req[c].op \in Revokers /\ t \in found[c] => tokens'[t].revoked
Mints(c) ==
    /\ req[c].op \in Minters \ {"refresh"}
    /\ tokens' = Mint(tokens, c, got[c].user)
Rotates(c) ==
    /\ req[c].op = "refresh"
    /\ tokens' = [tokens EXCEPT ![req[c].token].revoked = TRUE,
                        ![c] = Token(got[c].user, tokens[req[c].token].session, req[c].token)]
TokenShape(c) == RevokesSome(c) \/ Mints(c) \/ Rotates(c)
ResetShape(c) ==
    /\ resets' \in [Id -> PasswordResetToken \cup {None}]
    /\ \A i \in Id \ {c} : resets[i] = None => resets'[i] = None
    /\ resets'[c] # None => resets'[c].user = got[c].user
    /\ \A i \in Exists(resets) : /\ resets'[i] # None /\ resets'[i].user = resets[i].user
                                 /\ resets[i].used => resets'[i].used
    /\ req[c].op = "confirm" => resets'[req[c].reset].used
Shape(c) == RowShape(c) /\ PasswordShape(c) /\ ActiveShape(c) /\ TokenShape(c) /\ ResetShape(c)

LEMMA SameUsers ==
    ASSUME IInv, NEW c \in Call, users' = users, got[c].user # c, users[c] = None,
           req[c].op \notin {"change", "confirm", "delete", "set_active"},
           req[c].op \notin SignUps \cup {"login"} \/ ~got[c].stale
    PROVE  RowShape(c) /\ PasswordShape(c) /\ ActiveShape(c)
<1>1. RowShape(c)
    BY DEF IInv, Typed, TypeOK, RowShape, Exists
<1>2. PasswordShape(c) /\ ActiveShape(c)
    BY DEF PasswordShape, ActiveShape, Barring
<1> QED BY <1>1, <1>2

\* A new row, and an old one whose password may be hashed again.
LEMMA NewUsers ==
    ASSUME IInv, NEW c \in Call, users[c] = None, req[c] \in Request,
           users' \in [Id -> User \cup {None}],
           users'[c] \in User, \A i \in Id : Alive(i) => users[i].tenant # users'[c].tenant,
           req[c].op \notin {"change", "confirm", "delete", "set_active"},
           \A i \in Id \ {c} :
               \/ users'[i] = users[i]
               \/ /\ i = got[c].user /\ i \in Exists(users) /\ got[c].stale
                  /\ req[c].op \in SignUps \cup {"login"}
                  /\ users'[i] = [users[i] EXCEPT !.password = req[c].password, !.stale = FALSE],
           \/ req[c].op \notin SignUps \cup {"login"} \/ ~got[c].stale
           \/ got[c].user \in Exists(users) /\ ~users'[got[c].user].stale
    PROVE  RowShape(c) /\ PasswordShape(c) /\ ActiveShape(c)
<1>0. users \in [Id -> User \cup {None}]
    BY DEF IInv, Typed, TypeOK
<1>1. \A i \in Exists(users) : i \in Id \ {c} /\ users[i] \in User /\ users[i] # None
    BY <1>0 DEF Exists
<1>2. \A i \in Exists(users) : /\ users'[i] \in User /\ users'[i].tenant = users[i].tenant
                               /\ users'[i].deleted = users[i].deleted /\ users'[i].active = users[i].active
    <2> SUFFICES ASSUME NEW i \in Exists(users)
                 PROVE  /\ users'[i] \in User /\ users'[i].tenant = users[i].tenant
                        /\ users'[i].deleted = users[i].deleted
                        /\ users'[i].active = users[i].active
        OBVIOUS
    <2>1. CASE users'[i] = users[i]
        BY <1>1, <2>1
    <2>2. CASE /\ req[c].op \in SignUps \cup {"login"}
               /\ users'[i] = [users[i] EXCEPT !.password = req[c].password, !.stale = FALSE]
        <3>1. req[c].password \in Password \cup {Random}
            BY <2>2 DEF Request, SignUps
        <3> QED BY <1>1, <2>2, <3>1 DEF User
    <2> QED BY <1>1, <2>1, <2>2
<1>3. \A x \in User : x # None
    BY NoneAssumption
<1>4. RowShape(c)
    <2>1. \A i \in Id \ {c} : users[i] = None => users'[i] = None
        BY DEF Exists
    <2>2. \A i \in Exists(users) : /\ users'[i] # None /\ users'[i].tenant = users[i].tenant
                                   /\ users[i].deleted => users'[i].deleted
        BY <1>2, <1>3
    <2>3. users'[c] # None
        BY <1>3
    <2> QED BY <2>1, <2>2, <2>3 DEF RowShape
<1>5. PasswordShape(c)
    <2> SUFFICES ASSUME NEW i \in Exists(users)
                 PROVE  IF i = got[c].user /\ req[c].op \in SignUps \cup {"login"} /\ got[c].stale
                        THEN ~users'[i].stale
                        ELSE users'[i].password = users[i].password /\ users'[i].stale = users[i].stale
        BY DEF PasswordShape
    <2>1. CASE i = got[c].user /\ req[c].op \in SignUps \cup {"login"} /\ got[c].stale
        BY <2>1
    <2>2. CASE ~(i = got[c].user /\ req[c].op \in SignUps \cup {"login"} /\ got[c].stale)
        <3>1. users'[i] = users[i]
            BY <1>1, <2>2
        <3> QED BY <2>2, <3>1
    <2> QED BY <2>1, <2>2
<1>6. ActiveShape(c)
    BY <1>2 DEF ActiveShape, Barring
<1> QED BY <1>4, <1>5, <1>6

\* A row that is not new.
LEMMA OneUser ==
    ASSUME IInv, NEW c \in Call, users[c] = None, got[c].user \in Exists(users),
           NEW row \in User, users' = [users EXCEPT ![got[c].user] = row],
           row.tenant = users[got[c].user].tenant, users[got[c].user].deleted => row.deleted
    PROVE  /\ RowShape(c) /\ got[c].user # c /\ users[got[c].user] \in User
           /\ \A i \in Exists(users) : users'[i] = IF i = got[c].user THEN row ELSE users[i]
<1>1. users \in [Id -> User \cup {None}]
    BY DEF IInv, Typed, TypeOK
<1>2. got[c].user \in Id /\ got[c].user # c /\ users[got[c].user] \in User /\ \A x \in User : x # None
    BY <1>1, NoneAssumption DEF Exists
<1>3. \A i \in Id : users'[i] = IF i = got[c].user THEN row ELSE users[i]
    BY <1>1, <1>2
<1>4. users' \in [Id -> User \cup {None}] /\ users'[c] = None
    BY <1>1, <1>2, <1>3 DEF Id
<1>5. \A i \in Exists(users) : i \in Id
    BY DEF Exists
<1>6. RowShape(c)
    BY <1>2, <1>3, <1>4, <1>5 DEF RowShape, Exists
<1> QED BY <1>2, <1>3, <1>5, <1>6

LEMMA NewRow ==
    ASSUME NEW c \in Call, req[c] \in Request, got[c].slug \in Slug, req[c].op \in Creators,
           users \in [Id -> User \cup {None}]
    PROVE  /\ NewUser(c) \in [Id -> User \cup {None}] /\ NewUser(c)[c] \in User
           /\ NewUser(c)[c].tenant = got[c].slug /\ ~NewUser(c)[c].stale
           /\ \A i \in Id \ {c} : NewUser(c)[i] = users[i]
<1> DEFINE row == [tenant |-> got[c].slug, password |-> req[c].password, active |-> TRUE,
                   deleted |-> FALSE, stale |-> FALSE]
<1>1. req[c].password \in Password \cup {Random}
    BY DEF Request, Creators, SignUps
<1>2. row \in User /\ row.tenant = got[c].slug /\ ~row.stale
    BY <1>1 DEF User
<1>3. NewUser(c) = [users EXCEPT ![c] = row] /\ c \in Id
    BY DEF NewUser, Id
<1> HIDE DEF row
<1> QED BY <1>2, <1>3

LEMMA NoTokens ==
    ASSUME IInv, NEW c \in Call, tokens' = tokens,
           req[c].op \notin Minters \cup Revokers
    PROVE  TokenShape(c)
<1>1. tokens \in [Id -> RefreshToken \cup {None}] /\ \A t \in Exists(tokens) : tokens[t] # None
    BY DEF IInv, Typed, TypeOK, Exists
<1>2. RevokesSome(c)
    BY <1>1 DEF RevokesSome
<1> QED BY <1>2 DEF TokenShape

LEMMA NoResets ==
    ASSUME IInv, NEW c \in Call, resets' = resets, resets[c] = None, req[c].op # "confirm"
    PROVE  ResetShape(c)
BY DEF IInv, Typed, TypeOK, Exists, ResetShape

\* revoked is set on the tokens that were found, which are otherwise left alone.
LEMMA FoundRevoked ==
    ASSUME IInv, NEW c \in Call, req[c].op \in Revokers, tokens' = Revoked(c)
    PROVE  TokenShape(c)
<1>0. \A t \in Id : tokens'[t] = IF t \in found[c] THEN [tokens[t] EXCEPT !.revoked = TRUE] ELSE tokens[t]
    BY DEF Revoked
<1>1. tokens \in [Id -> RefreshToken \cup {None}] /\ \A x \in RefreshToken : x # None
    BY NoneAssumption DEF IInv, Typed, TypeOK
<1>2. \A t \in Exists(tokens) : t \in Id /\ tokens[t] \in RefreshToken
    BY <1>1 DEF Exists
<1>3. \A t \in Exists(tokens) :
         /\ tokens'[t] \in RefreshToken /\ tokens'[t].user = tokens[t].user
         /\ tokens'[t].session = tokens[t].session /\ tokens'[t].parent = tokens[t].parent
         /\ tokens'[t].revoked = (tokens[t].revoked \/ t \in found[c])
    <2> SUFFICES ASSUME NEW t \in Exists(tokens)
                 PROVE  /\ tokens'[t] \in RefreshToken /\ tokens'[t].user = tokens[t].user
                        /\ tokens'[t].session = tokens[t].session /\ tokens'[t].parent = tokens[t].parent
                        /\ tokens'[t].revoked = (tokens[t].revoked \/ t \in found[c])
        OBVIOUS
    <2>1. CASE t \in found[c]
        <3>1. tokens'[t] = [tokens[t] EXCEPT !.revoked = TRUE]
            BY <1>0, <1>2, <2>1
        <3> QED BY <1>2, <2>1, <3>1 DEF RefreshToken
    <2>2. CASE t \notin found[c]
        <3>1. tokens'[t] = tokens[t]
            BY <1>0, <1>2, <2>2
        <3>2. tokens[t].revoked \in BOOLEAN
            BY <1>2 DEF RefreshToken
        <3> QED BY <1>2, <2>2, <3>1, <3>2
    <2> QED BY <2>1, <2>2
<1>4. \A t \in Id : tokens[t] = None => tokens'[t] = None
    BY <1>0 DEF IInv, Typed, Exists
<1>5. tokens' \in [Id -> RefreshToken \cup {None}]
    <2>1. \A t \in Id : tokens'[t] \in RefreshToken \cup {None}
        BY <1>3, <1>4 DEF Exists
    <2> QED BY <2>1 DEF Revoked
<1>6. req[c].op \notin Minters
    BY DEF Minters, SignUps, Revokers
<1>7. RevokesSome(c)
    BY <1>1, <1>3, <1>4, <1>5, <1>6 DEF RevokesSome
<1> QED BY <1>7 DEF TokenShape

\* The facts about the writer of a step.
LEMMA WriterKnows ==
    ASSUME IInv, NEW c \in Call, Commits(c, Operations)
    PROVE  /\ users \in [Id -> User \cup {None}] /\ OpenUser(c) /\ OpenRows(c)
           /\ req[c] \in Request /\ got[c] \in Got /\ users[c] = None /\ resets[c] = None
           /\ \A x \in User \cup RefreshToken \cup PasswordResetToken : x # None
           /\ req[c].op \notin Creators => got[c].user \in Exists(users) /\ got[c].user # c
           /\ got[c].user \in Exists(users) \/ got[c].user = c
           /\ \A u \in Exists(users) : u \in Id /\ u # c /\ users[u] \in User
<1>1. Open(c) /\ req[c] \in Request /\ got[c] \in Got /\ users[c] = None /\ resets[c] = None
    BY CommitCounts
<1>2. users \in [Id -> User \cup {None}]
    BY DEF IInv, Typed, TypeOK
<1>3. \A x \in User \cup RefreshToken \cup PasswordResetToken : x # None
    BY NoneAssumption
<1>4. \A u \in Exists(users) : u \in Id /\ u # c /\ users[u] \in User
    BY <1>1, <1>2 DEF Exists
<1> QED BY <1>1, <1>2, <1>3, <1>4 DEF Open, OpenUser

LEMMA LoginShape == ASSUME IInv, NEW c \in Call, LoginWrite(c) PROVE Commits(c, Operations) /\ Shape(c)
<1>1. Commits(c, Operations) /\ req[c].op = "login"
    BY DEF LoginWrite, Commits, Operations, Minters
<1>2. /\ users' = [users EXCEPT ![got[c].user] = Rehash(@, c)]
      /\ tokens' = Mint(tokens, c, got[c].user) /\ resets' = resets
    BY DEF LoginWrite
<1> DEFINE u == got[c].user
           row == Rehash(users[u], c)
<1>3. u \in Exists(users) /\ users[u] \in User /\ users[c] = None /\ resets[c] = None
    BY <1>1, WriterKnows DEF Creators, SignUps
<1>4. req[c].password \in Password \cup {Random}
    BY <1>1, WriterKnows DEF Request
<1>5. /\ row \in User /\ row.tenant = users[u].tenant /\ row.deleted = users[u].deleted
      /\ row.active = users[u].active
      /\ IF got[c].stale THEN ~row.stale ELSE row = users[u]
    BY <1>3, <1>4 DEF Rehash, User
<1>6. users' = [users EXCEPT ![u] = row]
    BY <1>2
<1>7. u = got[c].user
    OBVIOUS
<1> HIDE DEF u, row
<1>8. RowShape(c) /\ \A i \in Exists(users) : users'[i] = IF i = u THEN row ELSE users[i]
    <2>1. PICK w \in User : w = row
        BY <1>5
    <2>2. users' = [users EXCEPT ![got[c].user] = w]
        BY <1>6, <1>7, <2>1
    <2>3. w.tenant = users[got[c].user].tenant /\ (users[got[c].user].deleted => w.deleted)
        BY <1>5, <1>7, <2>1
    <2>4. got[c].user \in Exists(users) /\ users[c] = None
        BY <1>3, <1>7
    <2>5. RowShape(c) /\ \A i \in Exists(users) : users'[i] = IF i = got[c].user THEN w ELSE users[i]
        BY <2>2, <2>3, <2>4, OneUser
    <2> QED BY <1>7, <2>1, <2>5
<1>9. PasswordShape(c)
    BY <1>1, <1>5, <1>7, <1>8 DEF PasswordShape
<1>10. ActiveShape(c)
    BY <1>1, <1>5, <1>7, <1>8 DEF ActiveShape, Barring
<1>11. TokenShape(c) /\ ResetShape(c)
    BY <1>1, <1>2, <1>3, NoResets DEF TokenShape, Mints, Minters
<1> QED BY <1>1, <1>8, <1>9, <1>10, <1>11 DEF Shape

LEMMA RefreshShape == ASSUME IInv, NEW c \in Call, RefreshWrite(c) PROVE Commits(c, Operations) /\ Shape(c)
<1>1. Commits(c, Operations) /\ req[c].op = "refresh"
    BY DEF RefreshWrite, Commits, Operations, Minters
<1>2. /\ tokens' = [tokens EXCEPT ![req[c].token].revoked = TRUE,
                        ![c] = Token(got[c].user, tokens[req[c].token].session, req[c].token)]
      /\ users' = users /\ resets' = resets
    BY DEF RefreshWrite
<1>3. got[c].user # c /\ users[c] = None /\ resets[c] = None
    BY <1>1, WriterKnows DEF Creators, SignUps
<1>4. RowShape(c) /\ PasswordShape(c) /\ ActiveShape(c)
    BY <1>1, <1>2, <1>3, SameUsers DEF SignUps
<1>5. TokenShape(c) /\ ResetShape(c)
    BY <1>1, <1>2, <1>3, NoResets DEF TokenShape, Rotates
<1> QED BY <1>1, <1>4, <1>5 DEF Shape

LEMMA LogoutShape == ASSUME IInv, NEW c \in Call, LogoutWrite(c) PROVE Commits(c, Operations) /\ Shape(c)
<1>1. Commits(c, Operations) /\ req[c].op = "logout" /\ req[c].op \notin Minters
    BY DEF LogoutWrite, Commits, Operations, Minters, SignUps
<1>2. tokens' = Revoked(c) /\ users' = users /\ resets' = resets
    BY DEF LogoutWrite
<1>3. got[c].user # c /\ users[c] = None /\ resets[c] = None
    BY <1>1, WriterKnows DEF Creators, SignUps
<1>4. RowShape(c) /\ PasswordShape(c) /\ ActiveShape(c)
    BY <1>1, <1>2, <1>3, SameUsers DEF SignUps
<1>5. TokenShape(c)
    BY <1>1, <1>2, FoundRevoked DEF Revokers
<1>6. ResetShape(c)
    BY <1>1, <1>2, <1>3, NoResets
<1> QED BY <1>1, <1>4, <1>5, <1>6 DEF Shape

\* A password is set on the user that was loaded, and what was found revoked.
LEMMA SetsPassword ==
    ASSUME IInv, NEW c \in Call, Commits(c, Operations), req[c].op \in {"change", "confirm"},
           users' = SetPassword(got[c].user, req[c].password), tokens' = Revoked(c)
    PROVE  RowShape(c) /\ PasswordShape(c) /\ ActiveShape(c) /\ TokenShape(c)
<1> DEFINE u == got[c].user
           row == [users[u] EXCEPT !.password = req[c].password, !.stale = FALSE]
<1>1. u \in Exists(users) /\ users[u] \in User /\ users[c] = None
    BY WriterKnows DEF Creators, SignUps
<1>2. req[c].password \in Password \cup {Random}
    BY WriterKnows DEF Request
<1>3. /\ row \in User /\ row.tenant = users[u].tenant /\ row.deleted = users[u].deleted
      /\ row.active = users[u].active /\ row.password = req[c].password /\ ~row.stale
    BY <1>1, <1>2 DEF User
<1>4. users' = [users EXCEPT ![u] = row]
    <2>1. users \in [Id -> User \cup {None}] /\ u \in Id
        BY <1>1 DEF IInv, Typed, TypeOK, Exists
    <2> QED BY <1>1, <2>1 DEF SetPassword
<1>5. u = got[c].user
    OBVIOUS
<1> HIDE DEF u, row
<1>6. RowShape(c) /\ \A i \in Exists(users) : users'[i] = IF i = u THEN row ELSE users[i]
    <2>1. PICK w \in User : w = row
        BY <1>3
    <2>2. users' = [users EXCEPT ![got[c].user] = w]
        BY <1>4, <1>5, <2>1
    <2>3. w.tenant = users[got[c].user].tenant /\ (users[got[c].user].deleted => w.deleted)
        BY <1>3, <1>5, <2>1
    <2>4. got[c].user \in Exists(users) /\ users[c] = None
        BY <1>1, <1>5
    <2>5. RowShape(c) /\ \A i \in Exists(users) : users'[i] = IF i = got[c].user THEN w ELSE users[i]
        BY <2>2, <2>3, <2>4, OneUser
    <2> QED BY <1>1, <1>5, <2>1, <2>5
<1>7. PasswordShape(c)
    BY <1>3, <1>5, <1>6 DEF PasswordShape, SignUps
<1>8. ActiveShape(c)
    BY <1>3, <1>5, <1>6 DEF ActiveShape, Barring
<1>9. TokenShape(c)
    BY FoundRevoked DEF Revokers
<1> QED BY <1>6, <1>7, <1>8, <1>9

LEMMA ChangeShape == ASSUME IInv, NEW c \in Call, ChangeWrite(c) PROVE Commits(c, Operations) /\ Shape(c)
<1>1. Commits(c, Operations) /\ req[c].op = "change"
    BY DEF ChangeWrite, Commits, Operations, Minters
<1>2. RowShape(c) /\ PasswordShape(c) /\ ActiveShape(c) /\ TokenShape(c)
    BY <1>1, SetsPassword DEF ChangeWrite
<1>3. ResetShape(c)
    BY <1>1, WriterKnows, NoResets DEF ChangeWrite
<1> QED BY <1>1, <1>2, <1>3 DEF Shape

LEMMA ConfirmShape == ASSUME IInv, NEW c \in Call, ConfirmWrite(c) PROVE Commits(c, Operations) /\ Shape(c)
<1>1. Commits(c, Operations) /\ req[c].op = "confirm"
    BY DEF ConfirmWrite, Commits, Operations, Minters
<1>2. RowShape(c) /\ PasswordShape(c) /\ ActiveShape(c) /\ TokenShape(c)
    BY <1>1, SetsPassword DEF ConfirmWrite
<1>3. ResetShape(c)
    <2> DEFINE r == req[c].reset
               row == [resets[r] EXCEPT !.used = TRUE]
    <2>1. /\ resets \in [Id -> PasswordResetToken \cup {None}] /\ r \in Exists(resets)
          /\ resets[c] = None
        BY <1>1, WriterKnows DEF IInv, Typed, TypeOK, OpenRows
    <2>2. r \in Id /\ r # c /\ resets[r] \in PasswordResetToken
        BY <2>1 DEF Exists
    <2>3. row \in PasswordResetToken /\ row.user = resets[r].user /\ row.used
        BY <2>2 DEF PasswordResetToken
    <2>4. resets' = [resets EXCEPT ![r] = row]
        BY <2>1, <2>2 DEF ConfirmWrite
    <2>5. r = req[c].reset /\ c \in Id
        BY DEF Id
    <2> HIDE DEF r, row
    <2>6. row # None
        BY <2>3, NoneAssumption
    <2>7. \A i \in Id : resets'[i] = IF i = r THEN row ELSE resets[i]
        BY <2>1, <2>4
    <2>8. resets' \in [Id -> PasswordResetToken \cup {None}]
        BY <2>1, <2>3, <2>4
    <2> QED BY <2>1, <2>2, <2>3, <2>5, <2>6, <2>7, <2>8 DEF ResetShape, Exists
<1> QED BY <1>1, <1>2, <1>3 DEF Shape

LEMMA ForgotShape == ASSUME IInv, NEW c \in Call, ForgotWrite(c) PROVE Commits(c, Operations) /\ Shape(c)
<1>1. Commits(c, Operations) /\ req[c].op = "forgot"
    BY DEF ForgotWrite, Commits, Operations, Minters
<1>2. /\ got[c].user # c /\ users[c] = None /\ resets[c] = None /\ got[c].user \in Id
      /\ users' = users /\ tokens' = tokens
    BY <1>1, WriterKnows DEF ForgotWrite, Creators, SignUps
<1>3. RowShape(c) /\ PasswordShape(c) /\ ActiveShape(c) /\ TokenShape(c)
    BY <1>1, <1>2, SameUsers, NoTokens DEF SignUps, Minters, Revokers
<1>4. ResetShape(c)
    <2> DEFINE row == [user |-> got[c].user, used |-> FALSE]
    <2>1. row \in PasswordResetToken /\ row.user = got[c].user
        BY <1>2 DEF PasswordResetToken
    <2>2. resets' = [resets EXCEPT ![c] = row] /\ resets \in [Id -> PasswordResetToken \cup {None}]
        BY DEF ForgotWrite, IInv, Typed, TypeOK
    <2> HIDE DEF row
    <2> QED BY <1>1, <1>2, <2>1, <2>2 DEF ResetShape, Exists, Id
<1> QED BY <1>1, <1>3, <1>4 DEF Shape

LEMMA RegisterShape == ASSUME IInv, NEW c \in Call, RegisterWrite(c) PROVE Commits(c, Operations) /\ Shape(c)
<1>1. Commits(c, Operations) /\ req[c].op \in SignUps
    BY DEF RegisterWrite, Commits, Operations, Minters, SignUps
<1>2. /\ got[c].slug \notin Tenants /\ users' = [NewUser(c) EXCEPT ![got[c].user] = Rehash(@, c)]
      /\ tokens' = Mint(tokens, c, got[c].user) /\ resets' = resets
    <2>1. CASE got[c].user = c
        BY <2>1 DEF RegisterWrite
    <2> QED BY DEF RegisterWrite
<1> DEFINE u == got[c].user
<1>3. /\ users \in [Id -> User \cup {None}] /\ got[c].slug \in Slug /\ req[c] \in Request
      /\ users[c] = None /\ resets[c] = None
      /\ \/ u \in Exists(users) /\ u # c /\ u \in Id /\ users[u] \in User
         \/ u = c /\ ~got[c].stale
      /\ req[c].op \in Creators /\ req[c].password \in Password \cup {Random}
    <2>1. req[c].password \in Password \cup {Random}
        BY <1>1, WriterKnows DEF Request, SignUps
    <2> QED BY <1>1, <2>1, WriterKnows DEF OpenUser, Creators
<1>4. /\ NewUser(c) \in [Id -> User \cup {None}] /\ NewUser(c)[c] \in User
      /\ NewUser(c)[c].tenant = got[c].slug /\ ~NewUser(c)[c].stale
      /\ \A i \in Id \ {c} : NewUser(c)[i] = users[i]
    BY <1>3, NewRow
<1> DEFINE row == Rehash(NewUser(c)[u], c)
<1>5. /\ row \in User
      /\ u = c => row = NewUser(c)[c]
      /\ u # c => IF got[c].stale
                  THEN row = [users[u] EXCEPT !.password = req[c].password, !.stale = FALSE] /\ ~row.stale
                  ELSE row = users[u]
    <2>1. CASE u = c
        BY <1>3, <1>4, <2>1 DEF Rehash
    <2>2. CASE u # c /\ got[c].stale
        BY <1>3, <1>4, <2>2 DEF Rehash, User
    <2>3. CASE u # c /\ ~got[c].stale
        BY <1>3, <1>4, <2>3 DEF Rehash
    <2> QED BY <2>1, <2>2, <2>3
<1>6. users' = [NewUser(c) EXCEPT ![u] = row]
    BY <1>2
<1>7. u = got[c].user /\ u \in Id /\ c \in Id
    BY <1>3 DEF Id
<1> HIDE DEF u, row
<1>8. users' \in [Id -> User \cup {None}] /\ \A i \in Id : users'[i] = IF i = u THEN row ELSE NewUser(c)[i]
    BY <1>4, <1>5, <1>6, <1>7
<1>9. users'[c] \in User /\ users'[c].tenant = got[c].slug
    BY <1>4, <1>5, <1>7, <1>8
<1>10. \A i \in Id : Alive(i) => users[i].tenant # users'[c].tenant
    BY <1>2, <1>9 DEF Alive, Tenants
<1>11. \A i \in Id \ {c} :
         \/ users'[i] = users[i]
         \/ /\ i = got[c].user /\ i \in Exists(users) /\ got[c].stale
            /\ users'[i] = [users[i] EXCEPT !.password = req[c].password, !.stale = FALSE]
    BY <1>3, <1>4, <1>5, <1>7, <1>8
<1>12. ~got[c].stale \/ (got[c].user \in Exists(users) /\ ~users'[got[c].user].stale)
    BY <1>3, <1>5, <1>7, <1>8
<1>13. req[c].op \notin {"change", "confirm", "delete", "set_active", "refresh"}
    BY <1>1 DEF SignUps
<1>14. RowShape(c) /\ PasswordShape(c) /\ ActiveShape(c)
    BY <1>1, <1>3, <1>8, <1>9, <1>10, <1>11, <1>12, <1>13, NewUsers
<1>15. TokenShape(c) /\ ResetShape(c)
    BY <1>1, <1>2, <1>3, <1>13, NoResets DEF TokenShape, Mints, Minters
<1> QED BY <1>1, <1>14, <1>15 DEF Shape

\* A user is added, whose tenant has none that is not deleted.
LEMMA AddsUser ==
    ASSUME IInv, NEW c \in Call, Commits(c, Operations), req[c].op \in {"google", "invite"},
           users' = NewUser(c), got[c].slug \in Slug, \A i \in Id : Alive(i) => users[i].tenant # got[c].slug
    PROVE  RowShape(c) /\ PasswordShape(c) /\ ActiveShape(c)
<1>1. users \in [Id -> User \cup {None}] /\ req[c] \in Request /\ users[c] = None
    BY WriterKnows
<1>2. req[c].op \in Creators /\ req[c].op \notin {"change", "confirm", "delete", "set_active"}
      /\ req[c].op \notin SignUps \cup {"login"}
    BY DEF Creators, SignUps
<1>3. /\ users' \in [Id -> User \cup {None}] /\ users'[c] \in User
      /\ users'[c].tenant = got[c].slug
      /\ \A i \in Id \ {c} : users'[i] = users[i]
    BY <1>1, <1>2, NewRow
<1> QED BY <1>1, <1>2, <1>3, NewUsers

LEMMA GoogleShape == ASSUME IInv, NEW c \in Call, GoogleWrite(c) PROVE Commits(c, Operations) /\ Shape(c)
<1>1. Commits(c, Operations) /\ req[c].op = "google"
    BY DEF GoogleWrite, Commits, Operations, Minters
<1>2. /\ tokens' = Mint(tokens, c, got[c].user) /\ resets' = resets
      /\ IF got[c].user = c THEN got[c].slug \notin Tenants /\ users' = NewUser(c) ELSE users' = users
    BY DEF GoogleWrite
<1>3. /\ users[c] = None /\ resets[c] = None
      /\ got[c].user = c => got[c].slug \in Slug
    BY <1>1, WriterKnows DEF OpenUser
<1>4. RowShape(c) /\ PasswordShape(c) /\ ActiveShape(c)
    <2>1. CASE got[c].user = c
        <3>1. \A i \in Id : Alive(i) => users[i].tenant # got[c].slug
            BY <1>2, <2>1 DEF Alive, Tenants
        <3> QED BY <1>1, <1>2, <1>3, <2>1, <3>1, AddsUser
    <2>2. CASE got[c].user # c
        BY <1>1, <1>2, <1>3, <2>2, SameUsers DEF SignUps
    <2> QED BY <2>1, <2>2
<1>5. TokenShape(c) /\ ResetShape(c)
    BY <1>1, <1>2, <1>3, NoResets DEF TokenShape, Mints, Minters
<1> QED BY <1>1, <1>4, <1>5 DEF Shape

LEMMA InviteShape == ASSUME IInv, NEW c \in Call, InviteWrite(c) PROVE Commits(c, Operations) /\ Shape(c)
<1>1. Commits(c, Operations) /\ req[c].op = "invite"
    BY DEF InviteWrite, Commits, Operations
<1>2. /\ tokens' = tokens /\ resets' = resets /\ users' = NewUser(c)
      /\ Matching(got[c].slug) = {}
    BY DEF InviteWrite
<1>3. /\ users[c] = None /\ resets[c] = None /\ got[c].slug \in Slug
    <2>1. got[c].user = c
        BY <1>1, WriterKnows DEF OpenUser
    <2> QED BY <1>1, <2>1, WriterKnows DEF OpenUser
<1>4. \A i \in Id : Alive(i) => users[i].tenant # got[c].slug
    BY <1>2 DEF Matching
<1>5. RowShape(c) /\ PasswordShape(c) /\ ActiveShape(c)
    BY <1>1, <1>2, <1>3, <1>4, AddsUser
<1>6. TokenShape(c) /\ ResetShape(c)
    BY <1>1, <1>2, <1>3, NoResets, NoTokens DEF Minters, SignUps, Revokers
<1> QED BY <1>1, <1>5, <1>6 DEF Shape

\* Of the user that was loaded, only active or deleted changes.
LEMMA SetsActive ==
    ASSUME IInv, NEW c \in Call, Commits(c, Operations), req[c].op \in {"set_active", "delete"},
           NEW row \in User, users' = [users EXCEPT ![got[c].user] = row],
           row.tenant = users[got[c].user].tenant, row.password = users[got[c].user].password,
           row.stale = users[got[c].user].stale, users[got[c].user].deleted => row.deleted,
           row.active => \/ users[got[c].user].active /\ (Barring(c) => ~got[c].active)
                         \/ req[c].op = "set_active" /\ req[c].active,
           tokens' = tokens, resets' = resets
    PROVE  Shape(c)
<1>1. got[c].user \in Exists(users) /\ users[c] = None /\ resets[c] = None
    BY WriterKnows DEF Creators, SignUps
<1>2. RowShape(c) /\ \A i \in Exists(users) : users'[i] = IF i = got[c].user THEN row ELSE users[i]
    BY <1>1, OneUser
<1>3. PasswordShape(c)
    BY <1>2 DEF PasswordShape, SignUps
<1>4. ActiveShape(c)
    BY <1>2 DEF ActiveShape
<1>5. TokenShape(c) /\ ResetShape(c)
    BY <1>1, NoTokens, NoResets DEF Minters, SignUps, Revokers
<1> QED BY <1>2, <1>3, <1>4, <1>5 DEF Shape

LEMMA SetActiveShape == ASSUME IInv, NEW c \in Call, SetActiveWrite(c) PROVE Commits(c, Operations) /\ Shape(c)
<1>1. Commits(c, Operations) /\ req[c].op = "set_active"
    BY DEF SetActiveWrite, Commits, Operations
<1>2. /\ users[got[c].user] \in User /\ users \in [Id -> User \cup {None}] /\ got[c].user \in Id
      /\ req[c].active \in BOOLEAN /\ got[c].active \in BOOLEAN
    <2>1. req[c].active \in BOOLEAN
        BY <1>1, WriterKnows DEF Request
    <2>2. got[c].active \in BOOLEAN
        BY <1>1, WriterKnows DEF Got
    <2> QED BY <1>1, <2>1, <2>2, WriterKnows DEF Creators, SignUps
<1>3. /\ users' = IF req[c].active = got[c].active THEN users
                  ELSE [users EXCEPT ![got[c].user].active = req[c].active]
      /\ tokens' = tokens /\ resets' = resets
    BY DEF SetActiveWrite
<1>4. CASE req[c].active = got[c].active
    <2>1. PICK row \in User : row = users[got[c].user]
        BY <1>2
    <2>2. users' = [users EXCEPT ![got[c].user] = row]
        BY <1>2, <1>3, <1>4, <2>1
    <2>3. row.active => users[got[c].user].active /\ (Barring(c) => ~got[c].active)
        BY <1>1, <1>4, <2>1 DEF Barring
    <2>4. Shape(c)
        BY <1>1, <1>3, <2>1, <2>2, <2>3, SetsActive
    <2> QED BY <1>1, <2>4
<1>5. CASE req[c].active # got[c].active
    <2>1. [users[got[c].user] EXCEPT !.active = req[c].active] \in User
        BY <1>2 DEF User
    <2>2. PICK row \in User : row = [users[got[c].user] EXCEPT !.active = req[c].active]
        BY <2>1
    <2>3. users' = [users EXCEPT ![got[c].user] = row]
        BY <1>2, <1>3, <1>5, <2>2
    <2>4. /\ row.tenant = users[got[c].user].tenant /\ row.password = users[got[c].user].password
          /\ row.stale = users[got[c].user].stale /\ row.deleted = users[got[c].user].deleted
          /\ row.active = req[c].active
        BY <1>2, <2>2 DEF User
    <2>5. Shape(c)
        BY <1>1, <1>3, <2>3, <2>4, SetsActive
    <2> QED BY <1>1, <2>5
<1> QED BY <1>4, <1>5

LEMMA DeleteShape == ASSUME IInv, NEW c \in Call, DeleteWrite(c) PROVE Commits(c, Operations) /\ Shape(c)
<1>1. Commits(c, Operations) /\ req[c].op = "delete"
    BY DEF DeleteWrite, Commits, Operations
<1>2. users[got[c].user] \in User /\ users \in [Id -> User \cup {None}] /\ got[c].user \in Id
    BY <1>1, WriterKnows DEF Creators, SignUps
<1>3. /\ users' = [users EXCEPT ![got[c].user].deleted = TRUE,
                                ![got[c].user].active = @ /\ ~got[c].active]
      /\ tokens' = tokens /\ resets' = resets
    BY DEF DeleteWrite
<1> DEFINE a == users[got[c].user].active /\ ~got[c].active
           new == [users[got[c].user] EXCEPT !.deleted = TRUE, !.active = a]
<1>4. a \in BOOLEAN
    OBVIOUS
<1>5. users' = [users EXCEPT ![got[c].user] = new]
    BY <1>2, <1>3 DEF User
<1>6. a => users[got[c].user].active /\ ~got[c].active
    OBVIOUS
<1> HIDE DEF a
<1>7. /\ new \in User /\ new.tenant = users[got[c].user].tenant
      /\ new.password = users[got[c].user].password /\ new.stale = users[got[c].user].stale
      /\ new.deleted /\ new.active = a
    BY <1>2, <1>4 DEF User
<1> HIDE DEF new
<1>8. PICK row \in User : row = new
    BY <1>7
<1>9. Shape(c)
    <2>1. /\ users' = [users EXCEPT ![got[c].user] = row] /\ row.tenant = users[got[c].user].tenant
          /\ row.password = users[got[c].user].password /\ row.stale = users[got[c].user].stale
          /\ row.deleted
          /\ row.active => users[got[c].user].active /\ ~got[c].active
        BY <1>5, <1>6, <1>7, <1>8
    <2> QED BY <1>1, <1>3, <2>1, SetsActive
<1> QED BY <1>1, <1>9

LEMMA WritesHaveShape ==
    ASSUME IInv, NEW c \in Call, Writes(c) PROVE Commits(c, Operations) /\ Shape(c)
BY LoginShape, RefreshShape, LogoutShape, ChangeShape, ForgotShape, ConfirmShape, RegisterShape,
   GoogleShape, InviteShape, SetActiveShape, DeleteShape DEF Writes

-----------------------------------------------------------------------------
(* What a commit leaves, whatever it writes.                               *)

LEMMA UserFacts ==
    ASSUME IInv, NEW c \in Call, Commits(c, Operations), Shape(c)
    PROVE  /\ Exists(users) \subseteq Exists(users)' /\ Exists(users)' \subseteq Exists(users) \cup {c}
           /\ got[c].user \in Exists(users)' /\ c \notin Exists(users) /\ c \in Id
           /\ \A u \in Exists(users) : u \in Id
<1>1. got[c].user \in Exists(users) \/ got[c].user = c
    BY WriterKnows
<1>2. users[c] = None
    BY WriterKnows
<1> QED BY <1>1, <1>2 DEF Shape, RowShape, Exists, Id

LEMMA TokenFacts ==
    ASSUME IInv, NEW c \in Call, Commits(c, Operations), Shape(c)
    PROVE  /\ tokens' \in [Id -> RefreshToken \cup {None}]
           /\ \A t \in Exists(tokens) :
                /\ t \in Exists(tokens)' /\ t \in Id /\ tokens'[t].user = tokens[t].user
                /\ tokens'[t].session = tokens[t].session /\ tokens'[t].parent = tokens[t].parent
                /\ tokens[t].revoked => tokens'[t].revoked
           /\ c \notin Exists(tokens) /\ Exists(tokens)' \subseteq Exists(tokens) \cup {c}
           /\ c \in Exists(tokens)' <=> req[c].op \in Minters
           /\ c \in Exists(tokens)' => /\ tokens'[c].user = got[c].user /\ ~tokens'[c].revoked
                                       /\ req[c].op # "refresh" => /\ tokens'[c].session = c
                                                                   /\ tokens'[c].parent = None
           /\ req[c].op = "refresh" =>
                /\ req[c].token \in Exists(tokens) /\ tokens[req[c].token].user = got[c].user
                /\ tokens'[c].session = tokens[req[c].token].session /\ tokens'[c].parent = req[c].token
                /\ tokens'[req[c].token].revoked
           /\ req[c].op \in Revokers => \A t \in found[c] : tokens'[t].revoked
           /\ found[c] \subseteq Exists(tokens)
<1>1. tokens \in [Id -> RefreshToken \cup {None}] /\ c \in Id /\ tokens[c] = None
    BY CommitCounts DEF IInv, Typed, TypeOK, Id
<1>2. \A x \in RefreshToken : x # None
    BY WriterKnows
<1>3. \A t \in Exists(tokens) : t \in Id /\ t # c /\ tokens[t] \in RefreshToken
    BY <1>1 DEF Exists
<1>4. /\ got[c].user \in Id /\ got[c] \in Got /\ found[c] \subseteq Exists(tokens)
      /\ req[c].op \in Revokers => req[c].op \notin Minters
    BY WriterKnows DEF Got, IInv, Typed, Revokers, Minters, SignUps
<1>5. CASE RevokesSome(c)
    <2>1. Exists(tokens)' = Exists(tokens)
        BY <1>1, <1>5 DEF RevokesSome, Exists
    <2>2. c \notin Exists(tokens)' /\ req[c].op \notin Minters /\ req[c].op # "refresh"
        BY <1>3, <1>5, <2>1 DEF RevokesSome, Minters
    <2> QED BY <1>3, <1>4, <1>5, <2>1, <2>2 DEF RevokesSome
<1>6. CASE Mints(c)
    <2> DEFINE row == Token(got[c].user, c, None)
    <2>1. row \in RefreshToken /\ row.user = got[c].user /\ row.session = c /\ row.parent = None /\ ~row.revoked
        BY <1>1, <1>4 DEF Token, RefreshToken
    <2>2. tokens' = [tokens EXCEPT ![c] = row] /\ req[c].op \in Minters /\ req[c].op # "refresh"
        BY <1>6 DEF Mints, Mint
    <2> HIDE DEF row
    <2>3. \A t \in Id : tokens'[t] = IF t = c THEN row ELSE tokens[t]
        BY <1>1, <2>2
    <2>4. tokens' \in [Id -> RefreshToken \cup {None}] /\ c \in Exists(tokens)'
        BY <1>1, <1>2, <2>1, <2>2, <2>3 DEF Exists
    <2>5. /\ Exists(tokens)' = Exists(tokens) \cup {c} /\ tokens'[c] = row
          /\ \A t \in Exists(tokens) : tokens'[t] = tokens[t]
        BY <1>1, <1>3, <2>3, <2>4 DEF Exists
    <2>6. req[c].op \notin Revokers
        BY <1>4, <2>2
    <2> QED BY <1>3, <1>4, <2>1, <2>2, <2>4, <2>5, <2>6
<1>7. CASE Rotates(c)
    <2> DEFINE t0 == req[c].token
               old == [tokens[t0] EXCEPT !.revoked = TRUE]
               row == Token(got[c].user, tokens[t0].session, t0)
    <2>1. req[c].op = "refresh" /\ t0 \in Exists(tokens) /\ tokens[t0].user = got[c].user
        BY <1>7, WriterKnows DEF Rotates, OpenRows
    <2>2. tokens[t0] \in RefreshToken /\ t0 # c /\ t0 \in Id
        BY <1>3, <2>1
    <2>3. /\ row \in RefreshToken /\ row.user = got[c].user /\ row.session = tokens[t0].session
          /\ row.parent = t0 /\ ~row.revoked
        BY <1>4, <2>2 DEF Token, RefreshToken
    <2>4. /\ old \in RefreshToken /\ old.user = tokens[t0].user /\ old.session = tokens[t0].session
          /\ old.parent = tokens[t0].parent /\ old.revoked
        BY <2>2 DEF RefreshToken
    <2>5. tokens' = [tokens EXCEPT ![t0] = old, ![c] = row]
        BY <1>1, <1>7, <2>2 DEF Rotates
    <2>6. t0 = req[c].token
        OBVIOUS
    <2> HIDE DEF row, old, t0
    <2>7. \A t \in Id : tokens'[t] = IF t = c THEN row ELSE IF t = t0 THEN old ELSE tokens[t]
        BY <1>1, <2>2, <2>5
    <2>8. tokens' \in [Id -> RefreshToken \cup {None}]
        BY <1>1, <2>3, <2>4, <2>5
    <2>9. /\ Exists(tokens)' = Exists(tokens) \cup {c} /\ tokens'[c] = row /\ tokens'[t0] = old
          /\ \A t \in Exists(tokens) : tokens'[t] = IF t = t0 THEN old ELSE tokens[t]
        BY <1>1, <1>2, <1>3, <2>1, <2>2, <2>3, <2>4, <2>7 DEF Exists
    <2> QED BY <1>3, <1>4, <2>1, <2>2, <2>3, <2>4, <2>6, <2>8, <2>9 DEF Minters
<1> QED BY <1>5, <1>6, <1>7 DEF Shape, TokenShape

LEMMA ResetFacts ==
    ASSUME IInv, NEW c \in Call, Commits(c, Operations), Shape(c)
    PROVE  /\ Exists(resets) \subseteq Exists(resets)' /\ Exists(resets)' \subseteq Exists(resets) \cup {c}
           /\ c \notin Exists(resets)
BY WriterKnows DEF Shape, ResetShape, Exists

LEMMA TypedAfter ==
    ASSUME IInv, NEW c \in Call, Commits(c, Operations), Shape(c) PROVE Typed'
<1> USE DEF IInv
<1>1. /\ users' \in [Id -> User \cup {None}] /\ tokens' \in [Id -> RefreshToken \cup {None}]
      /\ resets' \in [Id -> PasswordResetToken \cup {None}]
    BY TokenFacts DEF Shape, RowShape, ResetShape
<1>2. \A t \in Exists(tokens)' : tokens'[t].user \in Exists(users)'
    <2> SUFFICES ASSUME NEW t \in Exists(tokens)' PROVE tokens'[t].user \in Exists(users)'
        OBVIOUS
    <2>1. CASE t = c
        BY <2>1, TokenFacts, UserFacts
    <2>2. CASE t # c
        <3>1. t \in Exists(tokens) /\ tokens'[t].user = tokens[t].user
            BY <2>2, TokenFacts
        <3>2. tokens[t].user \in Exists(users)
            BY <3>1 DEF Typed, TypeOK
        <3> QED BY <3>1, <3>2, UserFacts
    <2> QED BY <2>1, <2>2
<1>3. \A r \in Exists(resets)' : resets'[r].user \in Exists(users)'
    <2> SUFFICES ASSUME NEW r \in Exists(resets)' PROVE resets'[r].user \in Exists(users)'
        OBVIOUS
    <2>1. CASE r = c
        <3>1. resets'[c] # None
            BY <2>1 DEF Exists
        <3> QED BY <2>1, <3>1, UserFacts DEF Shape, ResetShape
    <2>2. CASE r # c
        <3>1. r \in Exists(resets) /\ resets'[r].user = resets[r].user
            BY <2>2, ResetFacts DEF Shape, ResetShape
        <3>2. resets[r].user \in Exists(users)
            BY <3>1 DEF Typed, TypeOK
        <3> QED BY <3>1, <3>2, UserFacts
    <2> QED BY <2>1, <2>2
<1>4. TypeOK'
    <2>1. /\ pc' \in [Call -> {"idle", "signin", "revoke", "write", "ended", "refused"}]
          /\ wroteAt' \in [Call -> 0 .. Cardinality(Call)]
          /\ req' = req /\ got' = got /\ readAt' = readAt /\ found' = found /\ foundAt' = foundAt
        BY CommitCounts
    <2> QED BY <1>1, <1>2, <1>3, <2>1 DEF Typed, TypeOK
<1>5. ASSUME NEW d \in Call
      PROVE  /\ Started(d)' => req'[d] \in Request /\ got'[d] \in Got
             /\ d \in Committed' <=> pc'[d] = "ended"
             /\ pc'[d] # "ended" => users'[d] = None /\ tokens'[d] = None /\ resets'[d] = None
             /\ found'[d] \subseteq Exists(tokens)'
    <2>0. found'[d] \subseteq Exists(tokens)'
        BY CommitCounts, TokenFacts DEF Typed
    <2>1. CASE d = c
        BY <2>0, <2>1, CommitCounts
    <2>2. CASE d # c
        <3>1. /\ pc'[d] = pc[d] /\ req' = req /\ got' = got
              /\ d \in Committed' <=> pc'[d] = "ended"
            BY <2>2, CommitCounts
        <3>2. d \in Id
            BY DEF Id
        <3>3. users[d] = None => users'[d] = None
            BY <2>2, <3>2 DEF Shape, RowShape
        <3>4. tokens[d] = None => tokens'[d] = None
            BY <2>2, <3>2, TokenFacts DEF Exists
        <3>5. resets[d] = None => resets'[d] = None
            BY <2>2, <3>2 DEF Shape, ResetShape
        <3> QED BY <2>0, <3>1, <3>3, <3>4, <3>5 DEF Typed, Started
    <2> QED BY <2>1, <2>2
<1> QED BY <1>4, <1>5 DEF Typed

LEMMA TablesAfter ==
    ASSUME IInv, NEW c \in Call, Commits(c, Operations), Shape(c) PROVE Tables'
<1> USE DEF IInv, History
<1>1. Owned'
    <2>1. Committed' = Committed \cup {c} /\ got' = got
        BY CommitCounts
    <2> QED BY <2>1, UserFacts DEF Tables, Owned
<1>2. OneAccountPerTenant'
    <2> SUFFICES ASSUME NEW u \in Id, NEW v \in Id, Alive(u)', Alive(v)', u # v
                 PROVE  users'[u].tenant # users'[v].tenant
        BY DEF OneAccountPerTenant
    <2>1. \A i \in Id \ {c} : Alive(i)' => Alive(i) /\ users'[i].tenant = users[i].tenant
        BY UserFacts DEF Shape, RowShape, Alive
    <2>2. Alive(c)' => \A i \in Id : Alive(i) => users[i].tenant # users'[c].tenant
        BY DEF Shape, RowShape, Alive, Exists
    <2>3. CASE u = c
        BY <2>1, <2>2, <2>3
    <2>4. CASE v = c
        BY <2>1, <2>2, <2>4
    <2>5. CASE u # c /\ v # c
        BY <2>1, <2>5 DEF Tables, OneAccountPerTenant
    <2> QED BY <2>3, <2>4, <2>5
<1> QED BY <1>1, <1>2 DEF Tables

\* What was true of the past stays true.
LEMMA PastStays ==
    ASSUME IInv, NEW c \in Call, Commits(c, Operations), Shape(c)
    PROVE  /\ \A u : PasswordSetters(u)' = IF req[c].op \in {"change", "confirm"} /\ got[c].user = u
                                           THEN PasswordSetters(u) \cup {c} ELSE PasswordSetters(u)
           /\ \A u : PasswordSetters(u) \subseteq Committed
           /\ \A u : SessionEnders(u) \subseteq Committed
           /\ \A u : SessionEnders(u)' \subseteq SessionEnders(u) \cup {c}
           /\ \A u : c \in SessionEnders(u)' => got[c].user = u /\ EndsAll(c)
           /\ \A s, u, m, n : Crossed(s, u, m, n) => Crossed(s, u, m, n)'
           /\ \A u, n : Excused(u, n) => Excused(u, n)'
           /\ \A s \in Exists(tokens) : Forked(s) => Forked(s)'
           /\ \A t \in Exists(tokens) : Place(t)' = Place(t) /\ Place(t) \in Nat /\ Place(t) <= Count
           /\ Place(c)' = Count + 1 /\ Place(c) = wroteAt[c]
           /\ \A d \in Call : Barring(d)' <=> Barring(d)
           /\ \A d \in Committed : d \in Call \ {c} /\ wroteAt'[d] = wroteAt[d]
<1> USE DEF IInv, History
<1>1. /\ req' = req /\ got' = got /\ readAt' = readAt /\ wroteAt'[c] = Count + 1
      /\ \A d \in Call \ {c} : wroteAt'[d] = wroteAt[d]
      /\ \A op, u : Did(op, u)' = IF req[c].op \in op /\ got[c].user = u
                                  THEN Did(op, u) \cup {c} ELSE Did(op, u)
      /\ \A op, u : Did(op, u) \subseteq Committed /\ Did(op, u) \subseteq Call \ {c}
    BY CommitCounts
<1>2. \A d \in Committed : d \in Call \ {c} /\ wroteAt'[d] = wroteAt[d]
    BY <1>1, CommitCounts DEF Committed
<1>3. \A u : PasswordSetters(u)' = IF req[c].op \in {"change", "confirm"} /\ got[c].user = u
                                   THEN PasswordSetters(u) \cup {c} ELSE PasswordSetters(u)
    BY <1>1 DEF PasswordSetters
<1>4. \A u : PasswordSetters(u) \subseteq Committed /\ SessionEnders(u) \subseteq Committed
    BY <1>1 DEF PasswordSetters, SessionEnders
<1>5. \A u : SessionEnders(u)' \subseteq SessionEnders(u) \cup {c}
    <2> SUFFICES ASSUME NEW u, NEW d \in SessionEnders(u)', d # c PROVE d \in SessionEnders(u)
        OBVIOUS
    <2>1. d \in PasswordSetters(u)' => d \in PasswordSetters(u)
        BY <1>3
    <2>2. d \in Did({"logout"}, u)' => d \in Did({"logout"}, u)
        BY <1>1
    <2> QED BY <1>1, <2>1, <2>2 DEF SessionEnders
<1>6. ASSUME NEW u, c \in SessionEnders(u)'
      PROVE  got[c].user = u /\ EndsAll(c)
    <2>1. c \notin PasswordSetters(u) /\ c \notin Did({"logout"}, u)
        BY <1>1 DEF PasswordSetters
    <2>2. c \in PasswordSetters(u)' \/ (c \in Did({"logout"}, u)' /\ req[c].token = None)
        BY <1>1, <1>6 DEF SessionEnders
    <2>3. c \in PasswordSetters(u)' => req[c].op \in {"change", "confirm"} /\ got[c].user = u
        BY <1>3, <2>1
    <2>4. c \in Did({"logout"}, u)' => req[c].op = "logout" /\ got[c].user = u
        BY <1>1, <2>1
    <2> QED BY <2>2, <2>3, <2>4 DEF EndsAll
<1>7. \A d \in Committed : req[d].op = "refresh" =>
        /\ d \in Exists(tokens) /\ tokens'[d].session = tokens[d].session
        /\ tokens'[d].parent = tokens[d].parent
    BY TokenFacts DEF Chains, Rotated
<1>8. \A op, u : \A d \in Did(op, u) : d \in Committed /\ req[d].op \in op
    BY DEF Did
<1>9. ASSUME NEW s, NEW u, NEW m, NEW n, Crossed(s, u, m, n) PROVE Crossed(s, u, m, n)'
    <2>1. PICK d \in Did({"refresh"}, u) : tokens[d].session = s /\ readAt[d] < n /\ m < wroteAt[d]
        BY <1>9 DEF Crossed
    <2>2. d \in Did({"refresh"}, u)' /\ tokens'[d].session = s /\ readAt' = readAt /\ wroteAt'[d] = wroteAt[d]
        BY <1>1, <1>7, <1>8, <2>1
    <2> QED BY <2>1, <2>2 DEF Crossed
<1>10. ASSUME NEW u, NEW n, Excused(u, n) PROVE Excused(u, n)'
    <2>1. PICK a \in Did({"set_active"}, u) : req[a].active /\ n < wroteAt[a]
        BY <1>10 DEF Excused
    <2>2. a \in Did({"set_active"}, u)' /\ req' = req /\ wroteAt'[a] = wroteAt[a]
        BY <1>1, <2>1
    <2> QED BY <2>1, <2>2 DEF Excused
<1>11. ASSUME NEW s \in Exists(tokens), Forked(s) PROVE Forked(s)'
    <2>1. PICK x \in Rotations(s), y \in Rotations(s) :
            x # y /\ tokens[x].parent = tokens[y].parent /\ Overlap(x, y)
        BY <1>11 DEF Forked
    <2>2. tokens'[s].user = tokens[s].user
        BY TokenFacts
    <2>3. \A z \in Rotations(s) : /\ z \in Rotations(s)' /\ z \in Committed /\ tokens'[z].parent = tokens[z].parent
        <3> SUFFICES ASSUME NEW z \in Rotations(s)
                     PROVE  z \in Rotations(s)' /\ z \in Committed /\ tokens'[z].parent = tokens[z].parent
            OBVIOUS
        <3>1. PICK u : u = tokens[s].user
            OBVIOUS
        <3>2. z \in Did({"refresh"}, u) /\ tokens[z].session = s
            BY <3>1 DEF Rotations
        <3>3. z \in Did({"refresh"}, u)' /\ z \in Committed /\ req[z].op = "refresh"
            BY <1>1, <1>8, <3>2
        <3>4. Rotations(s)' = {d \in Did({"refresh"}, u)' : tokens'[d].session = s}
            BY <2>2, <3>1 DEF Rotations
        <3> QED BY <1>7, <3>2, <3>3, <3>4
    <2>4. Overlap(x, y)'
        BY <1>1, <1>2, <2>1, <2>3 DEF Overlap
    <2> QED BY <2>1, <2>3, <2>4 DEF Forked
<1>12. \A t \in Exists(tokens) : Place(t)' = Place(t) /\ Place(t) \in Nat /\ Place(t) <= Count
    <2> SUFFICES ASSUME NEW t \in Exists(tokens) PROVE Place(t)' = Place(t) /\ Place(t) \in Nat /\ Place(t) <= Count
        OBVIOUS
    <2>1. t = Seed \/ t \in Call \ {c}
        BY TokenFacts DEF Id
    <2>2. Count \in Nat /\ \A d \in Call : wroteAt[d] \in Nat /\ wroteAt[d] <= Count
        BY CommitCounts
    <2> QED BY <1>1, <2>1, <2>2 DEF Place
<1>13. Place(c)' = Count + 1 /\ Place(c) = wroteAt[c]
    BY <1>1, NamesAssumption DEF Place
<1>14. \A d \in Call : Barring(d)' <=> Barring(d)
    BY <1>1 DEF Barring
<1> QED BY <1>1, <1>2, <1>3, <1>4, <1>5, <1>6, <1>9, <1>10, <1>11, <1>12, <1>13, <1>14

LEMMA ChainsAfter ==
    ASSUME IInv, NEW c \in Call, Commits(c, Operations), Shape(c) PROVE Chains'
<1> USE DEF IInv, History
<1>1. /\ req' = req /\ got' = got /\ readAt' = readAt /\ wroteAt'[c] = Count + 1 /\ Count \in Nat
      /\ Committed' = Committed \cup {c} /\ c \notin Committed
      /\ \A d \in Call : readAt[d] \in Nat /\ readAt[d] <= Count
    BY CommitCounts
<1>2. \A d \in Committed : d \in Call \ {c} /\ wroteAt'[d] = wroteAt[d]
    BY PastStays
<1>3. Open(c)
    BY CommitCounts
<1>4. Minters \subseteq Operations /\ "refresh" \in Minters
    BY DEF Operations, Minters
<1>5. ASSUME NEW t \in Exists(tokens)' PROVE TokenRow(t)'
    <2>1. CASE t = c
        <3>1. req[c].op \in Minters /\ got[c].user = tokens'[c].user
            BY <1>5, <2>1, TokenFacts
        <3>2. CASE req[c].op = "refresh"
            <4> DEFINE p == req[c].token
            <4>1. /\ p \in Exists(tokens) /\ p \in Exists(tokens)' /\ tokens[p].user = got[c].user
                  /\ tokens'[p].user = tokens[p].user /\ tokens'[p].session = tokens[p].session
                  /\ tokens'[c].session = tokens[p].session /\ tokens'[c].parent = p /\ tokens'[p].revoked
                BY <3>2, TokenFacts
            <4>2. tokens[p].session \in Exists(tokens) /\ tokens[tokens[p].session].user = tokens[p].user
                BY <4>1 DEF Chains, TokenRows, TokenRow
            <4>3. /\ tokens[p].session \in Exists(tokens)'
                  /\ tokens'[tokens[p].session].user = tokens[tokens[p].session].user
                BY <4>2, TokenFacts
            <4>4. c # Seed /\ p # None
                BY <4>1, NamesAssumption DEF Exists, Id
            <4> HIDE DEF p
            <4>5. p = req[c].token
                BY DEF p
            <4> QED BY <1>1, <2>1, <3>1, <3>2, <4>1, <4>2, <4>3, <4>4, <4>5 DEF TokenRow
        <3>3. CASE req[c].op # "refresh"
            <4>1. tokens'[c].session = c /\ tokens'[c].parent = None
                BY <1>5, <2>1, <3>3, TokenFacts
            <4> QED BY <1>1, <1>5, <2>1, <3>1, <4>1 DEF TokenRow
        <3> QED BY <3>2, <3>3
    <2>2. CASE t # c
        <3>1. t \in Exists(tokens) /\ TokenRow(t)
            BY <1>5, <2>2, TokenFacts DEF Chains, TokenRows
        <3>2. \A x \in Exists(tokens) :
                /\ x \in Exists(tokens)' /\ tokens'[x].user = tokens[x].user
                /\ tokens'[x].session = tokens[x].session /\ tokens'[x].parent = tokens[x].parent
                /\ tokens[x].revoked => tokens'[x].revoked
            BY TokenFacts
        <3> QED BY <1>1, <3>1, <3>2 DEF TokenRow
    <2> QED BY <2>1, <2>2
<1>6. Rotated'
    <2> SUFFICES ASSUME NEW d \in Committed', req[d].op = "refresh"
                 PROVE  d \in Exists(tokens)' /\ tokens'[d].parent = req[d].token
        BY <1>1 DEF Rotated
    <2>1. CASE d = c
        BY <1>4, <2>1, TokenFacts
    <2>2. CASE d # c
        <3>1. d \in Exists(tokens) /\ tokens[d].parent = req[d].token
            BY <1>1, <2>2 DEF Chains, Rotated
        <3> QED BY <3>1, TokenFacts
    <2> QED BY <2>1, <2>2
<1>7. SiblingsOverlap'
    <2> SUFFICES ASSUME NEW x \in Committed', NEW y \in Committed', x # y, Siblings(x, y)
                 PROVE  readAt[x] < wroteAt'[y]
        BY <1>1 DEF SiblingsOverlap, Siblings
    <2>1. CASE y = c
        <3>1. x \in Call
            BY <1>1, <1>2
        <3> QED BY <1>1, <2>1, <3>1
    <2>2. CASE x = c
        <3>1. y \in Committed /\ wroteAt'[y] = wroteAt[y]
            BY <1>1, <1>2, <2>2
        <3> QED BY <1>3, <2>2, <3>1 DEF Open, OpenRefresh, Siblings
    <2>3. CASE x # c /\ y # c
        BY <1>1, <1>2, <2>3 DEF Chains, SiblingsOverlap
    <2> QED BY <2>1, <2>2, <2>3
<1>8. TokenRows'
    BY <1>5 DEF TokenRows
<1>9. OneLeaf'
    <2>1. \A x \in Exists(tokens) : x # c /\ (Leaf(x)' => Leaf(x))
        <3> SUFFICES ASSUME NEW x \in Exists(tokens), Leaf(x)' PROVE Leaf(x)
            BY TokenFacts
        <3>1. \A y \in Exists(tokens) : tokens[y].parent # x
            BY TokenFacts DEF Leaf
        <3> QED BY <3>1 DEF Leaf
    <2>2. ASSUME NEW u \in Exists(tokens), Leaf(u)', Leaf(c)', NEW s, s = tokens[u].session,
                 tokens'[c].session = s
          PROVE  Forked(s)'
        <3>1. req[c].op \in Minters
            BY <2>2, TokenFacts DEF Leaf
        <3>2. Leaf(u)
            BY <2>1, <2>2
        <3>3. s \in Exists(tokens)
            BY <2>2 DEF Chains, TokenRows, TokenRow
        <3>4. req[c].op = "refresh"
            BY <2>2, <3>1, <3>3, TokenFacts
        <3>5. PICK p \in Exists(tokens) :
                /\ p = req[c].token /\ tokens'[c].parent = p /\ tokens[p].session = s
                /\ tokens[p].user = got[c].user
            BY <2>2, <3>4, TokenFacts
        <3>6. p # u
            BY <2>2, <3>5 DEF Leaf
        <3>7. CASE Leaf(p)
            <4>1. Forked(s)
                BY <2>2, <3>2, <3>5, <3>6, <3>7 DEF Chains, OneLeaf
            <4> QED BY <3>3, <4>1, PastStays
        <3>8. CASE ~Leaf(p)
            <4>1. PICK e \in Exists(tokens) : tokens[e].parent = p
                BY <3>5, <3>8 DEF Leaf
            <4>2. p # None
                BY <3>5, NamesAssumption DEF Exists, Id
            <4>3. /\ e # Seed /\ req[e].op = "refresh" /\ req[e].token = p /\ tokens[e].session = s
                  /\ got[e].user = tokens[e].user
                BY <3>5, <4>1, <4>2 DEF Chains, TokenRows, TokenRow
            <4>4. e \in Committed
                <5>1. e \in Call /\ tokens[e] # None
                    BY <4>3 DEF Exists, Id
                <5> QED BY <5>1 DEF Typed
            <4>5. e # c /\ wroteAt'[e] = wroteAt[e] /\ e \in Call
                BY <1>2, <4>4
            <4>6. readAt[c] < wroteAt[e]
                BY <1>3, <3>4, <3>5, <4>3, <4>4 DEF Open, OpenRefresh, Siblings
            <4>7. readAt[e] < wroteAt'[c]
                BY <1>1, <4>5
            <4>8. Overlap(e, c)'
                BY <1>1, <4>5, <4>6, <4>7 DEF Overlap
            <4>9. tokens'[e].parent = p /\ tokens'[e].session = s /\ tokens'[s].user = tokens[s].user
                BY <3>3, <4>1, <4>3, TokenFacts
            <4>10. got[e].user = tokens[s].user /\ got[c].user = tokens[s].user
                BY <3>5, <4>3 DEF Chains, TokenRows, TokenRow
            <4>11. e \in Rotations(s)' /\ c \in Rotations(s)'
                <5>1. Rotations(s)' = {d \in Committed' : /\ req[d].op = "refresh" /\ got[d].user = tokens'[s].user
                                                          /\ tokens'[d].session = s}
                    BY <1>1 DEF Rotations, Did
                <5> QED BY <1>1, <2>2, <3>4, <4>3, <4>4, <4>9, <4>10, <5>1
            <4> QED BY <3>5, <4>5, <4>8, <4>9, <4>11 DEF Forked
        <3> QED BY <3>7, <3>8
    <2> SUFFICES ASSUME NEW t \in Exists(tokens)', NEW u \in Exists(tokens)', Leaf(t)', Leaf(u)', t # u,
                        NEW s, tokens'[t].session = s, tokens'[u].session = s
                 PROVE  Forked(s)'
        BY DEF OneLeaf
    <2>3. CASE t = c
        <3>1. u \in Exists(tokens) /\ tokens[u].session = s
            BY <2>3, TokenFacts
        <3> QED BY <2>2, <2>3, <3>1
    <2>4. CASE u = c
        <3>1. t \in Exists(tokens) /\ tokens[t].session = s
            BY <2>4, TokenFacts
        <3> QED BY <2>2, <2>4, <3>1
    <2>5. CASE t # c /\ u # c
        <3>1. /\ t \in Exists(tokens) /\ u \in Exists(tokens)
              /\ tokens[t].session = s /\ tokens[u].session = s
            BY <2>5, TokenFacts
        <3>2. Forked(s) /\ s \in Exists(tokens)
            BY <2>1, <3>1 DEF Chains, OneLeaf, TokenRows, TokenRow
        <3> QED BY <3>2, PastStays
    <2> QED BY <2>3, <2>4, <2>5
<1> QED BY <1>6, <1>7, <1>8, <1>9 DEF Chains

LEMMA SessionsEndAfter ==
    ASSUME IInv, NEW c \in Call, Commits(c, Operations), Shape(c) PROVE SessionsEnd'
<1> USE DEF IInv, History
<1>1. /\ readAt' = readAt /\ foundAt' = foundAt /\ wroteAt'[c] = Count + 1 /\ Count \in Nat
      /\ \A d \in Call : readAt[d] \in Nat /\ readAt[d] <= Count /\ wroteAt[d] \in Nat /\ wroteAt[d] <= Count
      /\ \A d \in Call : foundAt[d] \in Nat /\ foundAt[d] <= Count
      /\ \A d \in Committed : d \in Call \ {c} /\ wroteAt'[d] = wroteAt[d]
      /\ Place(c)' = Count + 1
    BY CommitCounts, PastStays
<1>2. /\ \A u : PasswordSetters(u) \subseteq Committed /\ SessionEnders(u) \subseteq Committed
      /\ \A u : SessionEnders(u)' \subseteq SessionEnders(u) \cup {c}
      /\ \A u : c \in SessionEnders(u)' => got[c].user = u /\ EndsAll(c)
      /\ \A u : SessionEnders(u)' \subseteq Call
    BY PastStays, CommitCounts DEF Committed
\* A good token of a user whose sessions the call ends came after its UPDATE.
<1>3. ASSUME NEW t \in Unrevoked', NEW u, u = tokens'[t].user, c \in SessionEnders(u)'
      PROVE  t # c /\ foundAt[c] < Place(t)
    <2>1. got[c].user = u /\ EndsAll(c) /\ req[c].op \in Revokers /\ req[c].op \notin Minters
        BY <1>2, <1>3 DEF EndsAll, Revokers, Minters, SignUps
    <2>2. t \in Exists(tokens)' /\ ~tokens'[t].revoked
        BY DEF Unrevoked
    <2>3. t # c /\ t \in Exists(tokens) /\ tokens[t].user = u /\ ~tokens[t].revoked /\ t \notin found[c]
        BY <1>3, <2>1, <2>2, TokenFacts
    <2>4. OpenFound(c) /\ pc[c] = "write"
        BY CommitCounts DEF Open
    <2> QED BY <2>1, <2>3, <2>4 DEF OpenFound, Unrevoked
<1>4. \A u : \A d \in SessionEnders(u)' : d # c => d \in SessionEnders(u) /\ d \in Committed
    BY <1>2
<1>5. ASSUME NEW t \in Unrevoked', t # c
      PROVE  t \in Unrevoked /\ tokens'[t].user = tokens[t].user /\ tokens'[t].session = tokens[t].session
    <2>1. t \in Exists(tokens)' /\ ~tokens'[t].revoked
        BY DEF Unrevoked
    <2>2. t \in Exists(tokens)
        BY <1>5, <2>1, TokenFacts
    <2> QED BY <2>1, <2>2, TokenFacts DEF Unrevoked
<1>6. ASSUME NEW t \in Unrevoked', NEW u, u = tokens'[t].user, NEW d \in SessionEnders(u)'
      PROVE  foundAt'[d] < Place(t)'
    <2>1. CASE t = c
        <3>1. d \in Call
            BY <1>2, <1>6
        <3> QED BY <1>1, <2>1, <3>1
    <2>2. CASE t # c
        <3>1. t \in Unrevoked /\ u = tokens[t].user /\ Place(t)' = Place(t)
            BY <1>5, <1>6, <2>2, PastStays DEF Unrevoked
        <3>2. CASE d = c
            BY <1>1, <1>3, <1>6, <3>1, <3>2
        <3>3. CASE d # c
            <4>1. d \in SessionEnders(u)
                BY <1>4, <1>6, <3>3
            <4> QED BY <1>1, <3>1, <4>1 DEF SessionsEnd, UnrevokedArePostdated
        <3> QED BY <3>2, <3>3
    <2> QED BY <2>1, <2>2
<1>7. UnrevokedArePostdated'
    BY <1>6 DEF UnrevokedArePostdated
\* So its session went on, if it was open then, by the rotation that made it.
<1>8. ASSUME NEW t \in Unrevoked', NEW u, u = tokens'[t].user, NEW s, s = tokens'[t].session,
             NEW m, m = foundAt[c], NEW n, n = Count + 1, c \in SessionEnders(u)', Place(s)' <= m
      PROVE  Crossed(s, u, m, n)'
    <2>1. t # c /\ foundAt[c] < Place(t)
        BY <1>3, <1>8
    <2>2. t \in Exists(tokens) /\ u = tokens[t].user /\ s = tokens[t].session
        BY <1>5, <1>8, <2>1 DEF Unrevoked
    <2>3. s \in Exists(tokens)
        BY <2>2 DEF Chains, TokenRows, TokenRow
    <2>4. Place(s)' = Place(s) /\ Place(s) \in Nat /\ Place(t) \in Nat
        BY <2>2, <2>3, PastStays
    <2>5. s # t
        BY <1>1, <1>8, <2>1, <2>4
    <2>6. t # Seed /\ req[t].op = "refresh" /\ got[t].user = u
        BY <2>2, <2>5 DEF Chains, TokenRows, TokenRow
    <2>7. t \in Committed /\ t \in Call
        <3>1. t \in Call /\ tokens[t] # None
            BY <2>2, <2>6 DEF Exists, Id
        <3> QED BY <3>1 DEF Typed
    <2>8. t \in Did({"refresh"}, u)'
        <3>1. t \in Did({"refresh"}, u)
            BY <2>6, <2>7 DEF Did
        <3> QED BY <3>1, CommitCounts
    <2>9. readAt'[t] < n /\ m < wroteAt'[t]
        BY <1>1, <1>8, <2>1, <2>6, <2>7 DEF Place
    <2> QED BY <1>8, <2>8, <2>9 DEF Crossed
<1>9. ASSUME NEW t \in Unrevoked', NEW u, u = tokens'[t].user, NEW s, s = tokens'[t].session,
             NEW d \in PasswordSetters(u)', NEW m, m = foundAt'[d], NEW n, n = wroteAt'[d],
             Place(s)' <= m
      PROVE  Crossed(s, u, m, n)'
    <2>1. d \in SessionEnders(u)'
        BY <1>9 DEF SessionEnders
    <2>2. CASE d = c
        <3>1. m = foundAt[c] /\ n = Count + 1
            BY <1>1, <1>9, <2>2
        <3> QED BY <1>8, <1>9, <2>1, <2>2, <3>1
    <2>3. CASE d # c
        <3>1. d \in Committed /\ m = foundAt[d] /\ n = wroteAt[d] /\ d \in Call /\ n \in Nat /\ n <= Count
              /\ m \in Nat /\ m <= Count
            BY <1>1, <1>4, <1>9, <2>1, <2>3
        <3>2. d \in PasswordSetters(u)
            BY <1>9, <2>3, PastStays
        <3>3. CASE t # c
            <4>1. t \in Unrevoked /\ u = tokens[t].user /\ s = tokens[t].session /\ t \in Exists(tokens)
                BY <1>5, <1>9, <3>3 DEF Unrevoked
            <4>2. s \in Exists(tokens)
                BY <4>1 DEF Chains, TokenRows, TokenRow
            <4>3. Place(s)' = Place(s)
                BY <4>2, PastStays
            <4>4. Crossed(s, u, m, n)
                BY <1>9, <3>1, <3>2, <4>1, <4>3 DEF SessionsEnd, Outlives
            <4> QED BY <4>4, PastStays
        <3>4. CASE t = c /\ req[c].op # "refresh"
            <4>1. s = c
                BY <1>9, <3>4, TokenFacts DEF Unrevoked
            <4> QED BY <1>1, <1>9, <3>1, <4>1
        <3>5. CASE t = c /\ req[c].op = "refresh"
            <4>1. PICK p \in Exists(tokens) :
                    p = req[c].token /\ tokens[p].user = got[c].user /\ tokens[p].session = s
                BY <1>9, <3>5, TokenFacts
            <4>2. u = got[c].user
                BY <1>9, <3>5, TokenFacts DEF Unrevoked
            <4>3. s \in Exists(tokens)
                BY <4>1 DEF Chains, TokenRows, TokenRow
            <4>4. Place(s)' = Place(s)
                BY <4>3, PastStays
            <4>5. CASE readAt[c] < n
                <5>1. c \in Did({"refresh"}, u)'
                    BY <3>5, <4>2, CommitCounts
                <5> QED BY <1>1, <1>9, <3>1, <3>5, <4>5, <5>1 DEF Crossed
            <4>6. CASE n <= readAt[c]
                <5>1. OpenRefresh(c)
                    BY CommitCounts DEF Open
                <5>2. Crossed(s, u, m, n)
                    BY <1>9, <3>1, <3>2, <3>5, <4>1, <4>2, <4>4, <4>6, <5>1 DEF OpenRefresh
                <5> QED BY <5>2, PastStays
            <4> QED BY <1>1, <3>1, <4>5, <4>6
        <3> QED BY <3>3, <3>4, <3>5
    <2> QED BY <2>2, <2>3
<1>10. Outlives'
    BY <1>9 DEF Outlives
<1> QED BY <1>7, <1>10 DEF SessionsEnd

LEMMA PasswordsAfter ==
    ASSUME IInv, NEW c \in Call, Commits(c, Operations), Shape(c) PROVE Passwords'
<1> USE DEF IInv, History
<1>1. /\ req' = req /\ got' = got /\ readAt' = readAt /\ wroteAt'[c] = Count + 1 /\ Count \in Nat
      /\ Committed' = Committed \cup {c} /\ c \notin Committed /\ Open(c)
      /\ \A d \in Call : readAt[d] \in Nat /\ readAt[d] <= Count /\ wroteAt[d] \in Nat /\ wroteAt[d] <= Count
      /\ \A d \in Committed : d \in Call \ {c} /\ wroteAt'[d] = wroteAt[d]
      /\ \A u : PasswordSetters(u) \subseteq Committed
    BY CommitCounts, PastStays
<1>2. \A u : PasswordSetters(u)' = IF req[c].op \in {"change", "confirm"} /\ got[c].user = u
                                   THEN PasswordSetters(u) \cup {c} ELSE PasswordSetters(u)
    BY PastStays
<1>3. \A u : \A d \in PasswordSetters(u) : got[d].user = u /\ u \in Exists(users)
    BY DEF PasswordSetters, Did, Tables, Owned
<1>4. \A u : PasswordSetters(u)' # {} => u \in Exists(users)
    <2>1. req[c].op \in {"change", "confirm"} => got[c].user \in Exists(users)
        BY WriterKnows DEF Creators, SignUps
    <2> QED BY <1>2, <1>3, <2>1
<1>5. ASSUME NEW u \in Exists(users), PasswordSetters(u)' # {} PROVE ~users'[u].stale
    <2>1. CASE u = got[c].user /\ req[c].op \in {"change", "confirm"}
        BY <2>1 DEF Shape, PasswordShape
    <2>2. CASE ~(u = got[c].user /\ req[c].op \in {"change", "confirm"})
        <3>1. PasswordSetters(u) # {}
            BY <1>2, <1>5, <2>2
        <3>2. ~users[u].stale
            BY <3>1 DEF Passwords, FreshHash
        <3> QED BY <2>2, <3>2 DEF Shape, PasswordShape
    <2> QED BY <2>1, <2>2
<1>6. FreshHash'
    BY <1>4, <1>5 DEF FreshHash
<1>7. ASSUME NEW u \in Exists(users), NEW d \in PasswordSetters(u)'
      PROVE  \/ \E e \in PasswordSetters(u)' : wroteAt'[d] < wroteAt'[e]
             \/ users'[u].password = req[d].password
             \/ \E e \in Did({"login", "register_individual"}, u)' :
                  readAt[e] < wroteAt'[d] /\ wroteAt'[d] < wroteAt'[e]
    <2>1. CASE u = got[c].user /\ req[c].op \in {"change", "confirm"}
        <3>1. CASE d = c
            BY <2>1, <3>1 DEF Shape, PasswordShape
        <3>2. CASE d # c
            <4>1. d \in Committed /\ c \in PasswordSetters(u)'
                BY <1>1, <1>2, <1>7, <2>1, <3>2
            <4>2. wroteAt'[d] < wroteAt'[c]
                BY <1>1, <4>1
            <4> QED BY <4>1, <4>2
        <3> QED BY <3>1, <3>2
    <2>2. CASE ~(u = got[c].user /\ req[c].op \in {"change", "confirm"})
        <3>1. d \in PasswordSetters(u) /\ d \in Committed /\ wroteAt'[d] = wroteAt[d] /\ d # c
            BY <1>1, <1>2, <1>7, <2>2
        <3>2. CASE u = got[c].user /\ req[c].op \in SignUps \cup {"login"} /\ got[c].stale
            <4>1. readAt[c] < wroteAt[d]
                BY <1>1, <3>1, <3>2 DEF Open, OpenPassword
            <4>2. req[c].op # "register"
                BY <1>1, <3>2, WriterKnows, UserFacts DEF OpenUser
            <4>3. c \in Did({"login", "register_individual"}, u)'
                BY <3>2, <4>2, CommitCounts DEF SignUps
            <4>4. wroteAt'[d] < wroteAt'[c]
                BY <1>1, <3>1
            <4> QED BY <3>1, <4>1, <4>3, <4>4
        <3>3. CASE ~(u = got[c].user /\ req[c].op \in SignUps \cup {"login"} /\ got[c].stale)
            <4>1. users'[u].password = users[u].password
                BY <2>2, <3>3 DEF Shape, PasswordShape
            <4>2. \A e \in PasswordSetters(u) : e \in PasswordSetters(u)' /\ wroteAt'[e] = wroteAt[e]
                BY <1>1, <1>2
            <4>3. \A e \in Did({"login", "register_individual"}, u) :
                    e \in Did({"login", "register_individual"}, u)' /\ wroteAt'[e] = wroteAt[e]
                BY CommitCounts
            <4> QED BY <3>1, <4>1, <4>2, <4>3 DEF Passwords, PasswordIsTheLastSet
        <3> QED BY <3>2, <3>3
    <2> QED BY <2>1, <2>2
<1>8. PasswordIsTheLastSet'
    BY <1>1, <1>4, <1>7 DEF PasswordIsTheLastSet
<1>9. UsedUp'
    <2> SUFFICES ASSUME NEW d \in Committed', req[d].op = "confirm"
                 PROVE  req[d].reset \in Exists(resets)' /\ resets'[req[d].reset].used
        BY <1>1 DEF UsedUp
    <2>1. CASE d = c
        <3>1. req[c].reset \in Exists(resets)
            BY <2>1, WriterKnows DEF OpenRows
        <3> QED BY <2>1, <3>1, ResetFacts DEF Shape, ResetShape
    <2>2. CASE d # c
        <3>1. req[d].reset \in Exists(resets) /\ resets[req[d].reset].used
            BY <1>1, <2>2 DEF Passwords, UsedUp
        <3> QED BY <3>1, ResetFacts DEF Shape, ResetShape
    <2> QED BY <2>1, <2>2
<1>10. RedeemersOverlap'
    <2> SUFFICES ASSUME NEW x \in Committed', NEW y \in Committed', x # y, Redeemers(x, y)
                 PROVE  readAt[x] < wroteAt'[y]
        BY <1>1 DEF RedeemersOverlap, Redeemers
    <2>1. CASE y = c
        <3>1. x \in Call
            BY <1>1
        <3> QED BY <1>1, <2>1, <3>1
    <2>2. CASE x = c
        <3>1. y \in Committed /\ wroteAt'[y] = wroteAt[y]
            BY <1>1, <2>2
        <3> QED BY <1>1, <2>2, <3>1 DEF Open, OpenPassword, Redeemers
    <2>3. CASE x # c /\ y # c
        BY <1>1, <2>3 DEF Passwords, RedeemersOverlap
    <2> QED BY <2>1, <2>2, <2>3
<1> QED BY <1>6, <1>8, <1>9, <1>10 DEF Passwords

\* A call may mint if it might have before, whoever is barred now.
LEMMA MayStillMint ==
    ASSUME IInv, NEW c \in Call, Commits(c, Operations), Shape(c), NEW t \in Call, MayMint(t)
    PROVE  MayMint(t)'
<1>1. /\ req' = req /\ got' = got /\ readAt' = readAt /\ wroteAt'[c] = Count + 1 /\ Count \in Nat
      /\ Committed' = Committed \cup {c} /\ readAt[t] \in Nat /\ readAt[t] <= Count
      /\ \A d \in Committed : d \in Call \ {c} /\ wroteAt'[d] = wroteAt[d]
    BY CommitCounts, PastStays
<1> SUFFICES ASSUME NEW d \in Committed', NEW u, u = got[t].user, NEW n, n = readAt[d],
                    Barring(d)', got[d].user = u, wroteAt'[d] <= readAt[t]
             PROVE  Excused(u, n)'
    BY <1>1 DEF MayMint
<1>2. d # c /\ d \in Committed /\ d \in Call /\ wroteAt'[d] = wroteAt[d]
    BY <1>1
<1>3. Barring(d)
    BY <1>2, PastStays
<1>4. Excused(u, n)
    BY <1>2, <1>3 DEF MayMint
<1> QED BY <1>4, PastStays

LEMMA BarsAfter ==
    ASSUME IInv, NEW c \in Call, Commits(c, Operations), Shape(c) PROVE Bars'
<1> USE DEF IInv, History
<1>1. /\ req' = req /\ got' = got /\ readAt' = readAt /\ wroteAt'[c] = Count + 1 /\ Count \in Nat
      /\ Committed' = Committed \cup {c} /\ c \notin Committed /\ Open(c)
      /\ \A d \in Call : readAt[d] \in Nat /\ readAt[d] <= Count
      /\ \A d \in Committed : d \in Call \ {c} /\ wroteAt'[d] = wroteAt[d]
    BY CommitCounts, PastStays
<1>2. ASSUME NEW u \in Exists(users)', users'[u].active, NEW d \in Committed', Barring(d),
             got[d].user = u, NEW n, n = readAt[d]
      PROVE  Excused(u, n)'
    <2>1. u \in Exists(users)
        <3>1. CASE d = c
            BY <1>2, <3>1, WriterKnows DEF Barring, Creators, SignUps
        <3>2. CASE d # c
            BY <1>1, <1>2, <3>2 DEF Tables, Owned
        <3> QED BY <3>1, <3>2
    <2>2. CASE u = got[c].user /\ req[c].op = "set_active" /\ req[c].active
        <3>1. d # c
            BY <1>2, <2>2 DEF Barring
        <3>2. n < wroteAt'[c]
            BY <1>1, <1>2, <3>1
        <3>3. c \in Did({"set_active"}, u)'
            BY <2>2, CommitCounts
        <3> QED BY <1>1, <2>2, <3>2, <3>3 DEF Excused
    <2>3. CASE users[u].active /\ (u = got[c].user /\ Barring(c) => ~got[c].active)
        <3>1. CASE d = c
            <4>1. ~got[c].active
                BY <1>2, <2>3, <3>1
            <4>2. Excused(u, n)
                BY <1>1, <1>2, <2>1, <2>3, <3>1, <4>1 DEF Open, OpenBars
            <4> QED BY <4>2, PastStays
        <3>2. CASE d # c
            <4>1. Excused(u, n)
                BY <1>1, <1>2, <2>1, <2>3, <3>2 DEF Bars, BarsHold
            <4> QED BY <4>1, PastStays
        <3> QED BY <3>1, <3>2
    <2> QED BY <1>2, <2>1, <2>2, <2>3 DEF Shape, ActiveShape
<1>3. BarsHold'
    <2> SUFFICES ASSUME NEW u \in Exists(users)', users'[u].active, NEW d \in Committed', Barring(d)',
                        got[d].user = u, NEW n, n = readAt[d]
                 PROVE  Excused(u, n)'
        BY <1>1 DEF BarsHold
    <2>1. Barring(d)
        BY <1>1, PastStays
    <2> QED BY <1>2, <2>1
<1>4. MintsHold'
    <2> SUFFICES ASSUME NEW t \in Committed', req[t].op \in Minters PROVE MayMint(t)'
        BY <1>1 DEF MintsHold
    <2>1. MayMint(t) /\ t \in Call
        <3>1. CASE t = c
            BY <1>1, <3>1 DEF Open, OpenBars
        <3>2. CASE t # c
            BY <1>1, <3>2 DEF Bars, MintsHold
        <3> QED BY <3>1, <3>2
    <2> QED BY <2>1, MayStillMint
<1> QED BY <1>3, <1>4 DEF Bars

LEMMA OthersStayOpen ==
    ASSUME IInv, NEW c \in Call, Commits(c, Operations), Shape(c),
           NEW d \in Call \ {c}, pc[d] \in {"signin", "revoke", "write"}
    PROVE  Open(d)'
<1> USE DEF IInv, History
<1>1. /\ req' = req /\ got' = got /\ readAt' = readAt /\ found' = found /\ foundAt' = foundAt
      /\ foundAt[d] \in Nat /\ foundAt[d] <= Count /\ Place(c)' = Count + 1
      /\ wroteAt'[c] = Count + 1 /\ Count \in Nat
      /\ pc'[d] = pc[d] /\ Committed' = Committed \cup {c}
      /\ readAt[d] \in Nat /\ readAt[d] <= Count
      /\ \A e \in Committed : e \in Call \ {c} /\ wroteAt'[e] = wroteAt[e]
    BY CommitCounts, PastStays
<1>2. Open(d)
    BY DEF Opened
<1>3. OpenUser(d)'
    BY <1>1, <1>2, UserFacts DEF Open, OpenUser
<1>4. OpenRows(d)'
    <2>1. req[d].op = "refresh" =>
            req[d].token \in Exists(tokens)' /\ tokens'[req[d].token].user = got[d].user
        BY <1>2, TokenFacts DEF Open, OpenRows
    <2>2. req[d].op = "confirm" =>
            req[d].reset \in Exists(resets)' /\ resets'[req[d].reset].user = got[d].user
        BY <1>2, ResetFacts DEF Open, OpenRows, Shape, ResetShape
    <2>3. req[d].op = "logout" => req[d].token \in Exists(tokens)' \cup {None}
        BY <1>2, TokenFacts DEF Open, OpenRows
    <2> QED BY <1>1, <2>1, <2>2, <2>3 DEF OpenRows
<1>5. \A u : \A e \in PasswordSetters(u)' : e # c => e \in PasswordSetters(u) /\ e \in Committed
    BY PastStays
<1>6. OpenRefresh(d)'
    <2> SUFFICES ASSUME req[d].op = "refresh" PROVE OpenRefresh(d)'
        BY <1>1 DEF OpenRefresh
    <2>1. ASSUME NEW e \in Committed', Siblings(d, e) PROVE readAt[d] < wroteAt'[e]
        <3>1. CASE e = c
            BY <1>1, <3>1
        <3>2. CASE e # c
            BY <1>1, <1>2, <2>1, <3>2 DEF Open, OpenRefresh
        <3> QED BY <3>1, <3>2
    <2>2. PICK p \in Exists(tokens) : p = req[d].token
        BY <1>2 DEF Open, OpenRows
    <2>3. ASSUME NEW u, u = got[d].user, NEW e \in PasswordSetters(u)', NEW s, s = tokens'[p].session,
                 NEW m, m = foundAt[e], NEW n, n = wroteAt'[e], Place(s)' <= m, n <= readAt[d]
          PROVE  Crossed(s, u, m, n)'
        <3>1. s = tokens[p].session /\ s \in Exists(tokens)
            BY <2>3, TokenFacts DEF Chains, TokenRows, TokenRow
        <3>2. e # c
            BY <1>1, <2>3
        <3>3. e \in PasswordSetters(u) /\ e \in Committed /\ n = wroteAt[e]
            BY <1>1, <1>5, <2>3, <3>2
        <3>4. Place(s)' = Place(s)
            BY <3>1, PastStays
        <3>5. Crossed(s, u, m, n)
            BY <1>2, <2>2, <2>3, <3>1, <3>3, <3>4 DEF Open, OpenRefresh
        <3> QED BY <3>5, PastStays
    <2> QED BY <1>1, <2>1, <2>2, <2>3 DEF OpenRefresh, Siblings
<1>7. OpenPassword(d)'
    <2>1. ASSUME NEW e \in Committed', Redeemers(d, e) PROVE readAt[d] < wroteAt'[e]
        <3>1. CASE e = c
            BY <1>1, <3>1
        <3>2. CASE e # c
            BY <1>1, <1>2, <2>1, <3>2 DEF Open, OpenPassword
        <3> QED BY <3>1, <3>2
    <2>2. ASSUME req[d].op \in SignUps \cup {"login"}, got[d].stale,
                 NEW e \in PasswordSetters(got[d].user)'
          PROVE  readAt[d] < wroteAt'[e]
        <3>1. CASE e = c
            BY <1>1, <3>1
        <3>2. CASE e # c
            <4>1. e \in PasswordSetters(got[d].user) /\ e \in Committed
                <5>1. PICK u : u = got[d].user
                    OBVIOUS
                <5>2. e \in PasswordSetters(u)'
                    BY <1>1, <2>2, <5>1
                <5> QED BY <1>5, <3>2, <5>1, <5>2
            <4> QED BY <1>1, <1>2, <2>2, <4>1 DEF Open, OpenPassword
        <3> QED BY <3>1, <3>2
    <2> QED BY <1>1, <2>1, <2>2 DEF OpenPassword, Redeemers
<1>8. OpenBars(d)'
    <2>1. req[d].op \in Minters => MayMint(d)'
        BY <1>2, MayStillMint DEF Open, OpenBars
    <2>2. ASSUME Barring(d), ~got[d].active, NEW u, u = got[d].user, u \in Exists(users)',
                 users'[u].active, NEW n, n = readAt[d]
          PROVE  Excused(u, n)'
        <3>1. u \in Exists(users)
            <4>1. req[d].op \notin Creators
                BY <2>2 DEF Barring, Creators, SignUps
            <4> QED BY <1>2, <2>2, <4>1 DEF Open, OpenUser
        <3>2. CASE u = got[c].user /\ req[c].op = "set_active" /\ req[c].active
            <4>1. n < wroteAt'[c]
                BY <1>1, <2>2
            <4>2. c \in Did({"set_active"}, u)'
                BY <3>2, CommitCounts
            <4> QED BY <1>1, <3>2, <4>1, <4>2 DEF Excused
        <3>3. CASE users[u].active
            <4>1. Excused(u, n)
                BY <1>2, <2>2, <3>1, <3>3 DEF Open, OpenBars
            <4> QED BY <4>1, PastStays
        <3> QED BY <2>2, <3>1, <3>2, <3>3 DEF Shape, ActiveShape
    <2>3. Barring(d)' <=> Barring(d)
        BY PastStays
    <2> QED BY <1>1, <2>1, <2>2, <2>3 DEF OpenBars
<1>9. OpenFound(d)'
    <2> SUFFICES ASSUME pc[d] = "write", EndsAll(d), NEW t \in Unrevoked', t \notin found[d],
                        tokens'[t].user = got[d].user
                 PROVE  foundAt[d] < Place(t)'
        BY <1>1 DEF OpenFound, EndsAll
    <2>1. CASE t = c
        BY <1>1, <2>1
    <2>2. CASE t # c
        <3>1. t \in Exists(tokens)' /\ ~tokens'[t].revoked
            BY DEF Unrevoked
        <3>2. t \in Exists(tokens) /\ ~tokens[t].revoked /\ tokens[t].user = got[d].user
            BY <2>2, <3>1, TokenFacts
        <3>3. foundAt[d] < Place(t)
            BY <1>2, <3>2 DEF Open, OpenFound, Unrevoked
        <3> QED BY <3>2, <3>3, PastStays
    <2> QED BY <2>1, <2>2
<1> QED BY <1>3, <1>4, <1>6, <1>7, <1>8, <1>9 DEF Open

LEMMA WritesKeep == ASSUME IInv, NEW c \in Call, Writes(c) PROVE IInv'
<1>1. Commits(c, Operations) /\ Shape(c)
    BY WritesHaveShape
<1>2. Opened'
    <2> SUFFICES ASSUME NEW d \in Call, pc'[d] \in {"signin", "revoke", "write"} PROVE Open(d)'
        BY DEF Opened
    <2>1. d # c /\ pc'[d] = pc[d]
        BY <1>1, CommitCounts
    <2> QED BY <1>1, <2>1, OthersStayOpen
<1>3. Counted'
    BY <1>1, CommitCounts
<1> QED BY <1>1, <1>2, <1>3, TypedAfter, TablesAfter, ChainsAfter, SessionsEndAfter, PasswordsAfter, BarsAfter
        DEF IInv, History

-----------------------------------------------------------------------------
LEMMA StutterKeeps == ASSUME IInv, UNCHANGED vars PROVE IInv'
<1> USE DEF IInv, History
<1>1. UNCHANGED <<users, tokens, resets, pc, req, got, found, foundAt, readAt, wroteAt>>
    BY DEF vars
<1>2. Committed' = Committed /\ Count' = Count /\ Exists(users)' = Exists(users)
      /\ Exists(tokens)' = Exists(tokens) /\ Exists(resets)' = Exists(resets)
    BY <1>1 DEF Committed, Count, Exists
<1>3. Typed' /\ Counted'
    BY <1>1, <1>2 DEF Typed, TypeOK, Started, Counted
<1>4. Tables'
    BY <1>1, <1>2 DEF Tables, Owned, OneAccountPerTenant, Alive
<1>5. Chains'
    BY <1>1, <1>2 DEF Chains, TokenRows, TokenRow, Rotated, SiblingsOverlap, Siblings, OneLeaf, Leaf,
        Forked, Rotations, Did, Overlap
<1>6. SessionsEnd'
    BY <1>1, <1>2 DEF SessionsEnd, UnrevokedArePostdated, Outlives, Unrevoked, SessionEnders,
        PasswordSetters, Did, Place, Crossed
<1>7. Passwords'
    BY <1>1, <1>2 DEF Passwords, FreshHash, PasswordIsTheLastSet, PasswordSetters, Did, UsedUp,
        RedeemersOverlap, Redeemers
<1>8. Bars'
    BY <1>1, <1>2 DEF Bars, BarsHold, MintsHold, MayMint, Barring, Excused, Did
<1>9. ASSUME NEW d \in Call, Open(d) PROVE Open(d)'
    <2>1. OpenUser(d)' /\ OpenRows(d)'
        BY <1>1, <1>2, <1>9 DEF Open, OpenUser, OpenRows
    <2>2. OpenRefresh(d)' /\ OpenPassword(d)'
        BY <1>1, <1>2, <1>9 DEF Open, OpenRefresh, Siblings, PasswordSetters, Did, Place, Crossed,
            OpenPassword, Redeemers
    <2>3. OpenBars(d)'
        BY <1>1, <1>2, <1>9 DEF Open, OpenBars, MayMint, Barring, Excused, Did
    <2>4. OpenFound(d)'
        BY <1>1, <1>2, <1>9 DEF Open, OpenFound, EndsAll, Unrevoked, Place
    <2> QED BY <2>1, <2>2, <2>3, <2>4 DEF Open
<1>10. Opened'
    BY <1>1, <1>9 DEF Opened
<1> QED BY <1>3, <1>4, <1>5, <1>6, <1>7, <1>8, <1>10

LEMMA NextIInv == IInv /\ [Next]_vars => IInv'
<1> SUFFICES ASSUME IInv, [Next]_vars PROVE IInv'
    OBVIOUS
<1>1. ASSUME NEW c \in Call, Reads(c) PROVE IInv'
    BY <1>1, ReadsKeep
<1>2. ASSUME NEW c \in Call, SignIn(c) PROVE IInv'
    BY <1>2, SignInKeeps
<1>3. ASSUME NEW c \in Call, Writes(c) PROVE IInv'
    BY <1>3, WritesKeep
<1>4. ASSUME NEW c \in Call, Rollback(c) PROVE IInv'
    BY <1>4, RefusedKeeps DEF Rollback
<1>5. ASSUME NEW c \in Call, Revokes(c) PROVE IInv'
    BY <1>5, RevokesKeep
<1>6. CASE UNCHANGED vars
    BY <1>6, StutterKeeps
<1> QED BY <1>1, <1>2, <1>3, <1>4, <1>5, <1>6 DEF Next

LEMMA Invariance == Spec => []IInv
<1> QED BY InitIInv, NextIInv, PTL DEF Spec

\* auth.py change_password, confirm_password_reset, logout: for any calls, no
\* refresh token that was committed when the UPDATE of the last of them ran is
\* good, and a session that was open then goes on after a new password only
\* through a rotation that read before the password was committed and
\* committed after the UPDATE.
THEOREM PasswordEndsTheSessions == Spec => []PasswordEndsSessions
<1>1. IInv => PasswordEndsSessions
    <2> SUFFICES ASSUME IInv PROVE PasswordEndsSessions
        OBVIOUS
    <2> USE DEF IInv, History
    <2>1. SessionOutlivesPasswordByOverlap
        <3> SUFFICES ASSUME NEW t \in Unrevoked, NEW c \in PasswordSetters(tokens[t].user),
                            Place(tokens[t].session) <= foundAt[c]
                     PROVE  \E d \in Rotations(tokens[t].session) :
                                readAt[d] < wroteAt[c] /\ foundAt[c] < wroteAt[d]
            BY DEF SessionOutlivesPasswordByOverlap
        <3>1. Crossed(tokens[t].session, tokens[t].user, foundAt[c], wroteAt[c])
            BY DEF SessionsEnd, Outlives
        <3>2. tokens[tokens[t].session].user = tokens[t].user
            BY DEF Unrevoked, Chains, TokenRows, TokenRow
        <3> QED BY <3>1, <3>2 DEF Crossed, Rotations
    <2> QED BY <2>1 DEF PasswordEndsSessions, SessionsEnd
<1> QED BY <1>1, Invariance, PTL

\* auth.py refresh, confirm_password_reset: for any calls, a session has two
\* good tokens, or a reset token sets two passwords, only by overlap.
THEOREM TokensWorkOnceAlways == Spec => []TokensWorkOnce
<1>1. IInv => TokensWorkOnce
    <2> SUFFICES ASSUME IInv PROVE TokensWorkOnce
        OBVIOUS
    <2> USE DEF IInv, History
    <2>1. \A t \in Unrevoked : Leaf(t)
        <3> SUFFICES ASSUME NEW t \in Unrevoked, NEW x \in Exists(tokens), tokens[x].parent = t PROVE FALSE
            BY DEF Leaf, Unrevoked
        <3>1. t # None /\ ~tokens[t].revoked
            BY NamesAssumption DEF Unrevoked, Exists, Id
        <3> QED BY <3>1 DEF Chains, TokenRows, TokenRow
    <2>2. SessionForksByOverlap
        BY <2>1 DEF SessionForksByOverlap, Chains, OneLeaf, Forked, Unrevoked
    <2>3. ResetReusedByOverlap
        BY DEF ResetReusedByOverlap, Passwords, RedeemersOverlap, Redeemers, Overlap
    <2> QED BY <2>2, <2>3 DEF TokensWorkOnce
<1> QED BY <1>1, Invariance, PTL

\* auth.py login, change_password: for any calls, the password is the one set
\* last, unless a login that verified an older one overlapped and rehashed it.
THEOREM LastPasswordStands == Spec => []PasswordIsTheLastSet
<1>1. IInv => PasswordIsTheLastSet
    BY DEF IInv, History, Passwords
<1> QED BY <1>1, Invariance, PTL

\* user.py, auth.py: for any calls, the tables stay well-formed, an account
\* that was barred gets no session unless someone activated it over the bar,
\* and an address has one account in a tenant.
THEOREM AccountsHoldAlways == Spec => []AccountsHold
<1>1. IInv => AccountsHold
    <2> SUFFICES ASSUME IInv PROVE AccountsHold
        OBVIOUS
    <2> USE DEF IInv, History
    <2>1. BarredUserMintsNothing
        <3> SUFFICES ASSUME NEW t \in Exists(tokens) \ {Seed}, NEW u, u = tokens[t].user,
                            NEW c \in Did({"delete", "set_active"}, u),
                            req[c].op = "set_active" => ~req[c].active, wroteAt[c] <= readAt[t]
                     PROVE  \E a \in Did({"set_active"}, u) : req[a].active /\ readAt[c] < wroteAt[a]
            BY DEF BarredUserMintsNothing
        <3>1. t \in Committed /\ req[t].op \in Minters /\ got[t].user = u
            <4>1. t \in Call /\ tokens[t] # None
                BY DEF Exists, Id
            <4> QED BY <4>1 DEF Typed, Chains, TokenRows, TokenRow
        <3>2. c \in Committed /\ Barring(c) /\ got[c].user = u
            BY DEF Did, Barring
        <3>3. Excused(u, readAt[c])
            BY <3>1, <3>2 DEF Bars, MintsHold, MayMint
        <3> QED BY <3>3 DEF Excused
    <2> QED BY <2>1 DEF AccountsHold, Typed, Tables
<1> QED BY <1>1, Invariance, PTL
=============================================================================
