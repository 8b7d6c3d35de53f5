------------------------------ MODULE Sessions ------------------------------
(***************************************************************************)
(* Accounts and refresh tokens (app/services/auth.py, services/user.py):   *)
(* sign-up, login, rotation, logout, password change and reset, invite,    *)
(* (de)activation and soft delete, as concurrent transactions under READ   *)
(* COMMITTED.  One e-mail address in one product; tenants are told apart   *)
(* by their slug.                                                          *)
(*                                                                         *)
(* A call reads (and answers 4xx, or goes on), then writes and commits.    *)
(* No row is locked in between.  The statements of one phase are one step, *)
(* as every write of a call is by primary key, but for the UPDATE that     *)
(* revokes tokens: it finds those that are committed when it starts, and   *)
(* others may be committed before its own call is.                         *)
(***************************************************************************)
EXTENDS Naturals, FiniteSets

CONSTANTS
    Call,       \* requests, each one database transaction
    Seed,       \* the account, session and reset token there are at the start
    Slug,       \* tenant slugs
    Password, Random,  \* passwords people type; one nobody knows
    None

ASSUME NamesAssumption ==
    /\ Seed \notin Call /\ None \notin Call \cup {Seed} /\ None \notin Slug
    /\ Random \notin Password
    /\ IsFiniteSet(Call)

\* A user, a refresh token and a reset token are named after the call that
\* inserted them: no call inserts two of a kind.
Id == Call \cup {Seed}

\* Rows of users, refresh_tokens and password_reset_tokens.  stale: the hash
\* was made under older argon2 parameters.  session: the login a chain of
\* rotations goes back to; parent: the token this one replaced.  Time is not
\* modelled: at any moment a token's expires_at may or may not have passed.
User == [tenant: Slug, password: Password \cup {Random}, active: BOOLEAN,
         deleted: BOOLEAN, stale: BOOLEAN]
RefreshToken == [user: Id, session: Id, parent: Id \cup {None}, revoked: BOOLEAN]
PasswordResetToken == [user: Id, used: BOOLEAN]
ASSUME NoneAssumption == None \notin User \cup RefreshToken \cup PasswordResetToken

Operation == {"login", "refresh", "logout", "change", "forgot", "confirm", "google",
              "invite", "set_active", "delete", "register", "register_individual"}

VARIABLES
    users, tokens, resets,   \* the committed rows, by id
    pc,      \* where a call is
    req,     \* what it asks for
    got,     \* the row it loaded (or is to insert), what its active and
             \* password_hash columns were, a new slug
    found,   \* the tokens its UPDATE found to revoke
    foundAt, \* how many calls had committed then
    readAt,  \* how many calls had committed when it read
    wroteAt  \* its place in the order of commits, 0 before

vars == <<users, tokens, resets, pc, req, got, found, foundAt, readAt, wroteAt>>
tables == <<users, tokens, resets>>
hits == <<found, foundAt>>

Exists(table) == {i \in Id : table[i] # None}
Tenants == {users[u].tenant : u \in Exists(users)}
Alive(u) == u \in Exists(users) /\ ~users[u].deleted
Committed == {c \in Call : wroteAt[c] > 0}

\* A tenant with its owner, signed in, holding a reset link.
Init ==
    /\ \E s \in Slug, p \in Password, a \in BOOLEAN, st \in BOOLEAN :
        users = [i \in Id |-> IF i # Seed THEN None ELSE
                   [tenant |-> s, password |-> p, active |-> a, deleted |-> FALSE, stale |-> st]]
    /\ tokens = [i \in Id |-> IF i # Seed THEN None ELSE
                   [user |-> Seed, session |-> Seed, parent |-> None, revoked |-> FALSE]]
    /\ resets = [i \in Id |-> IF i # Seed THEN None ELSE
                   [user |-> Seed, used |-> FALSE]]
    /\ pc = [c \in Call |-> "idle"]
    /\ req = [c \in Call |-> None]
    /\ got = [c \in Call |-> None]
    /\ found = [c \in Call |-> {}] /\ foundAt = [c \in Call |-> 0]
    /\ readAt = [c \in Call |-> 0]
    /\ wroteAt = [c \in Call |-> 0]

-----------------------------------------------------------------------------
(* The reading phase.                                                      *)

\* It passes its checks and goes on to do r, having loaded u.
Goes(c, r, g, l) ==
    /\ pc[c] = "idle"
    /\ pc' = [pc EXCEPT ![c] = l]
    /\ req' = [req EXCEPT ![c] = r]
    /\ got' = [got EXCEPT ![c] = g]
    /\ readAt' = [readAt EXCEPT ![c] = Cardinality(Committed)]
    /\ UNCHANGED <<tables, hits, wroteAt>>
Row(u) == [user |-> u, active |-> users[u].active, stale |-> users[u].stale, slug |-> None]
Loads(c, r, u) == Goes(c, r, Row(u), "write")
\* It is to revoke tokens first.
LoadsToRevoke(c, r, u) == Goes(c, r, Row(u), "revoke")
\* It is to insert a user, and with a new slug a tenant.
ToCreate(c, r, s, l) ==
    Goes(c, r, [user |-> c, active |-> TRUE, stale |-> FALSE, slug |-> s], l)

\* An exception: session_scope rolls back, and the call leaves nothing.
Refused(c) ==
    /\ pc' = [pc EXCEPT ![c] = "refused"]
    /\ req' = [req EXCEPT ![c] = None]
    /\ got' = [got EXCEPT ![c] = None]
    /\ found' = [found EXCEPT ![c] = {}] /\ foundAt' = [foundAt EXCEPT ![c] = 0]
    /\ readAt' = [readAt EXCEPT ![c] = 0]
    /\ UNCHANGED <<tables, wroteAt>>
Refuse(c) == pc[c] = "idle" /\ Refused(c)

\* The lookup by e-mail, in one tenant when its slug is given.  Several rows
\* may match when it is not: the first one returned is taken.
Matching(s) == {u \in Id : Alive(u) /\ (s # None => users[u].tenant = s)}

Verified(u, p) == users[u].active /\ users[u].password = p

LoginRead(c, s, p) ==
    \/ \E u \in Matching(s) :
         IF Verified(u, p)
         THEN Loads(c, [op |-> "login", slug |-> s, password |-> p], u) ELSE Refuse(c)
    \/ Matching(s) = {} /\ Refuse(c)

\* Mutant of Rotatable: a revoked token is accepted.
RotatableRevoked(t) == users[tokens[t].user].active
\* deleted is not looked at.
Rotatable(t) == ~tokens[t].revoked /\ users[tokens[t].user].active

RefreshRead(c, t) ==
    /\ t \in Exists(tokens)
    /\ \/ Rotatable(t) /\ Loads(c, [op |-> "refresh", token |-> t], tokens[t].user)
       \/ Refuse(c)

\* get_current_user: an access token outlives its session; the row decides.
SignedIn(u) == u \in Exists(users) /\ users[u].active

\* One session, or every one of the user's (t = None).
LogoutRead(c, u, t) ==
    /\ u \in Exists(users) /\ t \in Exists(tokens) \cup {None}
    /\ IF SignedIn(u) THEN LoadsToRevoke(c, [op |-> "logout", token |-> t], u) ELSE Refuse(c)

ChangeRead(c, u, current, new) ==
    /\ u \in Exists(users)
    /\ IF SignedIn(u) /\ Verified(u, current) /\ current # new
       THEN LoadsToRevoke(c, [op |-> "change", password |-> new], u) ELSE Refuse(c)

\* No account, or only inactive ones: answers as if it had sent the mail.
ForgotRead(c) ==
    \/ \E u \in Matching(None) : users[u].active /\ Loads(c, [op |-> "forgot"], u)
    \/ (\A u \in Matching(None) : ~users[u].active) /\ Refuse(c)

Redeemable(r) ==
    ~resets[r].used /\ SignedIn(resets[r].user) /\ Alive(resets[r].user)

ConfirmRead(c, r, new) ==
    /\ r \in Exists(resets)
    /\ \/ /\ Redeemable(r)
          /\ LoadsToRevoke(c, [op |-> "confirm", reset |-> r, password |-> new], resets[r].user)
       \/ Refuse(c)

\* The slug a new tenant is to have.  A company names it; for an individual
\* up to three random ones are tried before anything is written.
FreshSlug(c, r, l) == \/ \E s \in Slug \ Tenants : ToCreate(c, r, s, l)
                      \/ Tenants # {} /\ Refuse(c)

RegisterRead(c, s, p) ==
    IF s \notin Tenants
    THEN ToCreate(c, [op |-> "register", slug |-> s, password |-> p], s, "signin")
    ELSE Refuse(c)

RegisterIndividualRead(c, p) ==
    FreshSlug(c, [op |-> "register_individual", slug |-> None, password |-> p], "signin")

\* The e-mail address is Google's.  Without an account the product's
\* google_auto_provision decides.
GoogleRead(c) ==
    LET r == [op |-> "google", slug |-> None, password |-> Random] IN
    \/ \E u \in Matching(None) : SignedIn(u) /\ Loads(c, r, u)
    \/ Matching(None) = {} /\ FreshSlug(c, r, "write")
    \/ Refuse(c)

InviteRead(c, s, p) ==
    /\ s \in Tenants
    /\ IF Matching(s) = {}
       THEN ToCreate(c, [op |-> "invite", slug |-> s, password |-> p], s, "write")
       ELSE Refuse(c)

\* activate, deactivate, and PATCH is_active.  A deleted row can be loaded.
SetActiveRead(c, u, a) ==
    u \in Exists(users) /\ Loads(c, [op |-> "set_active", active |-> a], u)

DeleteRead(c, u) == u \in Exists(users) /\ Loads(c, [op |-> "delete"], u)

-----------------------------------------------------------------------------
(* The writing phase, up to the commit.                                    *)

Commits(c, op) ==
    /\ pc[c] = "write" /\ req[c].op \in op
    /\ pc' = [pc EXCEPT ![c] = "ended"]
    /\ wroteAt' = [wroteAt EXCEPT ![c] = 1 + Cardinality(Committed)]
    /\ UNCHANGED <<req, got, hits, readAt>>

Token(u, session, parent) == [user |-> u, session |-> session, parent |-> parent,
                              revoked |-> FALSE]
Mint(table, c, u) == [table EXCEPT ![c] = Token(u, c, None)]

\* What the UPDATE's WHERE selects: a logout's one token, if it is the user's,
\* or every token of the user that is not revoked yet.
Revocable(c) ==
    {t \in Exists(tokens) :
        /\ tokens[t].user = got[c].user
        /\ IF req[c].op = "logout" /\ req[c].token # None THEN t = req[c].token ELSE ~tokens[t].revoked}

\* The UPDATE is sent; the audit entry, the flush and the commit follow.
Revokes(c) ==
    /\ pc[c] = "revoke"
    /\ pc' = [pc EXCEPT ![c] = "write"]
    /\ found' = [found EXCEPT ![c] = Revocable(c)]
    /\ foundAt' = [foundAt EXCEPT ![c] = Cardinality(Committed)]
    /\ UNCHANGED <<tables, req, got, readAt, wroteAt>>
Revoked(c) == [t \in Id |-> IF t \in found[c] THEN [tokens[t] EXCEPT !.revoked = TRUE] ELSE tokens[t]]

\* needs_rehash, asked of the hash that was loaded, writes the password that
\* was typed back, under a new hash.
Rehash(row, c) == IF got[c].stale THEN [row EXCEPT !.password = req[c].password, !.stale = FALSE]
                  ELSE row

LoginWrite(c) ==
    /\ Commits(c, {"login"})
    /\ users' = [users EXCEPT ![got[c].user] = Rehash(@, c)]
    /\ tokens' = Mint(tokens, c, got[c].user)
    /\ UNCHANGED resets

\* Mutant of RefreshWrite: the old token stays good.
RefreshKeepsOld(c) ==
    /\ Commits(c, {"refresh"})
    /\ tokens' = [tokens EXCEPT
                    ![c] = Token(got[c].user, tokens[req[c].token].session, req[c].token)]
    /\ UNCHANGED <<users, resets>>

RefreshWrite(c) ==
    /\ Commits(c, {"refresh"})
    /\ LET t == req[c].token IN
       tokens' = [tokens EXCEPT ![t].revoked = TRUE,
                                ![c] = Token(got[c].user, tokens[t].session, t)]
    /\ UNCHANGED <<users, resets>>

LogoutWrite(c) ==
    /\ Commits(c, {"logout"})
    /\ tokens' = Revoked(c)
    /\ UNCHANGED <<users, resets>>

\* Mutant of SetPassword: the assignment is never flushed.
SetPasswordDetached(u, p) == users
SetPassword(u, p) == [users EXCEPT ![u].password = p, ![u].stale = FALSE]

ChangeWrite(c) ==
    /\ Commits(c, {"change"})
    /\ users' = SetPassword(got[c].user, req[c].password)
    /\ tokens' = Revoked(c)
    /\ UNCHANGED resets

\* Older reset tokens of the user stay good.
ForgotWrite(c) ==
    /\ Commits(c, {"forgot"})
    /\ resets' = [resets EXCEPT ![c] = [user |-> got[c].user, used |-> FALSE]]
    /\ UNCHANGED <<users, tokens>>

ConfirmWrite(c) ==
    /\ Commits(c, {"confirm"})
    /\ users' = SetPassword(got[c].user, req[c].password)
    /\ resets' = [resets EXCEPT ![req[c].reset].used = TRUE]
    /\ tokens' = Revoked(c)

NewUser(c) == [users EXCEPT ![c] =
    [tenant |-> got[c].slug, password |-> req[c].password, active |-> TRUE,
     deleted |-> FALSE, stale |-> FALSE]]

\* Tenant, owner and trial are inserted, not committed.  The login that
\* follows is part of the transaction: it looks the e-mail up again, by the
\* slug only for a company.  A failed login takes the whole sign-up back.
SignIn(c) ==
    /\ pc[c] = "signin" /\ got[c].slug \notin Tenants
    /\ \E u \in Matching(req[c].slug) \cup {c} :
         /\ u # c => Verified(u, req[c].password)
         /\ got' = [got EXCEPT ![c].user = u, ![c].stale = u # c /\ users[u].stale]
    /\ pc' = [pc EXCEPT ![c] = "write"]
    /\ UNCHANGED <<tables, req, hits, readAt, wroteAt>>

RegisterWrite(c) ==
    /\ Commits(c, {"register", "register_individual"})
    /\ got[c].slug \notin Tenants
    /\ LET u == got[c].user IN
       /\ users' = [NewUser(c) EXCEPT ![u] = Rehash(@, c)]
       /\ tokens' = Mint(tokens, c, u)
    /\ UNCHANGED resets

GoogleWrite(c) ==
    /\ Commits(c, {"google"})
    /\ tokens' = Mint(tokens, c, got[c].user)
    /\ IF got[c].user = c THEN got[c].slug \notin Tenants /\ users' = NewUser(c)
       ELSE UNCHANGED users
    /\ UNCHANGED resets

InviteWrite(c) ==
    /\ Commits(c, {"invite"})
    /\ Matching(got[c].slug) = {}
    /\ users' = NewUser(c)
    /\ UNCHANGED <<tokens, resets>>

\* Only a column whose value differs from the one loaded is written.
SetActiveWrite(c) ==
    /\ Commits(c, {"set_active"})
    /\ users' = IF req[c].active = got[c].active THEN users
                ELSE [users EXCEPT ![got[c].user].active = req[c].active]
    /\ UNCHANGED <<tokens, resets>>

\* Mutant of DeleteWrite: the row stays active.
DeleteLeavesActive(c) ==
    /\ Commits(c, {"delete"})
    /\ users' = [users EXCEPT ![got[c].user].deleted = TRUE]
    /\ UNCHANGED <<tokens, resets>>

DeleteWrite(c) ==
    /\ Commits(c, {"delete"})
    /\ users' = [users EXCEPT ![got[c].user].deleted = TRUE,
                              ![got[c].user].active = @ /\ ~got[c].active]
    /\ UNCHANGED <<tokens, resets>>

\* The connection fails, a unique index refuses the INSERT, or a sign-up's
\* login does: the transaction is rolled back.
Rollback(c) == pc[c] \in {"signin", "revoke", "write"} /\ Refused(c)

Reads(c) ==
    \/ \E s \in Slug \cup {None}, p \in Password : LoginRead(c, s, p)
    \/ \E t \in Id : RefreshRead(c, t)
    \/ \E u \in Id, t \in Id \cup {None} : LogoutRead(c, u, t)
    \/ \E u \in Id, p, q \in Password : ChangeRead(c, u, p, q)
    \/ ForgotRead(c)
    \/ \E r \in Id, p \in Password : ConfirmRead(c, r, p)
    \/ GoogleRead(c)
    \/ \E s \in Slug, p \in Password : RegisterRead(c, s, p) \/ InviteRead(c, s, p)
    \/ \E p \in Password : RegisterIndividualRead(c, p)
    \/ \E u \in Id, a \in BOOLEAN : SetActiveRead(c, u, a)
    \/ \E u \in Id : DeleteRead(c, u)

Writes(c) ==
    \/ LoginWrite(c) \/ RefreshWrite(c) \/ LogoutWrite(c) \/ ChangeWrite(c) \/ ForgotWrite(c)
    \/ ConfirmWrite(c) \/ RegisterWrite(c) \/ GoogleWrite(c) \/ InviteWrite(c)
    \/ SetActiveWrite(c) \/ DeleteWrite(c)

Next == \E c \in Call : Reads(c) \/ SignIn(c) \/ Revokes(c) \/ Writes(c) \/ Rollback(c)
Spec == Init /\ [][Next]_vars

-----------------------------------------------------------------------------
(* Properties.                                                             *)

Request ==
    [op: {"login", "register", "register_individual", "google", "invite"},
     slug: Slug \cup {None}, password: Password \cup {Random}]
    \cup [op: {"refresh", "logout"}, token: Id \cup {None}]
    \cup [op: {"change"}, password: Password]
    \cup [op: {"confirm"}, reset: Id, password: Password]
    \cup [op: {"set_active"}, active: BOOLEAN]
    \cup [op: {"forgot", "delete"}]

\* Every table holds rows of its type whose references are to rows there
\* are, and a call that writes has loaded what it writes to.
TypeOK ==
    /\ users \in [Id -> User \cup {None}]
    /\ tokens \in [Id -> RefreshToken \cup {None}]
    /\ resets \in [Id -> PasswordResetToken \cup {None}]
    /\ \A t \in Exists(tokens) : tokens[t].user \in Exists(users)
    /\ \A r \in Exists(resets) : resets[r].user \in Exists(users)
    /\ pc \in [Call -> {"idle", "signin", "revoke", "write", "ended", "refused"}]
    /\ req \in [Call -> Request \cup {None}]
    /\ got \in [Call -> {None} \cup
                   [user: Id, active: BOOLEAN, stale: BOOLEAN, slug: Slug \cup {None}]]
    /\ found \in [Call -> SUBSET Id]
    /\ foundAt \in [Call -> 0 .. Cardinality(Call)]
    /\ readAt \in [Call -> 0 .. Cardinality(Call)] /\ wroteAt \in [Call -> 0 .. Cardinality(Call)]

Place(i) == IF i = Seed THEN 0 ELSE wroteAt[i]
Did(op, u) == {c \in Committed : req[c].op \in op /\ got[c].user = u}
Overlap(c, d) == readAt[c] < wroteAt[d] /\ readAt[d] < wroteAt[c]

PasswordSetters(u) == Did({"change", "confirm"}, u)
SessionEnders(u) == PasswordSetters(u) \cup {c \in Did({"logout"}, u) : req[c].token = None}
Unrevoked == {t \in Exists(tokens) : ~tokens[t].revoked}
Rotations(s) == {c \in Did({"refresh"}, tokens[s].user) : tokens[c].session = s}

\* auth.py change_password, confirm_password_reset, logout: whatever else is
\* running, no refresh token that was committed when the UPDATE of the last of
\* them began stays good.  (One that a login or a rotation commits between the
\* UPDATE and its COMMIT does.)
UnrevokedArePostdated ==
    \A t \in Unrevoked : \A c \in SessionEnders(tokens[t].user) : foundAt[c] < Place(t)

\* auth.py refresh: a session that was open when the tokens of its user were
\* revoked with the old password goes on afterwards only through a rotation
\* that had read its token before the change was committed and inserted the
\* next one after the UPDATE.
SessionOutlivesPasswordByOverlap ==
    \A t \in Unrevoked : LET s == tokens[t].session IN
        \A c \in PasswordSetters(tokens[t].user) :
            Place(s) <= foundAt[c] =>
                \E d \in Rotations(s) : readAt[d] < wroteAt[c] /\ foundAt[c] < wroteAt[d]

\* auth.py refresh: one session has two good tokens only when two rotations
\* of one token overlapped.
SessionForksByOverlap ==
    \A t, u \in Unrevoked :
        t # u /\ tokens[t].session = tokens[u].session =>
            \E c, d \in Rotations(tokens[t].session) :
                c # d /\ tokens[c].parent = tokens[d].parent /\ Overlap(c, d)

\* auth.py confirm_password_reset: a reset token sets a password twice only
\* when the two calls overlapped.
ResetReusedByOverlap ==
    \A c, d \in Committed :
        c # d /\ req[c].op = "confirm" /\ req[d].op = "confirm" /\ req[c].reset = req[d].reset
            => Overlap(c, d)

\* auth.py login: a user's password is the one set last, unless a login with
\* the old one overlapped the change and rehashed it afterwards.
PasswordIsTheLastSet ==
    \A u \in Exists(users) : \A c \in PasswordSetters(u) :
        \/ \E d \in PasswordSetters(u) : wroteAt[c] < wroteAt[d]
        \/ users[u].password = req[c].password
        \/ \E d \in Did({"login", "register_individual"}, u) :
             readAt[d] < wroteAt[c] /\ wroteAt[c] < wroteAt[d]

\* user.py soft_delete, set_active: a user deleted or deactivated before a
\* call read mints no token in it, unless someone activated the row after the
\* one who barred it had loaded it.
BarredUserMintsNothing ==
    \A t \in Exists(tokens) \ {Seed} : LET u == tokens[t].user IN
        \A c \in Did({"delete", "set_active"}, u) :
            /\ req[c].op = "set_active" => ~req[c].active
            /\ wroteAt[c] <= readAt[t]
            => \E a \in Did({"set_active"}, u) : req[a].active /\ readAt[c] < wroteAt[a]

\* models/user.py uq_users_tenant_email_alive: however invites, sign-ups and
\* deletes overlap, an e-mail has one account that is not deleted in a tenant.
OneAccountPerTenant ==
    \A u, v \in Id : Alive(u) /\ Alive(v) /\ u # v => users[u].tenant # users[v].tenant

\* The route's docstring (api/v1/auth.py:171): a reset "revokes every existing
\* refresh token so old sessions can't continue": those there were when the
\* reset began, whatever is said of later ones.
OldSessionsEnd ==
    \A t \in Unrevoked : \A c \in Did({"confirm"}, tokens[t].user) :
        readAt[c] < Place(tokens[t].session)

\* auth.py change_password, confirm_password_reset: a new password ends the
\* sessions there are when its UPDATE runs, but for a rotation that overlaps it.
PasswordEndsSessions == UnrevokedArePostdated /\ SessionOutlivesPasswordByOverlap

\* auth.py refresh, confirm_password_reset: a token works once, but for calls
\* that overlap.
TokensWorkOnce == SessionForksByOverlap /\ ResetReusedByOverlap

\* user.py, auth.py: an account that was deleted or deactivated gets no
\* session, and an address has one account in a tenant, whatever overlaps.
AccountsHold == TypeOK /\ BarredUserMintsNothing /\ OneAccountPerTenant
=============================================================================
