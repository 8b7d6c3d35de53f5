-------------------------------- MODULE Vault --------------------------------
(***************************************************************************)
(* A product's environment variables, encrypted at rest                    *)
(* (app/services/env_var.py), the service token its backend reads them     *)
(* with (app/services/service_token.py), and the Google exchange that      *)
(* looks a client's secret up among them (app/services/google_oauth.py).   *)
(*                                                                         *)
(* Administrators' calls read, then write and commit, each one             *)
(* transaction, with nothing locked in between; an UPDATE writes the       *)
(* columns that differ from the row as it was loaded, and a row a          *)
(* transaction has loaded is not loaded again.                             *)
(***************************************************************************)
EXTENDS Naturals, FiniteSets

CONSTANTS
    Call,            \* administrators' requests
    Earlier,         \* what created the rows there are at the start
    Reader,          \* requests with the service token
    IdKey, SecretKey,   \* GOOGLE_CLIENT_ID, GOOGLE_CLIENT_SECRET
    Value,
    None

ASSUME VaultNamesAssumption ==
    IdKey # SecretKey /\ Earlier \notin Call /\ None \notin Call \cup {Earlier} \cup Value

Key == {IdKey, SecretKey}
\* is_server_only: kept from GET /env.
ServerOnly == {SecretKey}
Scope == {"env:read", "google:exchange"}
\* secret: the flag; sealed: the stored bytes are a ciphertext.  A ciphertext
\* is bound to its key (the AAD) and no code moves one.
ProductEnvVar == [id: Call \cup {Earlier}, value: Value, secret: BOOLEAN, sealed: BOOLEAN]
ServiceToken == [scopes: SUBSET Scope, revoked: BOOLEAN, expired: BOOLEAN]

VARIABLES
    env,      \* product_env_vars, by key
    token,    \* the product_service_tokens row, or None
    pc, req, got,       \* the calls; what each loaded
    readAt, wroteAt,    \* how many had committed when it read; its place among them
    reader,   \* the requests with the token
    pairs     \* every (client id, secret) the vault has held together

vars == <<env, token, pc, req, got, readAt, wroteAt, reader, pairs>>
tables == <<env, token, pairs>>

Committed == {c \in Call : wroteAt[c] > 0}
Overlap(c, d) == readAt[c] < wroteAt[d] /\ readAt[d] < wroteAt[c]

-----------------------------------------------------------------------------
\* reveal: the flag says how to read the bytes; bytes of the other kind fail.
Readable(row) == row.secret = row.sealed
Pair(e) == IF e[IdKey] # None /\ e[SecretKey] # None
           THEN {<<e[IdKey].value, e[SecretKey].value>>} ELSE {}

Init ==
    /\ env \in [Key -> {r \in ProductEnvVar : r.id = Earlier /\ Readable(r)} \cup {None}]
    /\ token \in [scopes: {Scope}, revoked: {FALSE}, expired: {FALSE}] \cup {None}
    /\ pc = [c \in Call |-> "idle"]
    /\ req = [c \in Call |-> None] /\ got = [c \in Call |-> None]
    /\ readAt = [c \in Call |-> 0] /\ wroteAt = [c \in Call |-> 0]
    /\ reader = [r \in Reader |-> [pc |-> "idle"]]
    /\ pairs = Pair(env)

Goes(c, p, r, g) ==
    /\ pc[c] = "idle" /\ pc' = [pc EXCEPT ![c] = p]
    /\ req' = [req EXCEPT ![c] = r]
    /\ got' = [got EXCEPT ![c] = g]
    /\ readAt' = [readAt EXCEPT ![c] = Cardinality(Committed)]
    /\ UNCHANGED <<tables, wroteAt, reader>>

Leaves(c) ==
    /\ pc' = [pc EXCEPT ![c] = "left"]
    /\ req' = [req EXCEPT ![c] = None]
    /\ got' = [got EXCEPT ![c] = None]
    /\ readAt' = [readAt EXCEPT ![c] = 0]
    /\ UNCHANGED <<tables, wroteAt, reader>>

Commits(c) ==
    /\ pc' = [pc EXCEPT ![c] = "ended"]
    /\ wroteAt' = [wroteAt EXCEPT ![c] = 1 + Cardinality(Committed)]
    /\ pairs' = pairs \cup Pair(env')
    /\ UNCHANGED <<req, got, readAt, reader>>

-----------------------------------------------------------------------------
(* The vault.                                                              *)

\* get_var's SELECT by key, by one who has loaded the row kept: that object
\* stands for the row as long as its primary key does.
Loads(kept, row) == IF kept # None /\ row # None /\ kept.id = row.id THEN kept ELSE row

Set(k, v, s, toggles) == [op |-> "set", key |-> k, value |-> v, secret |-> s, toggles |-> toggles]
PutRead(c, k, v, s) == Goes(c, "write", Set(k, v, s, FALSE), env[k])

\* PATCH with is_secret sets the variable to the plaintext it revealed:
PatchRead(c, k, s) ==
    /\ pc[c] = "idle"
    /\ IF env[k] # None /\ Readable(env[k])
       THEN Goes(c, "again", Set(k, env[k].value, s, TRUE), env[k])
       ELSE Leaves(c)
\* set_var looks for the row once more.
PatchReadAgain(c) ==
    /\ pc[c] = "again" /\ pc' = [pc EXCEPT ![c] = "write"]
    /\ got' = [got EXCEPT ![c] = Loads(@, env[req[c].key])]
    /\ UNCHANGED <<tables, req, readAt, wroteAt, reader>>
Toggles(c) == req[c].toggles

\* Mutant of Written: the flag is written and the bytes only when rotated.
WrittenFlagOnly(c, row) ==
    [row EXCEPT !.value = req[c].value, !.sealed = IF Toggles(c) THEN @ ELSE req[c].secret,
                !.secret = IF req[c].secret = got[c].secret THEN @ ELSE req[c].secret]
\* set_var on the row loaded.  A ciphertext has a fresh nonce and differs.
Written(c, row) ==
    LET old == got[c]  same == ~req[c].secret /\ ~old.sealed /\ req[c].value = old.value IN
    [row EXCEPT !.value = IF same THEN @ ELSE req[c].value,
                !.sealed = IF same THEN @ ELSE req[c].secret,
                !.secret = IF req[c].secret = old.secret THEN @ ELSE req[c].secret]

\* INSERT, unless the unique index has a row; UPDATE of the row loaded, if it
\* is still there.
SetWrite(c) ==
    /\ req[c].op = "set"
    /\ LET row == env[req[c].key] IN
       /\ IF got[c] = None THEN row = None ELSE row # None /\ row.id = got[c].id
       /\ env' = [env EXCEPT ![req[c].key] =
            IF got[c] # None THEN Written(c, row)
            ELSE [id |-> c, value |-> req[c].value, secret |-> req[c].secret, sealed |-> req[c].secret]]
    /\ UNCHANGED token
    /\ Commits(c)

DeleteRead(c, k) ==
    IF env[k] # None THEN Goes(c, "write", [op |-> "delete", key |-> k], env[k]) ELSE pc[c] = "idle" /\ Leaves(c)
DeleteWrite(c) ==
    /\ req[c].op = "delete"
    /\ LET row == env[req[c].key] IN
       env' = IF row # None /\ row.id = got[c].id THEN [env EXCEPT ![req[c].key] = None] ELSE env
    /\ UNCHANGED token
    /\ Commits(c)

-----------------------------------------------------------------------------
(* The service token.                                                      *)

Issue(c, S) ==
    /\ pc[c] = "idle" /\ token = None
    /\ token' = [scopes |-> S, revoked |-> FALSE, expired |-> FALSE]
    /\ pc' = [pc EXCEPT ![c] = "ended"]
    /\ UNCHANGED <<env, pairs, req, got, readAt, wroteAt, reader>>

Revoke(c) ==
    /\ pc[c] = "idle" /\ token # None
    /\ token' = [token EXCEPT !.revoked = TRUE]
    /\ pc' = [pc EXCEPT ![c] = "ended"]
    /\ UNCHANGED <<env, pairs, req, got, readAt, wroteAt, reader>>

\* expires_at is reached.
TokenExpires ==
    /\ token # None /\ ~token.expired /\ \E r \in Reader : reader[r].pc \in {"idle", "use", "list", "find", "found"}
    /\ token' = [token EXCEPT !.expired = TRUE]
    /\ UNCHANGED <<env, pairs, pc, req, got, readAt, wroteAt, reader>>

-----------------------------------------------------------------------------
(* Requests with the token.                                                *)

To(r, v) == reader' = [reader EXCEPT ![r] = v] /\ UNCHANGED <<env, pairs, pc, req, got, readAt, wroteAt>>

Live(t) == t # None /\ ~t.revoked /\ ~t.expired
Authenticate(r, s) ==
    /\ reader[r].pc = "idle"
    /\ UNCHANGED token
    /\ To(r, IF Live(token) /\ s \in token.scopes
             THEN [pc |-> "use", scope |-> s, loaded |-> token] ELSE [pc |-> "refused"])

\* Mutant of Used: the row is saved as it was loaded.
UsedWhole(r) == reader[r].loaded
\* last_used_at and last_used_ip, which nothing reads, and no other column.
Used(r) == token
Use(r) ==
    /\ reader[r].pc = "use"
    /\ token' = Used(r)
    /\ To(r, [reader[r] EXCEPT !.pc = "list"])

\* GET /env: one statement; a row that cannot be revealed fails the request.
ListEnv(r) ==
    /\ reader[r].pc = "list" /\ reader[r].scope = "env:read"
    /\ UNCHANGED token
    /\ LET shown == {k \in Key \ ServerOnly : env[k] # None} IN
       To(r, IF \A k \in shown : Readable(env[k])
             THEN [pc |-> "ended", env |-> [k \in shown |-> env[k].value]] ELSE [pc |-> "failed"])

\* POST /integrations/google/exchange: list_vars loads every row, and what is
\* loaded is not loaded again.
ListGoogle(r, id) ==
    /\ reader[r].pc = "list" /\ reader[r].scope = "google:exchange"
    /\ UNCHANGED token
    /\ To(r, IF env[IdKey] # None THEN [pc |-> "find", id |-> id, rows |-> env] ELSE [pc |-> "refused"])

\* Mutant of Again: the rows are not kept from the listing.
AgainAnew(r, k) == env[k]
\* The keys are looked up again, one after the other.
Again(r, k) == Loads(reader[r].rows[k], env[k])
SameRow(r, k, row) == reader[r].rows[k] # None /\ row.id = reader[r].rows[k].id
FindId(r) ==
    /\ reader[r].pc = "find" /\ UNCHANGED token
    /\ LET row == Again(r, IdKey) IN
       To(r, IF row # None /\ Readable(row) /\ row.value = reader[r].id
             THEN [pc |-> "found", id |-> row.value, rows |-> reader[r].rows, kept |-> SameRow(r, IdKey, row)]
             ELSE [pc |-> "refused"])
FindSecret(r) ==
    /\ reader[r].pc = "found" /\ UNCHANGED token
    /\ LET row == Again(r, SecretKey) IN
       To(r, IF row # None /\ Readable(row)
             THEN [pc |-> "sent", id |-> reader[r].id, secret |-> row.value,
                   kept |-> reader[r].kept /\ SameRow(r, SecretKey, row)]
             ELSE [pc |-> "refused"])

\* exchange_with_google: no answer and a 5xx, and a body without a token, are
\* the platform's 503; whatever else Google refuses is its 401.
Google == {"nothing", "4xx", "5xx", "junk", "tokens"}
Outcome(a) == IF a = "tokens" THEN "ended" ELSE IF a = "4xx" THEN "unauthorized" ELSE "unavailable"
Exchange(r) ==
    /\ reader[r].pc = "sent" /\ UNCHANGED token
    /\ \E a \in Google : To(r, [reader[r] EXCEPT !.pc = Outcome(a)])

Next ==
    \/ \E c \in Call :
        \/ \E k \in Key, v \in Value, s \in BOOLEAN : PutRead(c, k, v, s)
        \/ \E k \in Key, s \in BOOLEAN : PatchRead(c, k, s)
        \/ \E k \in Key : DeleteRead(c, k)
        \/ \E S \in SUBSET Scope : Issue(c, S)
        \/ Revoke(c)
        \/ PatchReadAgain(c)
        \/ pc[c] = "write" /\ (SetWrite(c) \/ DeleteWrite(c))
        \/ pc[c] \in {"again", "write"} /\ Leaves(c)
    \/ TokenExpires
    \/ \E r \in Reader :
        \/ \E s \in Scope : Authenticate(r, s)
        \/ Use(r) \/ ListEnv(r) \/ (\E id \in Value : ListGoogle(r, id))
        \/ FindId(r) \/ FindSecret(r) \/ Exchange(r)
Spec == Init /\ [][Next]_vars

-----------------------------------------------------------------------------
(* Properties.                                                             *)

TypeOK ==
    /\ env \in [Key -> ProductEnvVar \cup {None}]
    /\ token \in ServiceToken \cup {None}
    /\ pc \in [Call -> {"idle", "again", "write", "ended", "left"}]
    /\ readAt \in [Call -> Nat] /\ wroteAt \in [Call -> Nat]
    /\ \A r \in Reader : reader[r].pc \in {"idle", "use", "list", "find", "found", "sent", "ended", "failed",
                                        "refused", "unauthorized", "unavailable"}
    /\ pairs \subseteq Value \X Value

Sets(k) == {c \in Committed : req[c].op = "set" /\ req[c].key = k}
OverlappedIn(C) == \E c, d \in C : c # d /\ Overlap(c, d)

\* env_admin.py:149 re-encodes "so the row stays self-consistent": the flag
\* says what the bytes are, unless two writes of the variable overlapped, each
\* writing only the column that differed for it.  Such a row fails every
\* GET /env of the product.
FailsOnlyByOverlap ==
    /\ \A k \in Key : env[k] # None /\ ~Readable(env[k]) => OverlappedIn(Sets(k))
    /\ \A r \in Reader : reader[r].pc = "failed" => \E k \in Key : OverlappedIn(Sets(k))

\* env_var.py set_var: a variable has the value it was last rotated to, unless
\* a write that overlapped that rotation wrote its older value back.
RotationLostOnlyByOverlap ==
    \A k \in Key : env[k] # None =>
        \A c \in Sets(k) :
            (~Toggles(c) /\ \A d \in Sets(k) : Toggles(d) \/ wroteAt[d] <= wroteAt[c]) =>
                \/ env[k].value = req[c].value
                \/ \E d \in Sets(k) \ {c} : Overlap(c, d)

\* google_oauth.py _find_client_secret: however both variables are rotated
\* meanwhile, the secret sent to Google was in the vault together with the
\* client's id, unless one of the two was created after the listing.
SecretGoesWithItsId ==
    \A r \in Reader : "secret" \in DOMAIN reader[r] /\ reader[r].kept =>
        <<reader[r].id, reader[r].secret>> \in pairs

\* service_token.py revoke, "irreversible": whatever uses of the token overlap
\* the revocation, it stays revoked.
RevokedForGood == [][token # None /\ token.revoked => token'.revoked]_vars

\* env_var.py set_var: a row can be read and has the value it was rotated to,
\* but for writes that overlap.
VaultHolds == TypeOK /\ FailsOnlyByOverlap /\ RotationLostOnlyByOverlap
=============================================================================
