----------------------------- MODULE SdkSession -----------------------------
(***************************************************************************)
(* One client: of the SDKs (plynth_sdk/client.py and async_client.py,      *)
(* typescript/src/http.ts), or an app that logs out come what may          *)
(* (admin-electron's main process, plynth_cli).  Its calls share a token   *)
(* store; each meets a 401 with one refresh and one retry, over a          *)
(* transport that may lose a request or its answer.  The platform's side   *)
(* of a refresh is app/services/auth.py: it reads the token, then rotates. *)
(*                                                                         *)
(* A call is suspended at every request it waits for; in between, other    *)
(* tasks (async_client.py, http.ts, client.ts), threads (client.py) or     *)
(* processes (plynth_cli) take steps.                                      *)
(***************************************************************************)
EXTENDS Naturals, FiniteSets

CONSTANTS
    Call,       \* calls of the client's methods
    GodMode,    \* an admin token and a product slug are configured
    MaxPair     \* pairs of tokens the platform issues; a call needs one at most

ASSUME SdkAssumption ==
    IsFiniteSet(Call) /\ GodMode \in BOOLEAN /\ MaxPair \in Nat /\ MaxPair > Cardinality(Call)

\* Pairs (access token, refresh token) are numbered as they are issued; 0 is
\* no pair.
Pair == 1..MaxPair
Kind == {"user", "service", "login", "logout"}
Identity == {"user", "admin", "service", "nobody"}
Refreshing == {"refresh", "rotate", "rotated", "refused"}
Where == {"idle", "build", "sent", "answered", "ended"} \cup Refreshing

VARIABLES
    app,       \* the client is an app, of whose calls "service" are to /admin/
    store,     \* the TokenStore: a pair or 0
    last,      \* the last pair it had
    issued,    \* how many pairs there are
    origin,    \* the login a pair goes back to
    live, fresh,  \* pairs whose refresh token, whose access token is good
    pc, call,  \* the calls
    met,       \* the calls that could touch the store while this one ran
    emptied,   \* calls that had refreshed and were to be retried when the store was emptied
    cut        \* a refresh got no answer, or one that is no verdict on its token

vars == <<app, store, last, issued, origin, live, fresh, pc, call, met, emptied, cut>>
platform == <<issued, origin, live, fresh>>

None == [kind |-> "none"]
Running(c) == pc[c] \notin {"idle", "ended"}
Touches(c) == pc[c] \in Refreshing \/ (Running(c) /\ call[c].kind \in {"login", "logout"})

Init ==
    /\ app \in BOOLEAN
    /\ store \in {0, 1} /\ last = store
    /\ issued = store
    /\ origin = [n \in Pair |-> IF n = store THEN n ELSE 0]
    /\ live \in SUBSET (1..issued) /\ fresh \in SUBSET (1..issued)
    /\ pc = [c \in Call |-> "idle"] /\ call = [c \in Call |-> None]
    /\ met = [c \in Call |-> {}] /\ emptied = {}
    /\ cut = FALSE

\* c goes to p as r.
To(c, p, r) == pc' = [pc EXCEPT ![c] = p] /\ call' = [call EXCEPT ![c] = r] /\ UNCHANGED app
Stores(n) == store' = n /\ last' = IF n = 0 THEN last ELSE n
Issues(login, keep) ==
    /\ issued < MaxPair
    /\ issued' = issued + 1
    /\ origin' = [origin EXCEPT ![issued + 1] = IF login = 0 THEN issued + 1 ELSE login]
    /\ live' = keep \cup {issued + 1}
    /\ fresh' = fresh \cup {issued + 1}

-----------------------------------------------------------------------------
(* The client.                                                             *)

\* build_headers.
Headers(k) ==
    CASE k = "service" -> [as |-> "service", pair |-> 0]
      [] k = "login"   -> [as |-> "nobody", pair |-> 0]
      [] store # 0     -> [as |-> "user", pair |-> store]
      [] OTHER         -> [as |-> IF GodMode THEN "admin" ELSE "nobody", pair |-> 0]

\* logout reads the token it names; an app without a session does not call.
Begin(c, k) ==
    /\ pc[c] = "idle"
    /\ k = "logout" /\ app => store # 0
    /\ To(c, "build", [kind |-> k, as |-> "none", first |-> "none", pair |-> 0, result |-> "none",
                       body |-> IF k = "logout" THEN store ELSE 0, retried |-> FALSE, upto |-> 0])
    /\ UNCHANGED <<store, last, platform, cut>>

\* A request goes out as h.
Sends(c, h) ==
    /\ pc[c] = "build"
    /\ To(c, "sent", [call[c] EXCEPT !.as = h.as, !.pair = h.pair,
                                     !.first = IF @ = "none" THEN h.as ELSE @])
    /\ UNCHANGED <<store, last, platform, cut>>
\* Mutant of Build: a retry is built without the tokens.
BuildBare(c) ==
    Sends(c, IF call[c].retried THEN [as |-> IF GodMode THEN "admin" ELSE "nobody", pair |-> 0]
             ELSE Headers(call[c].kind))
\* _send; and again after a refresh: new headers, the same body.
Build(c) == Sends(c, Headers(call[c].kind))

Ends(c, r) == To(c, "ended", [call[c] EXCEPT !.result = r, !.upto = issued])

\* A 401, a call that carried (or could have carried) a session, a session.
Retries(c) ==
    call[c].result = "unauthorized" /\ call[c].kind # "login" /\ ~call[c].retried /\ store # 0

\* An app's logout swallows every error and drops the session.
DropsAnyway(c) == app /\ call[c].kind = "logout"
Failed(c) == IF DropsAnyway(c) THEN Stores(0) ELSE UNCHANGED <<store, last>>
Succeeded(c) ==
    CASE call[c].kind = "login"  -> Stores(call[c].pair)
      [] call[c].kind = "logout" -> Stores(0)
      [] OTHER                   -> UNCHANGED <<store, last>>

\* The answer: a refresh, the end, or the token store brought up to date.
Receive(c) ==
    /\ pc[c] = "answered"
    /\ \/ /\ Retries(c)
          /\ To(c, "refresh", [call[c] EXCEPT !.pair = store, !.retried = TRUE])
          /\ UNCHANGED <<store, last>>
       \/ /\ ~Retries(c) /\ call[c].result # "ok"
          /\ Ends(c, call[c].result) /\ Failed(c)
       \/ /\ call[c].result = "ok"
          /\ Ends(c, "ok") /\ Succeeded(c)
    /\ UNCHANGED <<platform, cut>>

\* Mutant of Fails: a transport error ends the session.
FailsClears(c) ==
    /\ pc[c] \in {"sent", "answered"}
    /\ Ends(c, "network") /\ Stores(0)
    /\ UNCHANGED <<platform, cut>>
\* PlynthNetworkError: the request, or its answer, is lost.
Fails(c) ==
    /\ pc[c] \in {"sent", "answered"}
    /\ Ends(c, "network") /\ Failed(c)
    /\ UNCHANGED <<platform, cut>>

\* Mutant of Clears: a refused refresh is sent once more.
ClearsNever(c) ==
    /\ pc[c] = "refused"
    /\ To(c, "refresh", call[c])
    /\ UNCHANGED <<store, last, platform, cut>>
\* _refresh with anything but a 200: the store is cleared, whatever it holds.
Clears(c) ==
    /\ pc[c] = "refused"
    /\ Stores(0)
    /\ IF DropsAnyway(c) THEN To(c, "answered", call[c]) ELSE Ends(c, "unauthorized")
    /\ UNCHANGED <<platform, cut>>
\* _refresh with a 200.
Saves(c) ==
    /\ pc[c] = "rotated"
    /\ Stores(call[c].pair)
    /\ To(c, "build", call[c])
    /\ UNCHANGED <<platform, cut>>

-----------------------------------------------------------------------------
(* The platform.                                                           *)

\* A service token may have been revoked; a login may be refused; a logout by
\* the platform admin, who is no row of users, fails on the audit row's key.
Answers(c) ==
    CASE call[c].as = "user"  -> {IF call[c].pair \in fresh THEN "ok" ELSE "unauthorized"}
      [] call[c].as = "admin" -> {IF call[c].kind = "logout" THEN "conflict" ELSE "ok"}
      [] call[c].kind \in {"logout", "user"} -> {"unauthorized"}
      [] OTHER                -> {"ok", "unauthorized"}

\* Mutant of Revokes: logout leaves the token to expire.
RevokesNone(c) == live
\* auth.py logout: the token in the body.
Revokes(c) == live \ {call[c].body}

Serve(c) ==
    /\ pc[c] = "sent"
    /\ \E r \in Answers(c) :
       IF r = "ok" /\ call[c].kind = "login"
       THEN /\ Issues(0, live)
            /\ To(c, "answered", [call[c] EXCEPT !.result = r, !.pair = issued + 1])
       ELSE /\ To(c, "answered", [call[c] EXCEPT !.result = r])
            /\ live' = IF r = "ok" /\ call[c].kind = "logout" THEN Revokes(c) ELSE live
            /\ UNCHANGED <<issued, origin, fresh>>
    /\ UNCHANGED <<store, last, cut>>

\* auth.py refresh: the token is looked up,
CheckRefresh(c) ==
    /\ pc[c] = "refresh"
    /\ To(c, IF call[c].pair \in live THEN "rotate" ELSE "refused", call[c])
    /\ UNCHANGED <<store, last, platform, cut>>
\* then replaced, without a second look.
Rotate(c) ==
    /\ pc[c] = "rotate"
    /\ Issues(origin[call[c].pair], live \ {call[c].pair})
    /\ To(c, "rotated", [call[c] EXCEPT !.pair = issued + 1])
    /\ UNCHANGED <<store, last, cut>>
\* A refresh without a verdict: no connection, a 429, a 5xx, a lost answer.
CutRefresh(c) ==
    /\ pc[c] \in {"refresh", "rotate", "rotated"}
    /\ To(c, "refused", call[c])
    /\ cut' = TRUE
    /\ UNCHANGED <<store, last, platform>>

\* An access token expires; a refresh token does, or is revoked elsewhere.
Expire(n) ==
    /\ n \in fresh /\ fresh' = fresh \ {n}
    /\ UNCHANGED <<app, store, last, issued, origin, live, pc, call, cut>>
Lapse(n) ==
    /\ n \in live /\ live' = live \ {n}
    /\ UNCHANGED <<app, store, last, issued, origin, fresh, pc, call, cut>>

Goes(c) == Receive(c) \/ Clears(c) \/ Saves(c) \/ Build(c) \/ Serve(c) \/ CheckRefresh(c) \/ Rotate(c)
Step(c) == (\E k \in Kind : Begin(c, k)) \/ Goes(c) \/ Fails(c) \/ CutRefresh(c)
Meets == met' = [c \in Call |-> met[c] \cup
                    IF Running(c)' THEN {d \in Call \ {c} : Touches(d)'} ELSE {}]
\* A call that builds its headers empties nothing: another one does.
Empties == emptied' = emptied \cup
              IF store # 0 /\ store' = 0 THEN {c \in Call : pc[c] = "build" /\ call[c].retried} ELSE {}
Records == Meets /\ Empties
Next ==
    /\ \/ \E c \in Call : Step(c)
       \/ \E n \in Pair : Expire(n) \/ Lapse(n)
    /\ Records

\* A task that can run is scheduled, and a request that is not cut off is
\* answered: neither client waits for anything else.
Spec ==
    /\ Init /\ [][Next]_vars
    /\ \A c \in Call : WF_vars(Goes(c) /\ Records)

-----------------------------------------------------------------------------
(* Properties.                                                             *)

TypeOK ==
    /\ app \in BOOLEAN
    /\ store \in 0..MaxPair /\ last \in 0..issued /\ issued \in 0..MaxPair
    /\ origin \in [Pair -> 0..MaxPair]
    /\ live \subseteq 1..issued /\ fresh \subseteq 1..issued
    /\ pc \in [Call -> Where]
    /\ \A c \in Call : pc[c] # "idle" =>
          call[c].kind \in Kind /\ call[c].as \in Identity \cup {"none"} /\ call[c].pair \in 0..issued
    /\ met \in [Call -> SUBSET Call] /\ emptied \subseteq Call /\ cut \in BOOLEAN

Overlapped == \E c \in Call : met[c] # {}
Retried(c) == pc[c] # "idle" /\ call[c].retried
\* Two calls that ran at once both refreshed: two pairs may go back to one.
Forked == \E c, d \in Call : d \in met[c] /\ Retried(c) /\ Retried(d)
LoggedOut(c) == pc[c] = "ended" /\ call[c].kind = "logout" /\ (app \/ call[c].result = "ok")

\* client.py _refresh, INTEGRATION.md 3.4: a client that never logged out
\* finds itself without a session the platform would still renew only because
\* two calls overlapped, or because a refresh was cut off.
SessionLostOnlyByOverlap ==
    store = 0 /\ last \in live =>
        (\E c \in Call : LoggedOut(c)) \/ Overlapped \/ cut

\* _http.py build_headers: a call that went out in the user's name is retried
\* as platform admin only if, between its refresh and its retry, another call
\* emptied the store.
RetryKeepsIdentity ==
    \A c \in Call : pc[c] # "idle" /\ call[c].first = "user" /\ call[c].as = "admin" => c \in emptied

\* resources/sync.py logout: no token of the session it names is good any
\* longer, unless the logout itself had to be retried (its body names the token
\* its own refresh replaced) or overlapped a call that could touch the store,
\* or two calls that ran at once had both refreshed, or a refresh was cut off.
LogoutEndsSessionUnlessRetried ==
    \A c \in Call : LoggedOut(c) /\ call[c].result = "ok" /\ call[c].body # 0 =>
        \A n \in live : origin[n] = origin[call[c].body] =>
            call[c].retried \/ met[c] # {} \/ Forked \/ cut

\* resources/sync.py logout: the client stays without a session until a later
\* login, unless another call was refreshing, logging in or logging out while
\* the logout ran.
LoggedOutUnlessOverlapped ==
    \A c \in Call : LoggedOut(c) =>
        store = 0 \/ origin[store] > call[c].upto \/ met[c] # {}

\* client.py _send: whatever the tokens do, a call is over in the end.
CallsEnd == \A c \in Call : Running(c) ~> ~Running(c)

\* client.py: a session is kept for as long as the platform would renew it.
SessionHolds == TypeOK /\ SessionLostOnlyByOverlap

\* resources/sync.py logout: on the platform and in the store, the session is
\* over.
LogoutHolds == LogoutEndsSessionUnlessRetried /\ LoggedOutUnlessOverlapped
=============================================================================
