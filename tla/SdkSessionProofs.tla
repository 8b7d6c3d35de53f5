-------------------------- MODULE SdkSessionProofs --------------------------
(***************************************************************************)
(* Proofs about SdkSession, for any number of calls and pairs: a client    *)
(* loses a good session, retries in another name, or keeps a session it    *)
(* logged out of only where the calls that do so overlap, or a refresh is  *)
(* cut off.                                                                *)
(*                                                                         *)
(* The argument: a call that touches the store meets every call that runs  *)
(* (RunnersMeet), so what a call carries that met nobody is what the store *)
(* holds; and a session has one good pair (SessionsAreSole) until two      *)
(* calls that run at once both refresh.                                    *)
(***************************************************************************)
EXTENDS SdkSession, FiniteSetTheorems, TLAPS

Result == {"none", "ok", "unauthorized", "conflict", "network"}
Request == [kind: Kind, as: Identity \cup {"none"}, first: Identity \cup {"none"}, pair: Nat,
            result: Result, body: Nat, retried: BOOLEAN, upto: Nat]

LoggedIn(c) == pc[c] = "answered" /\ call[c].kind = "login" /\ call[c].result = "ok"

\* What a call's record says at each of its places.
CallFits(c) ==
    /\ pc[c] # "idle" => /\ call[c] \in Request
                         /\ call[c].pair <= issued /\ call[c].body <= issued /\ call[c].upto <= issued
    /\ pc[c] \in Refreshing => call[c].kind # "login" /\ call[c].pair # 0 /\ call[c].retried
    /\ LoggedIn(c) => call[c].pair # 0
    /\ pc[c] = "build" /\ ~call[c].retried => call[c].first = "none"
    /\ pc[c] = "ended" => call[c].body <= call[c].upto

Typed == TypeOK /\ call \in [Call -> Request \cup {None}] /\ \A c \in Call : CallFits(c)

StoreIsLast == store # 0 => last = store
LoginsComeFirst == \A n \in 1..issued : origin[n] \in 1..n
RunnersMeet == \A c, d \in Call : c # d /\ Running(c) /\ Touches(d) => d \in met[c]

\* Nothing that could explain the loss of a session has happened.
Quiet == ~Overlapped /\ ~cut

RefreshesHeld ==
    Quiet => \A c \in Call :
        /\ pc[c] \in {"refresh", "rotate", "refused"} => call[c].pair = store
        /\ pc[c] = "refused" => store \notin live

\* A retry finds the session it renewed, unless another call emptied the store.
RetriesHaveSession ==
    \A c \in Call : pc[c] = "build" /\ call[c].retried => store # 0 \/ c \in emptied

\* A session that was renewed twice at once may have two good pairs.
Unforked == ~Forked /\ ~cut
\* Only n is good of the session n belongs to.
Sole(n) == \A m \in live : origin[m] = origin[n] => m = n
SessionsAreSole ==
    Unforked =>
        /\ \A n \in live : Sole(n)
        /\ store # 0 => Sole(store) \/ \E c \in Call : pc[c] = "rotated"
        /\ \A c \in Call : pc[c] \in {"rotate", "rotated"} => Sole(call[c].pair)

\* Nobody has the session of a login that is not yet in the store.
LoginsAreNew ==
    \A d \in Call : LoggedIn(d) =>
        /\ Sole(call[d].pair)
        /\ store # 0 => origin[store] # origin[call[d].pair]
        /\ \A e \in Call \ {d} : pc[e] \in Refreshing \/ LoggedIn(e) =>
              origin[call[e].pair] # origin[call[d].pair]

\* Until it is answered, a logout that ran alone and is not a retry names the
\* session in the store; from then on none of its tokens is good.
LogoutsName ==
    Unforked => \A c \in Call :
        pc[c] # "idle" /\ call[c].kind = "logout" /\ call[c].body # 0 /\ ~call[c].retried /\ met[c] = {} =>
            /\ pc[c] \in {"build", "sent"} => call[c].body = store
            /\ pc[c] \in {"answered", "ended"} /\ call[c].result = "ok" =>
                  \A n \in live : origin[n] # origin[call[c].body]

\* What comes after a logout goes back to a later login.
LaterSessions ==
    \A c \in Call : LoggedOut(c) /\ met[c] = {} =>
        /\ store # 0 => origin[store] > call[c].upto
        /\ \A d \in Call : pc[d] \in Refreshing \/ LoggedIn(d) => origin[call[d].pair] > call[c].upto

IInv ==
    /\ Typed /\ StoreIsLast /\ LoginsComeFirst /\ RunnersMeet
    /\ RefreshesHeld /\ SessionLostOnlyByOverlap
    /\ RetriesHaveSession /\ RetryKeepsIdentity
    /\ SessionsAreSole /\ LoginsAreNew /\ LogoutsName /\ LaterSessions

-----------------------------------------------------------------------------
\* Before any call the store has the only session there is.
LEMMA InitIInv == Init => IInv
<1> SUFFICES ASSUME Init PROVE IInv
    OBVIOUS
<1> USE SdkAssumption
<1>1. /\ pc = [c \in Call |-> "idle"] /\ met = [c \in Call |-> {}] /\ emptied = {} /\ call = [c \in Call |-> None]
      /\ store \in {0, 1} /\ last = store /\ issued = store
      /\ origin = [n \in Pair |-> IF n = store THEN n ELSE 0] /\ live \in SUBSET (1..issued)
    BY DEF Init
<1>2. MaxPair \in Nat /\ MaxPair >= 1
    BY FS_CardinalityType
<1>3. Typed
    <2>1. TypeOK
        <3>1. store \in 0..MaxPair /\ last \in 0..issued /\ issued \in 0..MaxPair
            BY <1>1, <1>2
        <3>2. origin \in [Pair -> 0..MaxPair]
            BY <1>1, <1>2 DEF Pair
        <3>3. /\ pc \in [Call -> Where] /\ met \in [Call -> SUBSET Call] /\ emptied \subseteq Call
              /\ \A c \in Call : pc[c] = "idle"
            BY <1>1 DEF Where
        <3> QED BY <3>1, <3>2, <3>3 DEF Init, TypeOK
    <2>2. \A c \in Call : CallFits(c)
        BY <1>1 DEF CallFits, Refreshing, LoggedIn
    <2> QED BY <1>1, <2>1, <2>2 DEF Typed
<1>4. StoreIsLast /\ RunnersMeet
    BY <1>1 DEF StoreIsLast, RunnersMeet, Running
<1>5. LoginsComeFirst
    BY <1>1, <1>2 DEF LoginsComeFirst, Pair
<1>6. SessionLostOnlyByOverlap
    BY <1>1 DEF SessionLostOnlyByOverlap
<1>7. RefreshesHeld /\ RetriesHaveSession /\ RetryKeepsIdentity /\ LogoutsName
    BY <1>1 DEF RefreshesHeld, RetriesHaveSession, RetryKeepsIdentity, LogoutsName
<1>8. SessionsAreSole /\ LoginsAreNew
    <2>1. \A n \in {0, 1} : store = n => \A m \in live : m = n
        BY <1>1
    <2>2. \A n \in live : Sole(n)
        BY <1>1, <2>1 DEF Sole
    <2>3. store # 0 => Sole(store)
        BY <1>1, <2>1 DEF Sole
    <2> QED BY <1>1, <2>2, <2>3 DEF SessionsAreSole, LoginsAreNew, LoggedIn
<1>9. LaterSessions
    BY <1>1 DEF LaterSessions, LoggedOut
<1> QED BY <1>3, <1>4, <1>5, <1>6, <1>7, <1>8, <1>9 DEF IInv

-----------------------------------------------------------------------------
(* What any step does.                                                     *)

LEMMA MeetsKeep ==
    ASSUME Typed, Records
    PROVE  /\ RunnersMeet' /\ met' \in [Call -> SUBSET Call]
           /\ emptied' \subseteq Call /\ emptied \subseteq emptied'
           /\ \A c \in Call : met[c] \subseteq met'[c] /\ (~Running(c)' => met'[c] = met[c])
           /\ Overlapped => Overlapped'
<1>1. \A c \in Call : met'[c] = met[c] \cup IF Running(c)' THEN {d \in Call \ {c} : Touches(d)'} ELSE {}
    BY DEF Records, Meets
<1>2. RunnersMeet'
    BY <1>1 DEF RunnersMeet
<1>3. met' \in [Call -> SUBSET Call]
    <2>1. met \in [Call -> SUBSET Call]
        BY DEF Typed, TypeOK
    <2> QED BY <2>1 DEF Records, Meets
<1>4. \A c \in Call : met[c] \subseteq met'[c] /\ (~Running(c)' => met'[c] = met[c])
    BY <1>1
<1>5. Overlapped => Overlapped'
    BY <1>4 DEF Overlapped
<1>6. emptied' \subseteq Call /\ emptied \subseteq emptied'
    BY DEF Records, Empties, Typed, TypeOK
<1> QED BY <1>2, <1>3, <1>4, <1>5, <1>6

LEMMA ToFrame ==
    ASSUME Typed, NEW c \in Call, NEW p \in Where, NEW r, To(c, p, r)
    PROVE  /\ pc'[c] = p /\ call'[c] = r /\ app' = app
           /\ \A d \in Call \ {c} : pc'[d] = pc[d] /\ call'[d] = call[d]
           /\ pc' \in [Call -> Where]
           /\ r \in Request => call' \in [Call -> Request \cup {None}]
<1>1. pc \in [Call -> Where] /\ call \in [Call -> Request \cup {None}]
    BY DEF Typed, TypeOK
<1> QED BY <1>1 DEF To

\* The platform's part of a step: nothing, tokens withdrawn, or one pair more.
Withdraws == issued' = issued /\ origin' = origin /\ live' \subseteq live /\ fresh' \subseteq fresh
Mints(login, keep) ==
    /\ issued < MaxPair /\ issued' = issued + 1
    /\ origin' = [origin EXCEPT ![issued + 1] = login]
    /\ live' = keep \cup {issued + 1} /\ fresh' = fresh \cup {issued + 1}

\* A call's record after a step is typed when its fields are.
LEMMA ToTyped ==
    ASSUME Typed, NEW c \in Call, NEW p \in Where \ {"idle"}, NEW r \in Request, To(c, p, r), Records,
           LoginsComeFirst, cut' \in BOOLEAN,
           \/ Withdraws
           \/ \E keep \in SUBSET live : Mints(issued + 1, keep)
           \/ \E n \in 1..issued, keep \in SUBSET live : Mints(origin[n], keep),
           store' \in 0..issued', last' \in 0..issued', r.pair <= issued', r.body <= issued', r.upto <= issued',
           CallFits(c)'
    PROVE  /\ Typed' /\ LoginsComeFirst' /\ issued <= issued'
           /\ \A n \in 1..issued : origin'[n] = origin[n]
           /\ \A n \in live' : n \in live \/ (n = issued + 1 /\ issued' = issued + 1)
<1>1. MaxPair \in Nat /\ issued \in 0..MaxPair /\ origin \in [Pair -> 0..MaxPair]
      /\ live \subseteq 1..issued /\ fresh \subseteq 1..issued
    BY SdkAssumption DEF Typed, TypeOK
<1>2. /\ issued <= issued' /\ issued' \in 0..MaxPair
      /\ \A n \in live' : n \in live \/ (n = issued + 1 /\ issued' = issued + 1)
      /\ live' \subseteq 1..issued' /\ fresh' \subseteq 1..issued'
    <2>1. CASE Withdraws
        BY <1>1, <2>1 DEF Withdraws
    <2>2. ASSUME NEW keep \in SUBSET live, NEW n, Mints(n, keep)
          PROVE  /\ issued < MaxPair /\ issued' = issued + 1
                 /\ live' = keep \cup {issued + 1} /\ fresh' = fresh \cup {issued + 1}
        BY <2>2 DEF Mints
    <2>3. CASE ~Withdraws
        <3>1. PICK keep \in SUBSET live : /\ issued < MaxPair /\ issued' = issued + 1
                 /\ live' = keep \cup {issued + 1} /\ fresh' = fresh \cup {issued + 1}
            BY <2>2, <2>3
        <3> QED BY <1>1, <3>1
    <2> QED BY <2>1, <2>3
<1>3. /\ \A n \in 1..issued : origin'[n] = origin[n]
      /\ issued' # issued => origin'[issued + 1] \in 1..(issued + 1)
      /\ origin' \in [Pair -> 0..MaxPair]
    <2>1. CASE Withdraws
        BY <1>1, <2>1 DEF Withdraws
    <2>2. CASE \E keep \in SUBSET live : Mints(issued + 1, keep)
        BY <1>1, <2>2 DEF Mints, Pair
    <2>3. CASE \E n \in 1..issued, keep \in SUBSET live : Mints(origin[n], keep)
        BY <1>1, <2>3 DEF Mints, Pair, LoginsComeFirst
    <2> QED BY <2>1, <2>2, <2>3
<1>4. LoginsComeFirst'
    <2>1. issued' = issued \/ issued' = issued + 1
        BY <1>1 DEF Withdraws, Mints
    <2> QED BY <1>1, <1>3, <2>1 DEF LoginsComeFirst
<1>5. /\ pc'[c] = p /\ call'[c] = r /\ app' = app
      /\ \A d \in Call \ {c} : pc'[d] = pc[d] /\ call'[d] = call[d]
      /\ pc' \in [Call -> Where] /\ call' \in [Call -> Request \cup {None}]
    BY ToFrame
<1>6. ASSUME NEW d \in Call PROVE CallFits(d)'
    <2>1. CASE d # c
        <3>1. CallFits(d) /\ pc'[d] = pc[d] /\ call'[d] = call[d]
            BY <1>5, <2>1 DEF Typed
        <3>2. pc[d] # "idle" => call[d].pair <= issued' /\ call[d].body <= issued' /\ call[d].upto <= issued'
            BY <1>1, <1>2, <3>1 DEF CallFits, Request
        <3> QED BY <3>1, <3>2 DEF CallFits, LoggedIn
    <2> QED BY <2>1
<1>7. \A d \in Call : pc'[d] # "idle" =>
          call'[d].kind \in Kind /\ call'[d].as \in Identity \cup {"none"} /\ call'[d].pair \in 0..issued'
    <2>1. \A d \in Call : pc'[d] # "idle" => call'[d] \in Request /\ call'[d].pair <= issued'
        BY <1>6 DEF CallFits
    <2> QED BY <1>2, <2>1 DEF Request
<1>8. TypeOK'
    <2>1. app' \in BOOLEAN /\ met' \in [Call -> SUBSET Call] /\ emptied' \subseteq Call
        BY <1>5, MeetsKeep DEF Typed, TypeOK
    <2>2. store' \in 0..MaxPair
        BY <1>1, <1>2
    <2> QED BY <1>2, <1>3, <1>5, <1>7, <2>1, <2>2 DEF TypeOK
<1> QED BY <1>2, <1>3, <1>4, <1>5, <1>6, <1>8 DEF Typed

-----------------------------------------------------------------------------
(* What a step of a call may do, in one formula.                           *)

Keeps == store' = store /\ last' = last
Takes(c) == (pc[c] = "rotated" \/ LoggedIn(c)) /\ store' = call[c].pair /\ last' = store'
Drops(c) == store' = 0 /\ last' = last /\ (pc[c] = "refused" \/ LoggedOut(c)')
Summary(c) ==
    /\ Typed' /\ LoginsComeFirst' /\ issued <= issued'
    /\ \A n \in 1..issued : origin'[n] = origin[n]
    /\ \A n \in live' : n \in live \/ (n = issued + 1 /\ issued' = issued + 1)
    /\ app' = app /\ (cut => cut')
    /\ \A d \in Call \ {c} : pc'[d] = pc[d] /\ call'[d] = call[d]
    /\ pc[c] # "ended" /\ pc'[c] # "idle" /\ (pc[c] = "idle" => pc'[c] = "build")
    /\ Keeps \/ Takes(c) \/ Drops(c)

LEMMA BeginDoes ==
    ASSUME IInv, NEW c \in Call, NEW k \in Kind, Begin(c, k), Records
    PROVE  Summary(c)
<1>1. TypeOK /\ Typed /\ LoginsComeFirst
    BY DEF IInv, Typed
<1>2. PICK r : /\ r = [kind |-> k, as |-> "none", first |-> "none", pair |-> 0, result |-> "none",
                       body |-> IF k = "logout" THEN store ELSE 0, retried |-> FALSE, upto |-> 0]
               /\ To(c, "build", r)
    BY DEF Begin
<1>3. store \in 0..issued
    BY <1>1 DEF TypeOK, IInv, StoreIsLast
<1>4. r \in Request /\ r.pair <= issued /\ r.body <= issued /\ r.upto <= issued
    BY <1>1, <1>2, <1>3 DEF Request, Result, TypeOK
<1>5. UNCHANGED <<store, last, issued, origin, live, fresh, cut>>
    BY DEF Begin, platform
<1>6. /\ pc'[c] = "build" /\ call'[c] = r /\ app' = app
      /\ \A d \in Call \ {c} : pc'[d] = pc[d] /\ call'[d] = call[d]
    BY <1>1, <1>2, ToFrame DEF Where
<1>7. CallFits(c)'
    BY <1>2, <1>4, <1>5, <1>6 DEF CallFits, LoggedIn, Refreshing
<1>8. /\ Typed' /\ LoginsComeFirst' /\ issued <= issued'
      /\ \A n \in 1..issued : origin'[n] = origin[n]
      /\ \A n \in live' : n \in live \/ (n = issued + 1 /\ issued' = issued + 1)
    BY <1>1, <1>2, <1>3, <1>4, <1>5, <1>7, ToTyped DEF Where, Withdraws, TypeOK
<1> QED BY <1>5, <1>6, <1>8 DEF Summary, Keeps, Begin

\* A call whose platform part is nothing, or tokens withdrawn, and whose new
\* record is an old one with other fields.
LEMMA QuietStep ==
    ASSUME IInv, NEW c \in Call, NEW p \in Where \ {"idle"}, NEW r \in Request, To(c, p, r), Records,
           pc[c] \notin {"idle", "ended"}, Withdraws, cut' \in BOOLEAN, cut => cut',
           r.body = call[c].body, r.kind = call[c].kind,
           r.pair = call[c].pair \/ r.pair = store \/ r.pair = 0,
           r.upto = call[c].upto \/ r.upto = issued,
           p = "ended" => r.upto = issued,
           p \in Refreshing => r.kind # "login" /\ r.pair # 0 /\ r.retried,
           p = "answered" => r.kind # "login" \/ r.result # "ok",
           p = "build" => r.retried,
           Keeps \/ Takes(c) \/ (store' = 0 /\ last' = last /\ (pc[c] = "refused" \/ LoggedOut(c)'))
    PROVE  Summary(c)
<1>1. TypeOK /\ Typed /\ LoginsComeFirst /\ CallFits(c)
    BY DEF IInv, Typed
<1>2. store \in 0..issued /\ last \in 0..issued /\ issued \in Nat
    BY <1>1 DEF TypeOK, IInv, StoreIsLast
<1>3. call[c] \in Request /\ call[c].pair <= issued /\ call[c].body <= issued /\ call[c].upto <= issued
    BY <1>1 DEF CallFits
<1>4. r.pair <= issued /\ r.body <= issued /\ r.upto <= issued
    BY <1>2, <1>3
<1>5. /\ pc'[c] = p /\ call'[c] = r /\ app' = app /\ issued' = issued
      /\ \A d \in Call \ {c} : pc'[d] = pc[d] /\ call'[d] = call[d]
    BY <1>1, ToFrame DEF Withdraws
<1>6. CallFits(c)'
    BY <1>3, <1>4, <1>5 DEF CallFits, LoggedIn
<1>7. store' \in 0..issued' /\ last' \in 0..issued'
    BY <1>2, <1>3, <1>5 DEF Keeps, Takes, Request
<1>8. /\ Typed' /\ LoginsComeFirst' /\ issued <= issued'
      /\ \A n \in 1..issued : origin'[n] = origin[n]
      /\ \A n \in live' : n \in live \/ (n = issued + 1 /\ issued' = issued + 1)
    BY <1>1, <1>4, <1>5, <1>6, <1>7, ToTyped
<1> QED BY <1>5, <1>8 DEF Summary, Drops

LEMMA Running1 ==
    ASSUME IInv, NEW c \in Call, pc[c] # "idle"
    PROVE  /\ Typed /\ TypeOK /\ call[c] \in Request /\ cut \in BOOLEAN /\ CallFits(c)
           /\ call[c].upto <= issued /\ call[c].pair <= issued /\ issued \in Nat /\ issued <= MaxPair
BY DEF IInv, Typed, TypeOK, CallFits

LEMMA EndsDoes ==
    ASSUME IInv, NEW c \in Call, NEW x \in Result, pc[c] \in {"sent", "answered"}, Ends(c, x), Records,
           UNCHANGED <<platform, cut>>,
           \/ Keeps
           \/ call[c].kind = "login" /\ x = "ok" /\ LoggedIn(c) /\ Stores(call[c].pair)
           \/ call[c].kind = "logout" /\ (app \/ x = "ok") /\ Stores(0)
    PROVE  Summary(c)
<1>1. Typed /\ TypeOK /\ call[c] \in Request /\ cut \in BOOLEAN /\ CallFits(c) /\ issued \in Nat
    BY Running1
<1>2. PICK r : r = [call[c] EXCEPT !.result = x, !.upto = issued] /\ To(c, "ended", r)
    BY DEF Ends
<1>3. r \in Request /\ r.upto = issued /\ r.result = x /\ r.kind = call[c].kind
      /\ r.body = call[c].body /\ r.pair = call[c].pair
    BY <1>1, <1>2 DEF Request
<1>4. pc'[c] = "ended" /\ call'[c] = r /\ app' = app
    BY <1>1, <1>2, ToFrame DEF Where
<1>5. Withdraws /\ cut' \in BOOLEAN /\ (cut => cut')
    BY <1>1 DEF Withdraws, platform
<1>6. Keeps \/ Takes(c) \/ (store' = 0 /\ last' = last /\ (pc[c] = "refused" \/ LoggedOut(c)'))
    <2>1. CASE Keeps
        BY <2>1
    <2>2. CASE LoggedIn(c) /\ Stores(call[c].pair)
        BY <1>1, <2>2 DEF Stores, Takes, CallFits
    <2>3. CASE call[c].kind = "logout" /\ (app \/ x = "ok") /\ Stores(0)
        BY <1>3, <1>4, <2>3 DEF Stores, LoggedOut
    <2> QED BY <2>1, <2>2, <2>3
<1> QED BY <1>1, <1>2, <1>3, <1>5, <1>6, QuietStep DEF Where, Refreshing

LEMMA ReceiveDoes == ASSUME IInv, NEW c \in Call, Receive(c), Records PROVE Summary(c)
<1>1. pc[c] = "answered" /\ UNCHANGED <<platform, cut>>
    BY DEF Receive
<1>2. Typed /\ TypeOK /\ call[c] \in Request /\ cut \in BOOLEAN /\ CallFits(c)
    BY <1>1, Running1
<1>3. CASE Retries(c) /\ To(c, "refresh", [call[c] EXCEPT !.pair = store, !.retried = TRUE]) /\ Keeps
    <2>1. PICK r : r = [call[c] EXCEPT !.pair = store, !.retried = TRUE] /\ To(c, "refresh", r)
        BY <1>3
    <2>2. store \in Nat
        BY <1>2 DEF TypeOK
    <2>3. r \in Request /\ r.kind = call[c].kind /\ r.body = call[c].body /\ r.pair = store /\ r.upto = call[c].upto
        BY <1>2, <2>1, <2>2 DEF Request
    <2>4. r.kind # "login" /\ r.pair # 0 /\ r.retried
        BY <1>2, <1>3, <2>1, <2>3 DEF Retries, Request
    <2>5. Withdraws
        BY <1>1 DEF Withdraws, platform
    <2> QED BY <1>1, <1>2, <1>3, <2>1, <2>3, <2>4, <2>5, QuietStep DEF Where, Refreshing
<1>4. CASE /\ call[c].result # "ok" /\ Ends(c, call[c].result) /\ Failed(c)
    <2>1. call[c].result \in Result
        BY <1>2 DEF Request
    <2> QED BY <1>1, <1>4, <2>1, EndsDoes DEF Failed, DropsAnyway, Keeps
<1>5. CASE call[c].result = "ok" /\ Ends(c, "ok") /\ Succeeded(c)
    <2>1. "ok" \in Result
        BY DEF Result
    <2>2. CASE call[c].kind = "login"
        <3>1. LoggedIn(c) /\ Stores(call[c].pair)
            BY <1>1, <1>5, <2>2 DEF LoggedIn, Succeeded
        <3> QED BY <1>1, <1>5, <2>1, <2>2, <3>1, EndsDoes
    <2>3. CASE call[c].kind = "logout"
        <3>1. Stores(0)
            BY <1>5, <2>3 DEF Succeeded
        <3> QED BY <1>1, <1>5, <2>1, <2>3, <3>1, EndsDoes
    <2>4. CASE call[c].kind \notin {"login", "logout"}
        <3>1. Keeps
            BY <1>5, <2>4 DEF Succeeded, Keeps
        <3> QED BY <1>1, <1>5, <2>1, <3>1, EndsDoes
    <2> QED BY <2>2, <2>3, <2>4
<1> QED BY <1>3, <1>4, <1>5 DEF Receive, Keeps

LEMMA FailsDoes == ASSUME IInv, NEW c \in Call, Fails(c), Records PROVE Summary(c)
<1>1. "network" \in Result
    BY DEF Result
<1> QED BY <1>1, EndsDoes DEF Fails, Failed, DropsAnyway, Keeps

LEMMA ClearsDoes == ASSUME IInv, NEW c \in Call, Clears(c), Records PROVE Summary(c)
<1>1. pc[c] = "refused" /\ UNCHANGED <<platform, cut>> /\ store' = 0 /\ last' = last
    BY DEF Clears, Stores
<1>2. Typed /\ TypeOK /\ call[c] \in Request /\ cut \in BOOLEAN /\ CallFits(c) /\ issued \in Nat
    BY <1>1, Running1
<1>3. Withdraws
    BY <1>1 DEF Withdraws, platform
<1>4. CASE DropsAnyway(c)
    <2>1. To(c, "answered", call[c]) /\ call[c].kind # "login"
        BY <1>4 DEF Clears, DropsAnyway
    <2> QED BY <1>1, <1>2, <1>3, <2>1, QuietStep DEF Where, Refreshing
<1>5. CASE ~DropsAnyway(c)
    <2>1. PICK r : r = [call[c] EXCEPT !.result = "unauthorized", !.upto = issued] /\ To(c, "ended", r)
        BY <1>5 DEF Clears, Ends
    <2>2. r \in Request /\ r.upto = issued /\ r.kind = call[c].kind /\ r.body = call[c].body /\ r.pair = call[c].pair
        BY <1>2, <2>1 DEF Request, Result
    <2> QED BY <1>1, <1>2, <1>3, <2>1, <2>2, QuietStep DEF Where, Refreshing
<1> QED BY <1>4, <1>5

LEMMA SavesDoes == ASSUME IInv, NEW c \in Call, Saves(c), Records PROVE Summary(c)
<1>1. pc[c] = "rotated" /\ UNCHANGED <<platform, cut>> /\ Stores(call[c].pair) /\ To(c, "build", call[c])
    BY DEF Saves
<1>2. Typed /\ TypeOK /\ call[c] \in Request /\ cut \in BOOLEAN /\ CallFits(c)
    BY <1>1, Running1
<1>3. Withdraws
    BY <1>1 DEF Withdraws, platform
<1>4. Takes(c) /\ call[c].retried
    BY <1>1, <1>2 DEF Takes, Stores, CallFits, Refreshing
<1> QED BY <1>1, <1>2, <1>3, <1>4, QuietStep DEF Where, Refreshing

LEMMA BuildDoes == ASSUME IInv, NEW c \in Call, Build(c), Records PROVE Summary(c)
<1>1. pc[c] = "build" /\ UNCHANGED <<store, last, platform, cut>>
    BY DEF Build, Sends
<1>2. Typed /\ TypeOK /\ call[c] \in Request /\ cut \in BOOLEAN /\ CallFits(c) /\ store \in Nat
    BY <1>1, Running1 DEF TypeOK
<1>3. PICK h : h = Headers(call[c].kind)
    OBVIOUS
<1>4. h.as \in Identity /\ (h.pair = 0 \/ h.pair = store)
    BY <1>3 DEF Headers, Identity
<1>5. PICK r : /\ r = [call[c] EXCEPT !.as = h.as, !.pair = h.pair,
                                       !.first = IF @ = "none" THEN h.as ELSE @]
               /\ To(c, "sent", r)
    BY <1>3 DEF Build, Sends
<1>6. r \in Request /\ r.kind = call[c].kind /\ r.body = call[c].body /\ r.upto = call[c].upto /\ r.pair = h.pair
    <2>1. PICK f : f = IF call[c].first = "none" THEN h.as ELSE call[c].first
        OBVIOUS
    <2>2. f \in Identity \cup {"none"} /\ h.pair \in Nat
        BY <1>2, <1>4, <2>1 DEF Request
    <2>3. PICK n \in Nat, i \in Identity : n = h.pair /\ i = h.as
        BY <1>4, <2>2
    <2>4. r = [call[c] EXCEPT !.as = i, !.pair = n, !.first = f]
        BY <1>5, <2>1, <2>3
    <2> QED BY <1>2, <2>2, <2>3, <2>4 DEF Request
<1>7. Withdraws /\ Keeps
    BY <1>1 DEF Withdraws, Keeps, platform
<1> QED BY <1>1, <1>2, <1>4, <1>5, <1>6, <1>7, QuietStep DEF Where, Refreshing

LEMMA LookupDoes == ASSUME IInv, NEW c \in Call, CheckRefresh(c) \/ CutRefresh(c), Records PROVE Summary(c)
<1>1. /\ pc[c] \in {"refresh", "rotate", "rotated"} /\ UNCHANGED <<store, last, platform>> /\ cut' \in {cut, TRUE}
      /\ \E p \in {"rotate", "refused"} : To(c, p, call[c])
    BY DEF CheckRefresh, CutRefresh
<1>2. Typed /\ TypeOK /\ call[c] \in Request /\ cut \in BOOLEAN /\ CallFits(c)
    BY <1>1, Running1
<1>3. call[c].kind # "login" /\ call[c].pair # 0 /\ call[c].retried
    BY <1>1, <1>2 DEF CallFits, Refreshing
<1>4. Withdraws /\ Keeps
    BY <1>1 DEF Withdraws, Keeps, platform
<1> QED BY <1>1, <1>2, <1>3, <1>4, QuietStep DEF Where, Refreshing

\* The next pair becomes c's.
LEMMA PairDoes ==
    ASSUME IInv, NEW c \in Call, NEW p \in {"answered", "rotated"}, NEW r \in Request, To(c, p, r), Records,
           pc[c] \in {"sent", "rotate"}, UNCHANGED <<store, last, cut>>,
           \/ \E keep \in SUBSET live : Mints(issued + 1, keep)
           \/ \E n \in 1..issued, keep \in SUBSET live : Mints(origin[n], keep),
           issued' = issued + 1,
           r.pair = issued + 1, r.body = call[c].body, r.upto = call[c].upto,
           p = "rotated" => r.kind # "login" /\ r.retried
    PROVE  Summary(c)
<1>1. Typed /\ TypeOK /\ call[c] \in Request /\ cut \in BOOLEAN /\ CallFits(c) /\ issued \in Nat
    BY Running1
<1>2. store \in 0..issued /\ last \in 0..issued /\ LoginsComeFirst
    BY <1>1 DEF TypeOK, IInv, StoreIsLast
<1>3. /\ pc'[c] = p /\ call'[c] = r /\ app' = app
      /\ \A d \in Call \ {c} : pc'[d] = pc[d] /\ call'[d] = call[d]
    BY <1>1, ToFrame DEF Where, Refreshing
<1>4. call[c].body <= issued /\ call[c].upto <= issued /\ call[c].body \in Nat /\ call[c].upto \in Nat
    BY <1>1 DEF CallFits, Request
<1>5. r.pair <= issued' /\ r.body <= issued' /\ r.upto <= issued'
    BY <1>1, <1>4
<1>6. CallFits(c)'
    <2>1. r.pair # 0 /\ (p \in Refreshing => p = "rotated")
        BY <1>1 DEF Refreshing
    <2> QED BY <1>3, <1>5, <2>1 DEF CallFits, LoggedIn
<1>7. /\ Typed' /\ LoginsComeFirst' /\ issued <= issued'
      /\ \A n \in 1..issued : origin'[n] = origin[n]
      /\ \A n \in live' : n \in live \/ (n = issued + 1 /\ issued' = issued + 1)
    <2>1. store' \in 0..issued' /\ last' \in 0..issued' /\ cut' \in BOOLEAN
        BY <1>1, <1>2
    <2> QED BY <1>1, <1>2, <1>5, <1>6, <2>1, ToTyped DEF Where, Refreshing
<1> QED BY <1>1, <1>3, <1>7 DEF Summary, Keeps

LEMMA ServeDoes == ASSUME IInv, NEW c \in Call, Serve(c), Records PROVE Summary(c)
<1>1. pc[c] = "sent" /\ UNCHANGED <<store, last, cut>>
    BY DEF Serve
<1>2. Typed /\ TypeOK /\ call[c] \in Request /\ cut \in BOOLEAN /\ CallFits(c) /\ issued \in Nat
    BY <1>1, Running1
<1>3. PICK x \in Answers(c) :
        IF x = "ok" /\ call[c].kind = "login"
        THEN /\ Issues(0, live)
             /\ To(c, "answered", [call[c] EXCEPT !.result = x, !.pair = issued + 1])
        ELSE /\ To(c, "answered", [call[c] EXCEPT !.result = x])
             /\ live' = IF x = "ok" /\ call[c].kind = "logout" THEN Revokes(c) ELSE live
             /\ UNCHANGED <<issued, origin, fresh>>
    BY DEF Serve
<1>4. x \in Result
    BY <1>3 DEF Answers, Result
<1>5. CASE x = "ok" /\ call[c].kind = "login"
    <2>1. PICK r : r = [call[c] EXCEPT !.result = x, !.pair = issued + 1] /\ To(c, "answered", r)
        BY <1>3, <1>5
    <2>2. r \in Request /\ r.pair = issued + 1 /\ r.body = call[c].body /\ r.upto = call[c].upto
        <3>1. PICK n \in Nat : n = issued + 1
            BY <1>2
        <3>2. r = [call[c] EXCEPT !.result = x, !.pair = n]
            BY <2>1, <3>1
        <3> QED BY <1>2, <1>4, <3>1, <3>2 DEF Request
    <2>3. Mints(issued + 1, live) /\ issued' = issued + 1
        BY <1>3, <1>5 DEF Issues, Mints
    <2> QED BY <1>1, <2>1, <2>2, <2>3, PairDoes
<1>6. CASE ~(x = "ok" /\ call[c].kind = "login")
    <2>1. PICK r : r = [call[c] EXCEPT !.result = x] /\ To(c, "answered", r)
        BY <1>3, <1>6
    <2>2. r \in Request /\ r.kind = call[c].kind /\ r.result = x /\ r.body = call[c].body
          /\ r.pair = call[c].pair /\ r.upto = call[c].upto
        BY <1>2, <1>4, <2>1 DEF Request
    <2>3. Withdraws /\ Keeps
        BY <1>1, <1>3, <1>6 DEF Withdraws, Keeps, Revokes
    <2>4. r.kind # "login" \/ r.result # "ok"
        BY <1>6, <2>2
    <2> QED BY <1>1, <1>2, <2>1, <2>2, <2>3, <2>4, QuietStep DEF Where, Refreshing
<1> QED BY <1>5, <1>6

LEMMA RotateDoes == ASSUME IInv, NEW c \in Call, Rotate(c), Records PROVE Summary(c)
<1>1. /\ pc[c] = "rotate" /\ UNCHANGED <<store, last, cut>>
      /\ Issues(origin[call[c].pair], live \ {call[c].pair})
    BY DEF Rotate
<1>2. Typed /\ TypeOK /\ call[c] \in Request /\ CallFits(c) /\ issued \in Nat /\ LoginsComeFirst
    BY <1>1, Running1 DEF IInv
<1>3. call[c].pair \in 1..issued /\ call[c].kind # "login" /\ call[c].retried
    BY <1>1, <1>2 DEF CallFits, Refreshing, Request
<1>4. PICK r : r = [call[c] EXCEPT !.pair = issued + 1] /\ To(c, "rotated", r)
    BY DEF Rotate
<1>5. r \in Request /\ r.kind = call[c].kind /\ r.retried = call[c].retried
      /\ r.pair = issued + 1 /\ r.body = call[c].body /\ r.upto = call[c].upto
    BY <1>2, <1>4 DEF Request
<1>6. origin[call[c].pair] # 0
    BY <1>3, <1>2 DEF LoginsComeFirst
<1>7. Mints(origin[call[c].pair], live \ {call[c].pair}) /\ issued' = issued + 1
    BY <1>1, <1>6 DEF Issues, Mints
<1>8. live \ {call[c].pair} \in SUBSET live
    OBVIOUS
<1> QED BY <1>1, <1>3, <1>4, <1>5, <1>7, <1>8, PairDoes

\* Every step of a call.
LEMMA StepDoes == ASSUME IInv, NEW c \in Call, Step(c), Records PROVE Summary(c)
BY BeginDoes, ReceiveDoes, ClearsDoes, SavesDoes, BuildDoes, ServeDoes, LookupDoes, RotateDoes, FailsDoes
   DEF Step, Goes

\* Without overlap, a call that touches the store runs alone.
LEMMA ToucherIsAlone ==
    ASSUME IInv, ~Overlapped, NEW c \in Call, Touches(c), NEW d \in Call \ {c} PROVE ~Running(d)
BY DEF IInv, RunnersMeet, Overlapped

LEMMA OverlapStays == ASSUME IInv, NEW c \in Call, Step(c), Records, Quiet' PROVE Quiet
<1>1. Typed /\ Summary(c)
    BY StepDoes DEF IInv
<1> QED BY <1>1, MeetsKeep DEF Quiet, Summary

-----------------------------------------------------------------------------
(* The steps of a call by where they arrive.                               *)

SameNames(c) == call'[c].kind = call[c].kind /\ call'[c].as = call[c].as /\ call'[c].first = call[c].first
SameBody(c) == call'[c].body = call[c].body /\ call'[c].retried = call[c].retried
Calm == live' = live /\ issued' = issued /\ origin' = origin

Begun(c) ==
    /\ pc[c] = "idle" /\ pc'[c] = "build" /\ Keeps /\ Calm
    /\ ~call'[c].retried /\ call'[c].as = "none"
    /\ call'[c].kind = "logout" => call'[c].body = store
Renewed(c) == pc[c] = "rotated" /\ pc'[c] = "build" /\ call'[c] = call[c] /\ store' = call[c].pair /\ Calm
Sent(c) ==
    /\ pc[c] = "build" /\ pc'[c] = "sent" /\ Keeps /\ Calm /\ SameBody(c) /\ call'[c].kind = call[c].kind
    /\ call'[c].first = IF call[c].first = "none" THEN call'[c].as ELSE call[c].first
    /\ call'[c].as = "admin" => store = 0
Answered(c) ==
    /\ pc[c] = "sent" /\ pc'[c] = "answered" /\ Keeps /\ SameBody(c) /\ SameNames(c)
    /\ \/ LoggedIn(c)' /\ Mints(issued + 1, live) /\ call'[c].pair = issued + 1
       \/ ~LoggedIn(c)' /\ live' \subseteq live /\ issued' = issued /\ origin' = origin
    /\ call[c].kind = "logout" /\ call'[c].result = "ok" => live' = live \ {call[c].body} /\ origin' = origin
GaveUp(c) == pc[c] = "refused" /\ pc'[c] = "answered" /\ call'[c] = call[c] /\ store' = 0 /\ Calm
Turned(c) ==
    /\ pc[c] = "answered" /\ pc'[c] = "refresh" /\ Keeps /\ Calm /\ SameNames(c)
    /\ call'[c].retried /\ call'[c].pair = store /\ store # 0 /\ call'[c].body = call[c].body
Checked(c) ==
    /\ pc[c] = "refresh" /\ pc'[c] = "rotate" /\ call'[c] = call[c] /\ Keeps /\ Calm
    /\ call[c].pair \in live
Refusal(c) ==
    /\ pc'[c] = "refused" /\ pc[c] \in {"refresh", "rotate", "rotated"}
    /\ call'[c] = call[c] /\ Keeps /\ Calm
    /\ cut' \/ (pc[c] = "refresh" /\ call[c].pair \notin live)
Replaced(c) ==
    /\ pc[c] = "rotate" /\ pc'[c] = "rotated" /\ Keeps /\ SameBody(c) /\ SameNames(c)
    /\ Mints(origin[call[c].pair], live \ {call[c].pair}) /\ call'[c].pair = issued + 1
Over(c) ==
    /\ pc[c] \in {"sent", "answered", "refused"} /\ pc'[c] = "ended" /\ Calm /\ SameBody(c) /\ SameNames(c)
    /\ call'[c].upto = issued
    /\ call'[c].result = "ok" => pc[c] = "answered" /\ call[c].result = "ok"
    /\ LoggedOut(c)' => store' = 0

LEMMA EndArrives ==
    ASSUME IInv, NEW c \in Call, NEW x \in Result, pc[c] \in {"sent", "answered", "refused"}, Ends(c, x),
           UNCHANGED platform, x = "ok" => pc[c] = "answered" /\ call[c].result = "ok",
           call[c].kind = "logout" /\ (app \/ x = "ok") => store' = 0
    PROVE  Over(c)
<1>1. Typed /\ TypeOK /\ call[c] \in Request /\ issued \in Nat
    BY Running1
<1>2. PICK r : r = [call[c] EXCEPT !.result = x, !.upto = issued] /\ To(c, "ended", r)
    BY DEF Ends
<1>3. r.upto = issued /\ r.result = x /\ r.kind = call[c].kind /\ r.as = call[c].as
      /\ r.first = call[c].first /\ r.body = call[c].body /\ r.retried = call[c].retried
    BY <1>1, <1>2 DEF Request
<1>4. pc'[c] = "ended" /\ call'[c] = r /\ app' = app
    BY <1>1, <1>2, ToFrame DEF Where
<1> QED BY <1>3, <1>4 DEF Over, Calm, platform, SameNames, SameBody, LoggedOut

LEMMA StepArrives ==
    ASSUME IInv, NEW c \in Call, Step(c)
    PROVE  \/ Begun(c) \/ Renewed(c) \/ Sent(c) \/ Answered(c) \/ GaveUp(c) \/ Turned(c)
           \/ Checked(c) \/ Refusal(c) \/ Replaced(c) \/ Over(c)
<1>1. Typed /\ (pc[c] # "idle" => call[c] \in Request /\ store \in Nat /\ issued \in Nat)
    BY Running1 DEF IInv, TypeOK
<1>2. CASE \E k \in Kind : Begin(c, k)
    <2>1. PICK k \in Kind : Begin(c, k)
        BY <1>2
    <2>2. PICK r : /\ r = [kind |-> k, as |-> "none", first |-> "none", pair |-> 0, result |-> "none",
                           body |-> IF k = "logout" THEN store ELSE 0, retried |-> FALSE, upto |-> 0]
                   /\ To(c, "build", r)
        BY <2>1 DEF Begin
    <2>3. pc'[c] = "build" /\ call'[c] = r
        BY <1>1, <2>2, ToFrame DEF Where
    <2>4. ~r.retried /\ r.as = "none" /\ (r.kind = "logout" => r.body = store)
        BY <2>2
    <2> QED BY <2>1, <2>3, <2>4 DEF Begin, Begun, Keeps, Calm, platform
<1>3. CASE Receive(c)
    <2>1. pc[c] = "answered" /\ UNCHANGED platform
        BY <1>3 DEF Receive
    <2>2. CASE Retries(c) /\ To(c, "refresh", [call[c] EXCEPT !.pair = store, !.retried = TRUE]) /\ Keeps
        <3> PICK n \in Nat : n = store
            BY <1>1, <2>1
        <3>1. PICK r : n = store /\ r = [call[c] EXCEPT !.pair = n, !.retried = TRUE] /\ To(c, "refresh", r)
            BY <2>2
        <3>2. r.retried /\ r.pair = n /\ r.kind = call[c].kind /\ r.as = call[c].as
              /\ r.first = call[c].first /\ r.body = call[c].body
            BY <1>1, <2>1, <3>1 DEF Request
        <3>3. pc'[c] = "refresh" /\ call'[c] = r
            BY <1>1, <3>1, ToFrame DEF Where, Refreshing
        <3> QED BY <2>1, <2>2, <3>1, <3>2, <3>3 DEF Turned, Calm, platform, SameNames, Retries
    <2>3. CASE call[c].result # "ok" /\ Ends(c, call[c].result) /\ Failed(c)
        <3>1. call[c].result \in Result
            BY <1>1, <2>1 DEF Request
        <3> QED BY <2>1, <2>3, <3>1, EndArrives DEF Failed, DropsAnyway, Stores
    <2>4. CASE call[c].result = "ok" /\ Ends(c, "ok") /\ Succeeded(c)
        <3>1. call[c].kind = "logout" => store' = 0
            BY <2>4 DEF Succeeded, Stores
        <3> QED BY <2>1, <2>4, <3>1, EndArrives DEF Result
    <2> QED BY <1>3, <2>2, <2>3, <2>4 DEF Receive, Keeps
<1>4. CASE Fails(c)
    BY <1>4, EndArrives DEF Fails, Failed, DropsAnyway, Stores, Result
<1>5. CASE Clears(c)
    <2>1. pc[c] = "refused" /\ UNCHANGED platform /\ store' = 0
        BY <1>5 DEF Clears, Stores
    <2>2. CASE To(c, "answered", call[c])
        <3>1. pc'[c] = "answered" /\ call'[c] = call[c]
            BY <1>1, <2>2, ToFrame DEF Where
        <3> QED BY <2>1, <3>1 DEF GaveUp, Calm, platform
    <2>3. CASE Ends(c, "unauthorized")
        BY <2>1, <2>3, EndArrives DEF Result
    <2> QED BY <1>5, <2>2, <2>3 DEF Clears
<1>6. CASE Saves(c)
    <2>1. pc'[c] = "build" /\ call'[c] = call[c]
        BY <1>1, <1>6, ToFrame DEF Saves, Where
    <2> QED BY <1>6, <2>1 DEF Saves, Renewed, Stores, Calm, platform
<1>7. CASE Build(c)
    <2>1. pc[c] = "build" /\ UNCHANGED <<store, last, platform>>
        BY <1>7 DEF Build, Sends
    <2>2. PICK h : h = Headers(call[c].kind)
        OBVIOUS
    <2>3. h.as = "admin" => store = 0
        BY <2>2 DEF Headers
    <2>4. PICK f, r : /\ f = (IF call[c].first = "none" THEN h.as ELSE call[c].first)
                      /\ r = [call[c] EXCEPT !.as = h.as, !.pair = h.pair, !.first = f]
                      /\ To(c, "sent", r)
        BY <1>7, <2>2 DEF Build, Sends
    <2>5. r.as = h.as /\ r.first = f /\ r.kind = call[c].kind /\ r.body = call[c].body /\ r.retried = call[c].retried
        BY <1>1, <2>1, <2>4 DEF Request
    <2>6. pc'[c] = "sent" /\ call'[c] = r
        BY <1>1, <2>4, ToFrame DEF Where
    <2> QED BY <2>1, <2>3, <2>4, <2>5, <2>6 DEF Sent, Keeps, Calm, platform, SameBody
<1>8. CASE CheckRefresh(c)
    <2>1. PICK p \in {"rotate", "refused"} : p = (IF call[c].pair \in live THEN "rotate" ELSE "refused")
        OBVIOUS
    <2>2. pc'[c] = p /\ call'[c] = call[c]
        BY <1>1, <1>8, <2>1, ToFrame DEF CheckRefresh, Where, Refreshing
    <2> QED BY <1>8, <2>1, <2>2 DEF CheckRefresh, Checked, Refusal, Keeps, Calm, platform
<1>9. CASE CutRefresh(c)
    <2>1. pc'[c] = "refused" /\ call'[c] = call[c]
        BY <1>1, <1>9, ToFrame DEF CutRefresh, Where, Refreshing
    <2> QED BY <1>9, <2>1 DEF CutRefresh, Refusal, Keeps, Calm, platform
<1>10. CASE Rotate(c)
    <2>1. pc[c] = "rotate" /\ Keeps /\ Issues(origin[call[c].pair], live \ {call[c].pair})
        BY <1>10 DEF Rotate, Keeps
    <2> PICK n \in Nat : n = issued + 1
        BY <1>1, <2>1
    <2>2. PICK r : n = issued + 1 /\ r = [call[c] EXCEPT !.pair = n] /\ To(c, "rotated", r)
        BY <1>10 DEF Rotate
    <2>3. /\ r.pair = n /\ r.kind = call[c].kind /\ r.as = call[c].as /\ r.first = call[c].first
          /\ r.body = call[c].body /\ r.retried = call[c].retried
        BY <1>1, <2>1, <2>2 DEF Request
    <2>4. pc'[c] = "rotated" /\ call'[c] = r
        BY <1>1, <2>2, ToFrame DEF Where, Refreshing
    <2>5. Mints(origin[call[c].pair], live \ {call[c].pair})
        <3>1. call[c].pair \in 1..issued /\ LoginsComeFirst
            BY <2>1, Running1 DEF IInv, CallFits, Refreshing, Request
        <3>2. origin[call[c].pair] # 0
            BY <3>1 DEF LoginsComeFirst
        <3> QED BY <2>1, <3>2 DEF Issues, Mints
    <2> QED BY <2>1, <2>2, <2>3, <2>4, <2>5 DEF Replaced, SameBody, SameNames
<1>11. CASE Serve(c)
    <2>1. pc[c] = "sent" /\ Keeps
        BY <1>11 DEF Serve, Keeps
    <2>2. PICK x :
            IF x = "ok" /\ call[c].kind = "login"
            THEN /\ Issues(0, live)
                 /\ To(c, "answered", [call[c] EXCEPT !.result = x, !.pair = issued + 1])
            ELSE /\ To(c, "answered", [call[c] EXCEPT !.result = x])
                 /\ live' = IF x = "ok" /\ call[c].kind = "logout" THEN Revokes(c) ELSE live
                 /\ UNCHANGED <<issued, origin, fresh>>
        BY <1>11 DEF Serve
    <2>3. CASE x = "ok" /\ call[c].kind = "login"
        <3> PICK n \in Nat : n = issued + 1
            BY <1>1, <2>1
        <3>1. PICK r : n = issued + 1 /\ r = [call[c] EXCEPT !.result = x, !.pair = n] /\ To(c, "answered", r)
            BY <2>2, <2>3
        <3>2. /\ r.pair = n /\ r.result = x /\ r.kind = call[c].kind /\ r.as = call[c].as /\ r.first = call[c].first
              /\ r.body = call[c].body /\ r.retried = call[c].retried
            BY <1>1, <2>1, <3>1 DEF Request
        <3>3. pc'[c] = "answered" /\ call'[c] = r
            <4>1. To(c, "answered", r) /\ Typed
                BY <1>1, <3>1
            <4>2. "answered" \in Where
                BY DEF Where
            <4> QED BY <4>1, <4>2, ToFrame
        <3>4. Mints(issued + 1, live)
            BY <2>2, <2>3 DEF Issues, Mints
        <3> QED BY <2>1, <2>3, <3>1, <3>2, <3>3, <3>4 DEF Answered, SameBody, SameNames, LoggedIn
    <2>4. CASE ~(x = "ok" /\ call[c].kind = "login")
        <3>1. PICK r : r = [call[c] EXCEPT !.result = x] /\ To(c, "answered", r)
            BY <2>2, <2>4
        <3>2. /\ r.result = x /\ r.kind = call[c].kind /\ r.as = call[c].as /\ r.first = call[c].first
              /\ r.body = call[c].body /\ r.retried = call[c].retried
            BY <1>1, <2>1, <3>1 DEF Request
        <3>3. pc'[c] = "answered" /\ call'[c] = r
            BY <1>1, <3>1, ToFrame DEF Where
        <3>4. live' \subseteq live /\ issued' = issued /\ origin' = origin
            BY <2>2, <2>4 DEF Revokes
        <3>5. call[c].kind = "logout" /\ x = "ok" => live' = live \ {call[c].body}
            BY <2>2, <2>4 DEF Revokes
        <3> QED BY <2>1, <2>4, <3>2, <3>3, <3>4, <3>5 DEF Answered, SameBody, SameNames, LoggedIn
    <2> QED BY <2>3, <2>4
<1> QED BY <1>2, <1>3, <1>4, <1>5, <1>6, <1>7, <1>8, <1>9, <1>10, <1>11 DEF Step, Goes

-----------------------------------------------------------------------------
(* Steps keep the invariant.                                               *)

LEMMA QuietOthers ==
    ASSUME IInv, NEW c \in Call, Step(c), Records, Quiet', NEW d \in Call \ {c}
    PROVE  ~Touches(d)
<1> SUFFICES ASSUME Touches(d) PROVE FALSE
    OBVIOUS
<1>1. Summary(c) /\ Quiet /\ RunnersMeet'
    BY StepDoes, OverlapStays, MeetsKeep DEF IInv
<1>2. Touches(d)'
    BY <1>1 DEF Summary, Touches, Running
<1>3. CASE Running(c)
    BY <1>1, <1>3, ToucherIsAlone DEF Quiet
<1>4. CASE ~Running(c)
    <2>1. Running(c)'
        BY <1>1, <1>4 DEF Summary, Running
    <2> QED BY <1>1, <1>2, <2>1 DEF RunnersMeet, Quiet, Overlapped
<1> QED BY <1>3, <1>4

LEMMA KeepsLast == ASSUME IInv, NEW c \in Call, Step(c), Records PROVE StoreIsLast'
<1>1. Summary(c)
    BY StepDoes
<1> QED BY <1>1 DEF Summary, Keeps, Takes, Drops, IInv, StoreIsLast

LEMMA KeepsRefreshes == ASSUME IInv, NEW c \in Call, Step(c), Records PROVE RefreshesHeld'
<1> SUFFICES ASSUME Quiet', NEW d \in Call, pc'[d] \in {"refresh", "rotate", "refused"}
             PROVE  call'[d].pair = store' /\ (pc'[d] = "refused" => store' \notin live')
    BY DEF RefreshesHeld
<1>1. Summary(c) /\ Quiet
    BY StepDoes, OverlapStays
<1>2. CASE d # c
    <2>1. pc[d] = pc'[d]
        BY <1>1, <1>2 DEF Summary
    <2> QED BY <1>2, <2>1, QuietOthers DEF Touches, Refreshing
<1>3. CASE d = c
    <2>1. CASE Turned(c)
        BY <1>3, <2>1 DEF Turned, Keeps
    <2>2. CASE Checked(c)
        BY <1>1, <1>3, <2>2 DEF Checked, Keeps, IInv, RefreshesHeld
    <2>3. CASE Refusal(c)
        <3>1. ~cut'
            BY DEF Quiet
        <3> QED BY <1>1, <1>3, <2>3, <3>1 DEF Refusal, Keeps, Calm, IInv, RefreshesHeld
    <2>4. Turned(c) \/ Checked(c) \/ Refusal(c)
        BY <1>3, StepArrives DEF Begun, Renewed, Sent, Answered, GaveUp, Replaced, Over
    <2> QED BY <2>1, <2>2, <2>3, <2>4
<1> QED BY <1>2, <1>3

\* A call that has ended takes no step: it stays logged out.
LEMMA LoggedOutStays ==
    ASSUME IInv, NEW c \in Call, Step(c), Records, NEW d \in Call
    PROVE  /\ LoggedOut(d) => LoggedOut(d)' /\ d # c
           /\ d # c => (LoggedOut(d)' <=> LoggedOut(d))
<1>1. Summary(c)
    BY StepDoes
<1> QED BY <1>1 DEF Summary, LoggedOut

LEMMA KeepsSession == ASSUME IInv, NEW c \in Call, Step(c), Records PROVE SessionLostOnlyByOverlap'
<1> SUFFICES ASSUME store' = 0, last' \in live', \A d \in Call : ~LoggedOut(d)', Quiet' PROVE FALSE
    BY DEF SessionLostOnlyByOverlap, Quiet
<1>1. Summary(c) /\ Quiet
    BY StepDoes, OverlapStays
<1>2. \A d \in Call : ~LoggedOut(d)
    BY LoggedOutStays
<1>3. last \in 0..issued /\ issued \in Nat
    BY DEF IInv, Typed, TypeOK
<1>4. last' = last
    BY <1>1, <1>3, StepArrives DEF Summary, Keeps, Takes, Drops, IInv, Typed, CallFits, Refreshing
<1>5. last \in live
    BY <1>1, <1>3, <1>4 DEF Summary
<1>6. CASE store = 0
    BY <1>1, <1>2, <1>5, <1>6 DEF IInv, SessionLostOnlyByOverlap, Quiet
<1>7. CASE store # 0
    <2>1. store = last /\ Drops(c)
        BY <1>1, <1>7 DEF IInv, StoreIsLast, Summary, Keeps, Takes, Drops, Typed, CallFits, Refreshing
    <2>2. pc[c] = "refused"
        BY <2>1 DEF Drops
    <2> QED BY <1>1, <1>5, <2>1, <2>2 DEF IInv, RefreshesHeld
<1> QED BY <1>6, <1>7

LEMMA KeepsRetries == ASSUME IInv, NEW c \in Call, Step(c), Records PROVE RetriesHaveSession'
<1> SUFFICES ASSUME NEW d \in Call, pc'[d] = "build", call'[d].retried, d \notin emptied'
             PROVE  store' # 0
    BY DEF RetriesHaveSession
<1>1. Summary(c) /\ d \notin emptied
    BY StepDoes, MeetsKeep DEF IInv
<1>2. CASE d # c
    <2>1. pc[d] = "build" /\ call[d].retried
        BY <1>1, <1>2 DEF Summary
    <2>2. store # 0
        BY <1>1, <2>1 DEF IInv, RetriesHaveSession
    <2> QED BY <2>1, <2>2 DEF Records, Empties
<1>3. CASE d = c
    <2>1. Begun(c) \/ Renewed(c)
        BY <1>3, StepArrives DEF Sent, Answered, GaveUp, Turned, Checked, Refusal, Replaced, Over
    <2> QED BY <1>3, <2>1 DEF Begun, Renewed, IInv, Typed, CallFits, Refreshing
<1> QED BY <1>2, <1>3

LEMMA KeepsIdentity == ASSUME IInv, NEW c \in Call, Step(c), Records PROVE RetryKeepsIdentity'
<1> SUFFICES ASSUME NEW d \in Call, pc'[d] # "idle", call'[d].first = "user", call'[d].as = "admin", d \notin emptied'
             PROVE  FALSE
    BY DEF RetryKeepsIdentity
<1>1. Summary(c) /\ d \notin emptied
    BY StepDoes, MeetsKeep DEF IInv
<1>2. ~(pc[d] # "idle" /\ call[d].first = "user" /\ call[d].as = "admin")
    BY <1>1 DEF IInv, RetryKeepsIdentity
<1>3. CASE d # c
    BY <1>1, <1>2, <1>3 DEF Summary
<1>4. CASE d = c
    <2>1. CASE Sent(c)
        <3>1. store = 0 /\ pc[c] = "build" /\ call[c].first = "user"
            BY <1>4, <2>1 DEF Sent
        <3>2. call[c].retried
            BY <3>1 DEF IInv, Typed, CallFits
        <3> QED BY <1>1, <1>4, <3>1, <3>2 DEF IInv, RetriesHaveSession
    <2>2. CASE ~Sent(c)
        BY <1>2, <1>4, <2>2, StepArrives DEF Begun, Renewed, Answered, GaveUp, Turned, Checked, Refusal, Replaced, Over, SameNames
    <2> QED BY <2>1, <2>2
<1> QED BY <1>3, <1>4

\* What a new pair goes back to.
LEMMA MintedOrigin ==
    ASSUME Typed, NEW x, NEW keep, Mints(x, keep)
    PROVE  origin'[issued + 1] = x /\ \A m \in live' : m \in keep \/ m = issued + 1
<1>1. issued \in Nat /\ MaxPair \in Nat /\ origin \in [1..MaxPair -> 0..MaxPair]
    BY SdkAssumption DEF Typed, TypeOK, Pair
<1>2. issued + 1 \in 1..MaxPair /\ origin' = [origin EXCEPT ![issued + 1] = x] /\ live' = keep \cup {issued + 1}
    BY <1>1 DEF Mints
<1>3. origin'[issued + 1] = x
    BY <1>1, <1>2
<1> QED BY <1>2, <1>3

\* Where the pairs and bodies lie, and what they go back to.
LEMMA Ranges ==
    ASSUME IInv
    PROVE  /\ issued \in Nat /\ live \subseteq 1..issued /\ store \in 0..issued
           /\ \A n \in 1..issued : origin[n] \in 1..n
           /\ \A c \in Call : pc[c] # "idle" =>
                 call[c].pair \in 0..issued /\ call[c].body \in 0..issued /\ call[c].upto \in 0..issued
<1>1. issued \in Nat /\ live \subseteq 1..issued /\ store \in 0..issued
    BY DEF IInv, Typed, TypeOK, StoreIsLast
<1>2. \A c \in Call : pc[c] # "idle" => call[c] \in Request
          /\ call[c].pair <= issued /\ call[c].body <= issued /\ call[c].upto <= issued
    BY DEF IInv, Typed, CallFits
<1> QED BY <1>1, <1>2 DEF IInv, LoginsComeFirst, Request

LEMMA ForkedStays == ASSUME IInv, NEW c \in Call, Step(c), Records, Unforked' PROVE Unforked
<1>1. Summary(c)
    BY StepDoes
<1>2. /\ \A d \in Call : met[d] \subseteq met'[d]
      /\ \A d \in Call \ {c} : pc'[d] = pc[d] /\ call'[d] = call[d]
    BY <1>1, MeetsKeep DEF Summary, IInv
<1>3. Retried(c) => Retried(c)'
    BY <1>1, StepArrives DEF Retried, Summary, Begun, Renewed, Sent, Answered, GaveUp, Turned, Checked, Refusal,
                            Replaced, Over, SameBody
<1>4. \A d \in Call : Retried(d) => Retried(d)'
    BY <1>2, <1>3 DEF Retried
<1>5. Forked => Forked'
    BY <1>2, <1>4 DEF Forked
<1> QED BY <1>1, <1>5 DEF Unforked, Summary

LEMMA RefresherIsAlone ==
    ASSUME IInv, Unforked, NEW c \in Call, pc[c] \in Refreshing, NEW d \in Call \ {c}
    PROVE  pc[d] \notin Refreshing
<1> SUFFICES ASSUME pc[d] \in Refreshing PROVE FALSE
    OBVIOUS
<1>1. d \in met[c]
    BY DEF IInv, RunnersMeet, Running, Touches, Refreshing
<1>2. Retried(c) /\ Retried(d)
    BY DEF IInv, Typed, CallFits, Retried, Refreshing
<1> QED BY <1>1, <1>2 DEF Unforked, Forked

\* What a step leaves of the tokens of a session.
LEMMA SoleStays ==
    ASSUME IInv, NEW c \in Call, Step(c), Records, NEW n \in 1..issued, Sole(n),
           Replaced(c) => origin[call[c].pair] # origin[n]
    PROVE  Sole(n)'
<1>1. Summary(c) /\ Typed
    BY StepDoes DEF IInv
<1>2. /\ issued \in Nat /\ live \subseteq 1..issued
      /\ \A m \in 1..issued : origin[m] \in 1..m /\ origin'[m] = origin[m]
      /\ \A m \in live' : m \in live \/ (m = issued + 1 /\ issued' = issued + 1)
    BY <1>1, Ranges DEF Summary
<1> SUFFICES ASSUME NEW m \in live', m \notin live, origin'[m] = origin'[n] PROVE FALSE
    BY <1>2 DEF Sole
<1>3. m = issued + 1 /\ issued' = issued + 1 /\ origin'[m] = origin[n] /\ origin[n] \in 1..n
    BY <1>2
<1>4. CASE Replaced(c)
    BY <1>1, <1>3, <1>4, MintedOrigin DEF Replaced
<1>5. CASE Answered(c)
    <2>1. Mints(issued + 1, live)
        BY <1>2, <1>3, <1>5 DEF Answered
    <2> QED BY <1>1, <1>2, <1>3, <2>1, MintedOrigin
<1>6. CASE ~Replaced(c) /\ ~Answered(c)
    <2>1. issued' = issued
        BY <1>6, StepArrives DEF Begun, Renewed, Sent, GaveUp, Turned, Checked, Refusal, Over, Calm
    <2> QED BY <1>2, <1>3, <2>1
<1> QED BY <1>4, <1>5, <1>6

LEMMA KeepsSole == ASSUME IInv, NEW c \in Call, Step(c), Records PROVE SessionsAreSole'
<1> SUFFICES ASSUME Unforked' PROVE SessionsAreSole'
    BY DEF SessionsAreSole
<1>1. Summary(c) /\ Unforked /\ Typed
    BY StepDoes, ForkedStays DEF IInv
<1>2. /\ issued \in Nat /\ live \subseteq 1..issued /\ store \in 0..issued
      /\ \A n \in 1..issued : origin[n] \in 1..n /\ origin'[n] = origin[n]
      /\ \A m \in live' : m \in live \/ (m = issued + 1 /\ issued' = issued + 1)
    BY <1>1, Ranges DEF Summary
<1>3. \A d \in Call : pc[d] \in Refreshing => call[d].pair \in 1..issued
    BY <1>1, Ranges DEF Typed, CallFits, Refreshing
<1>4. /\ \A n \in live : Sole(n)
      /\ store # 0 => Sole(store) \/ \E d \in Call : pc[d] = "rotated"
      /\ \A d \in Call : pc[d] \in {"rotate", "rotated"} => Sole(call[d].pair)
    BY <1>1 DEF IInv, SessionsAreSole
<1>5. \A d \in Call \ {c} : pc'[d] = pc[d] /\ call'[d] = call[d]
    BY <1>1 DEF Summary
<1>6. CASE Replaced(c)
    <2>1. PICK p \in 1..issued : p = call[c].pair /\ pc[c] = "rotate" /\ Sole(p)
        BY <1>3, <1>4, <1>6 DEF Replaced, Refreshing
    <2>2. origin'[issued + 1] = origin[p] /\ \A m \in live' : m \in live \ {p} \/ m = issued + 1
        BY <1>1, <1>6, <2>1, MintedOrigin DEF Replaced
    <2>3. \A m \in live' : origin'[m] = origin[p] => m = issued + 1
        BY <1>2, <2>1, <2>2 DEF Sole
    <2>4. pc'[c] = "rotated" /\ call'[c].pair = issued + 1
        BY <1>6 DEF Replaced
    <2>5. \A n \in live' : Sole(n)'
        BY <1>2, <1>4, <2>2, <2>3 DEF Sole
    <2>6. \A d \in Call : pc'[d] \in {"rotate", "rotated"} => Sole(call[d].pair)'
        <3>1. \A d \in Call \ {c} : pc'[d] \notin Refreshing
            BY <1>1, <1>5, <2>1, RefresherIsAlone DEF Refreshing
        <3> QED BY <2>2, <2>3, <2>4, <3>1 DEF Sole, Refreshing
    <2> QED BY <2>4, <2>5, <2>6 DEF SessionsAreSole
<1>7. CASE ~Replaced(c)
    <2>1. \A n \in 1..issued : Sole(n) => Sole(n)'
        BY <1>7, SoleStays
    <2>2. ASSUME NEW n \in live' PROVE Sole(n)'
        <3>1. CASE n \in live
            BY <1>2, <1>4, <2>1, <3>1
        <3>2. CASE n \notin live
            <4>1. n = issued + 1 /\ issued' = issued + 1
                BY <1>2, <3>2
            <4>2. Mints(issued + 1, live)
                BY <1>2, <1>7, <4>1, StepArrives DEF Begun, Renewed, Sent, Answered, GaveUp, Turned, Checked, Refusal,
                                                       Over, Calm
            <4>3. origin'[n] = n /\ \A m \in live' : m \in live \/ m = n
                BY <1>1, <4>1, <4>2, MintedOrigin
            <4>4. \A m \in live : origin'[m] \in 1..issued
                <5>1. ASSUME NEW m \in live PROVE origin'[m] \in 1..issued
                    <6>1. m \in 1..issued /\ origin'[m] = origin[m] /\ origin[m] \in 1..m
                        BY <1>2
                    <6>2. PICK o \in 1..m : o = origin[m]
                        BY <6>1
                    <6> QED BY <1>2, <6>1, <6>2
                <5> QED BY <5>1
            <4> QED BY <1>2, <4>1, <4>3, <4>4 DEF Sole
        <3> QED BY <3>1, <3>2
    <2>3. ASSUME store' # 0 PROVE Sole(store)' \/ \E d \in Call : pc'[d] = "rotated"
        <3>1. ASSUME NEW n \in 1..issued, Sole(n), store' = n PROVE Sole(store)'
            BY <2>1, <3>1 DEF Sole
        <3>2. CASE pc[c] = "rotated" /\ store' = call[c].pair
            BY <1>3, <1>4, <3>1, <3>2 DEF Refreshing
        <3>3. CASE LoggedIn(c) /\ store' = call[c].pair
            <4>1. call[c].pair \in 1..issued /\ Sole(call[c].pair)
                BY <1>1, <3>3, Ranges DEF IInv, LoginsAreNew, LoggedIn, Typed, CallFits
            <4> QED BY <3>1, <3>3, <4>1
        <3>4. CASE store' = store /\ pc[c] = "rotated"
            <4>1. Renewed(c)
                BY <3>4, StepArrives DEF Begun, Sent, Answered, GaveUp, Turned, Checked, Refusal, Replaced, Over, Unforked
            <4> QED BY <3>2, <3>4, <4>1 DEF Renewed
        <3>5. CASE store' = store /\ pc[c] # "rotated"
            BY <1>2, <1>4, <1>5, <2>3, <3>1, <3>5
        <3> QED BY <1>1, <2>3, <3>2, <3>3, <3>4, <3>5 DEF Summary, Keeps, Takes, Drops
    <2>4. ASSUME NEW d \in Call, pc'[d] \in {"rotate", "rotated"} PROVE Sole(call[d].pair)'
        <3>1. /\ call'[d] = call[d] /\ call[d].pair \in 1..issued
              /\ Sole(call[d].pair)
            <4>1. CASE d # c
                BY <1>3, <1>4, <1>5, <2>4, <4>1 DEF Refreshing
            <4>2. CASE d = c
                <5>1. Checked(c)
                    BY <1>7, <2>4, <4>2, StepArrives DEF Begun, Renewed, Sent, Answered, GaveUp, Turned, Refusal, Over
                <5> QED BY <1>3, <1>4, <4>2, <5>1 DEF Checked, Refreshing
            <4> QED BY <4>1, <4>2
        <3>2. PICK p \in 1..issued : p = call[d].pair /\ p = call'[d].pair
            BY <3>1
        <3>3. Sole(p)'
            BY <2>1, <3>1, <3>2
        <3> QED BY <3>2, <3>3 DEF Sole
    <2> QED BY <2>2, <2>3, <2>4 DEF SessionsAreSole
<1> QED BY <1>6, <1>7

LEMMA KeepsLogins == ASSUME IInv, NEW c \in Call, Step(c), Records PROVE LoginsAreNew'
<1> SUFFICES ASSUME NEW d \in Call, LoggedIn(d)'
             PROVE  /\ Sole(call[d].pair)'
                    /\ store' # 0 => origin'[store'] # origin'[call'[d].pair]
                    /\ \A e \in Call \ {d} : pc'[e] \in Refreshing \/ LoggedIn(e)' =>
                          origin'[call'[e].pair] # origin'[call'[d].pair]
    BY DEF LoginsAreNew
<1>1. Summary(c) /\ Typed
    BY StepDoes DEF IInv
<1>2. /\ issued \in Nat /\ live \subseteq 1..issued /\ store \in 0..issued
      /\ \A n \in 1..issued : origin[n] \in 1..n /\ origin'[n] = origin[n]
      /\ \A m \in live' : m \in live \/ (m = issued + 1 /\ issued' = issued + 1)
    BY <1>1, Ranges DEF Summary
<1>3. \A n \in 1..issued : origin'[n] <= issued
    <2>1. ASSUME NEW n \in 1..issued PROVE origin'[n] <= issued
        <3>1. PICK o \in 1..n : o = origin[n] /\ origin'[n] = o
            BY <1>2
        <3> QED BY <1>2, <3>1
    <2> QED BY <2>1
<1>4. \A e \in Call : pc[e] \in Refreshing \/ LoggedIn(e) => call[e].pair \in 1..issued
    BY <1>1, Ranges DEF Typed, CallFits, LoggedIn, Refreshing
<1>5. \A e \in Call \ {c} : pc'[e] = pc[e] /\ call'[e] = call[e]
    BY <1>1 DEF Summary
<1>6. CASE d = c
    <2>1. Mints(issued + 1, live) /\ call'[c].pair = issued + 1 /\ store' = store
        BY <1>1, <1>6, StepArrives DEF Begun, Renewed, Sent, Answered, GaveUp, Turned, Checked, Refusal, Replaced,
                                        Over, LoggedIn, Keeps, Typed, CallFits, Refreshing
    <2>2. origin'[issued + 1] = issued + 1 /\ \A m \in live' : m \in live \/ m = issued + 1
        BY <1>1, <2>1, MintedOrigin
    <2>3. \A n \in 1..issued : origin'[n] # issued + 1
        BY <1>2, <1>3
    <2>4. Sole(call[c].pair)'
        BY <1>2, <2>1, <2>2, <2>3 DEF Sole
    <2>5. store' # 0 => origin'[store'] # issued + 1
        BY <1>2, <2>1, <2>3
    <2>6. \A e \in Call \ {c} : pc'[e] \in Refreshing \/ LoggedIn(e)' => origin'[call'[e].pair] # issued + 1
        BY <1>4, <1>5, <2>3 DEF LoggedIn
    <2> QED BY <1>6, <2>1, <2>2, <2>4, <2>5, <2>6
<1>7. CASE d # c
    <2>1. LoggedIn(d) /\ call'[d] = call[d]
        BY <1>5, <1>7 DEF LoggedIn
    <2>2. PICK p \in 1..issued, o \in 1..issued :
              p = call[d].pair /\ p = call'[d].pair /\ o = origin[p] /\ o = origin'[p]
        <3>1. PICK p \in 1..issued : p = call[d].pair /\ p = call'[d].pair
            BY <1>4, <2>1
        <3>2. PICK o \in 1..p : o = origin[p] /\ o = origin'[p]
            BY <1>2, <3>1
        <3>3. o \in 1..issued
            BY <1>2, <3>1, <3>2
        <3> QED BY <3>1, <3>2, <3>3
    <2>3. /\ Sole(p)
          /\ store # 0 => origin[store] # o
          /\ \A e \in Call \ {d} : pc[e] \in Refreshing \/ LoggedIn(e) => origin[call[e].pair] # o
        BY <2>1, <2>2 DEF IInv, LoginsAreNew
    <2>4. Sole(call[d].pair)'
        <3>1. Replaced(c) => origin[call[c].pair] # o
            BY <1>7, <2>3 DEF Replaced, Refreshing
        <3>2. Sole(p)'
            BY <2>2, <2>3, <3>1, SoleStays
        <3> QED BY <2>2, <3>2 DEF Sole
    <2>5. store' # 0 => origin'[store'] # o
        BY <1>1, <1>2, <1>4, <1>7, <2>3 DEF Summary, Keeps, Takes, Drops, Refreshing
    <2>6. ASSUME NEW e \in Call \ {d, c}, pc'[e] \in Refreshing \/ LoggedIn(e)' PROVE origin'[call'[e].pair] # o
        <3>1. call'[e] = call[e] /\ (pc[e] \in Refreshing \/ LoggedIn(e))
            BY <1>5, <2>6 DEF LoggedIn
        <3> QED BY <1>2, <1>4, <2>3, <2>6, <3>1
    <2>7. ASSUME pc'[c] \in Refreshing \/ LoggedIn(c)' PROVE origin'[call'[c].pair] # o
        <3>1. CASE Replaced(c)
            <4>1. origin'[issued + 1] = origin[call[c].pair] /\ pc[c] \in Refreshing
                BY <1>1, <3>1, MintedOrigin DEF Replaced, Refreshing
            <4> QED BY <1>7, <2>3, <3>1, <4>1 DEF Replaced
        <3>2. CASE Answered(c) /\ LoggedIn(c)'
            <4>1. origin'[issued + 1] = issued + 1
                BY <1>1, <3>2, MintedOrigin DEF Answered
            <4> QED BY <1>2, <3>2, <4>1 DEF Answered
        <3>3. CASE Turned(c)
            <4>1. call'[c].pair = store /\ store # 0
                BY <3>3 DEF Turned
            <4> QED BY <1>2, <2>3, <4>1
        <3>4. CASE Checked(c) \/ Refusal(c)
            <4>1. call'[c] = call[c] /\ pc[c] \in Refreshing
                BY <3>4 DEF Checked, Refusal, Refreshing
            <4> QED BY <1>2, <1>4, <1>7, <2>3, <4>1
        <3>5. Replaced(c) \/ (Answered(c) /\ LoggedIn(c)') \/ Turned(c) \/ Checked(c) \/ Refusal(c)
            BY <1>1, <2>7, StepArrives DEF Begun, Renewed, Sent, Answered, GaveUp, Over, LoggedIn, Refreshing, Typed, CallFits
        <3> QED BY <3>1, <3>2, <3>3, <3>4, <3>5
    <2> QED BY <1>7, <2>2, <2>4, <2>5, <2>6, <2>7
<1> QED BY <1>6, <1>7

LEMMA KeepsLater == ASSUME IInv, NEW c \in Call, Step(c), Records PROVE LaterSessions'
<1> SUFFICES ASSUME NEW d \in Call, LoggedOut(d)', met'[d] = {}
             PROVE  /\ store' # 0 => origin'[store'] > call'[d].upto
                    /\ \A e \in Call : pc'[e] \in Refreshing \/ LoggedIn(e)' => origin'[call'[e].pair] > call'[d].upto
    BY DEF LaterSessions
<1>1. Summary(c) /\ Typed /\ met[d] = {} /\ RunnersMeet
    BY StepDoes, MeetsKeep DEF IInv
<1>2. /\ issued \in Nat /\ live \subseteq 1..issued /\ store \in 0..issued
      /\ \A n \in 1..issued : origin[n] \in 1..n /\ origin'[n] = origin[n]
      /\ \A e \in Call : pc[e] # "idle" =>
            call[e].pair \in 0..issued /\ call[e].body \in 0..issued /\ call[e].upto \in 0..issued
    BY <1>1, Ranges DEF Summary
<1>3. CASE d = c
    <2>1. Over(c)
        BY <1>3, StepArrives DEF LoggedOut, Begun, Renewed, Sent, Answered, GaveUp, Turned, Checked, Refusal, Replaced
    <2>2. store' = 0 /\ pc'[c] = "ended" /\ Running(c)
        BY <1>3, <2>1 DEF Over, Running
    <2>3. \A e \in Call \ {c} : ~Touches(e)
        BY <1>1, <1>3, <2>2 DEF RunnersMeet
    <2>4. \A e \in Call : ~(pc'[e] \in Refreshing \/ LoggedIn(e)')
        BY <1>1, <2>2, <2>3 DEF Summary, Touches, Running, LoggedIn, Refreshing
    <2> QED BY <2>2, <2>4
<1>4. CASE d # c
    <2>1. LoggedOut(d) /\ call'[d] = call[d] /\ pc[d] # "idle"
        BY <1>1, <1>4, LoggedOutStays DEF Summary, LoggedOut
    <2>2. PICK u \in 0..issued : u = call[d].upto
        BY <1>2, <2>1
    <2>3. /\ store # 0 => origin[store] > u
          /\ \A e \in Call : pc[e] \in Refreshing \/ LoggedIn(e) => origin[call[e].pair] > u
        BY <1>1, <2>1, <2>2 DEF IInv, LaterSessions
    <2>4. \A e \in Call : pc[e] \in Refreshing \/ LoggedIn(e) => call[e].pair \in 1..issued
        BY <1>1, <1>2 DEF Typed, CallFits, LoggedIn, Refreshing
    <2>5. store' # 0 => origin'[store'] > u
        BY <1>1, <1>2, <2>3, <2>4 DEF Summary, Keeps, Takes, Drops, Refreshing
    <2>6. ASSUME NEW e \in Call \ {c}, pc'[e] \in Refreshing \/ LoggedIn(e)' PROVE origin'[call'[e].pair] > u
        <3>1. call'[e] = call[e] /\ (pc[e] \in Refreshing \/ LoggedIn(e))
            BY <1>1, <2>6 DEF Summary, LoggedIn
        <3> QED BY <1>2, <2>3, <2>4, <3>1
    <2>7. ASSUME pc'[c] \in Refreshing \/ LoggedIn(c)' PROVE origin'[call'[c].pair] > u
        <3>1. CASE Replaced(c)
            <4>1. origin'[issued + 1] = origin[call[c].pair] /\ pc[c] \in Refreshing
                BY <1>1, <3>1, MintedOrigin DEF Replaced, Refreshing
            <4> QED BY <2>3, <3>1, <4>1 DEF Replaced
        <3>2. CASE Answered(c) /\ LoggedIn(c)'
            <4>1. origin'[issued + 1] = issued + 1
                BY <1>1, <3>2, MintedOrigin DEF Answered
            <4> QED BY <1>2, <3>2, <4>1 DEF Answered
        <3>3. CASE Turned(c)
            <4>1. call'[c].pair = store /\ store # 0
                BY <3>3 DEF Turned
            <4> QED BY <1>2, <2>3, <4>1
        <3>4. CASE Checked(c) \/ Refusal(c)
            <4>1. call'[c] = call[c] /\ pc[c] \in Refreshing
                BY <3>4 DEF Checked, Refusal, Refreshing
            <4> QED BY <1>2, <2>3, <2>4, <4>1
        <3>5. Replaced(c) \/ (Answered(c) /\ LoggedIn(c)') \/ Turned(c) \/ Checked(c) \/ Refusal(c)
            BY <1>1, <2>7, StepArrives DEF Begun, Renewed, Sent, Answered, GaveUp, Over, LoggedIn, Refreshing, Typed, CallFits
        <3> QED BY <3>1, <3>2, <3>3, <3>4, <3>5
    <2> QED BY <2>1, <2>2, <2>5, <2>6, <2>7
<1> QED BY <1>3, <1>4

\* A call that has met nobody runs among calls that leave the store alone.
LEMMA OthersCalm ==
    ASSUME IInv, NEW c \in Call, Step(c), Records, NEW d \in Call, Running(d)', met'[d] = {}
    PROVE  \A e \in Call \ {d} : ~Touches(e)' /\ ((d # c \/ e # c) => ~Touches(e))
<1>1. Summary(c) /\ RunnersMeet'
    BY StepDoes, MeetsKeep DEF IInv
<1>2. \A e \in Call \ {d} : ~Touches(e)'
    BY <1>1 DEF RunnersMeet
<1>3. \A e \in Call \ {d, c} : ~Touches(e)
    BY <1>1, <1>2 DEF Summary, Touches, Running
<1>4. d # c => ~Touches(c)
    <2>1. d # c => met[d] = {} /\ Running(d)
        BY <1>1, MeetsKeep DEF IInv, Summary, Running
    <2> QED BY <2>1 DEF IInv, RunnersMeet
<1> QED BY <1>2, <1>3, <1>4

LEMMA KeepsNames == ASSUME IInv, NEW c \in Call, Step(c), Records PROVE LogoutsName'
<1> SUFFICES ASSUME Unforked', NEW d \in Call, pc'[d] # "idle", call'[d].kind = "logout",
                    call'[d].body # 0, ~call'[d].retried, met'[d] = {}
             PROVE  /\ pc'[d] \in {"build", "sent"} => call'[d].body = store'
                    /\ pc'[d] \in {"answered", "ended"} /\ call'[d].result = "ok" =>
                          \A n \in live' : origin'[n] # origin'[call'[d].body]
    BY DEF LogoutsName
<1>1. Summary(c) /\ Unforked /\ Typed /\ met[d] = {}
    BY StepDoes, ForkedStays, MeetsKeep DEF IInv
<1>2. /\ issued \in Nat /\ live \subseteq 1..issued /\ store \in 0..issued
      /\ \A n \in 1..issued : origin[n] \in 1..n /\ origin'[n] = origin[n]
      /\ \A e \in Call : pc[e] # "idle" =>
            call[e].pair \in 0..issued /\ call[e].body \in 0..issued /\ call[e].upto \in 0..issued
    BY <1>1, Ranges DEF Summary
<1>3. CASE d # c
    <2>1. call'[d] = call[d] /\ pc'[d] = pc[d]
        BY <1>1, <1>3 DEF Summary
    <2>2. CASE pc[d] \in {"build", "sent"}
        <3>1. ~Touches(c) /\ ~Touches(c)'
            BY <1>3, <2>1, <2>2, OthersCalm DEF Running
        <3>2. ~LoggedOut(c)'
            BY <3>1, StepArrives DEF LoggedOut, Begun, Renewed, Sent, Answered, GaveUp, Turned, Checked, Refusal, Replaced,
                                      Over, SameNames, Touches, Running
        <3>3. store' = store
            BY <1>1, <3>1, <3>2 DEF Summary, Keeps, Takes, Drops, LoggedIn, Touches, Running, Refreshing
        <3> QED BY <1>1, <2>1, <2>2, <3>3 DEF IInv, LogoutsName
    <2>3. ASSUME pc[d] \in {"answered", "ended"}, call[d].result = "ok", NEW n \in live', origin'[n] = origin'[call[d].body]
          PROVE  FALSE
        <3>1. PICK b \in 1..issued : b = call[d].body
            BY <1>2, <2>1, <2>3
        <3>2. \A m \in live : origin[m] # origin[b]
            BY <1>1, <2>1, <2>3, <3>1 DEF IInv, LogoutsName
        <3>3. n \notin live
            BY <1>2, <2>3, <3>1, <3>2
        <3>4. n = issued + 1 /\ issued' = issued + 1
            BY <1>1, <3>3 DEF Summary
        <3>5. CASE Replaced(c)
            <4>1. origin'[issued + 1] = origin[call[c].pair] /\ pc[c] \in Refreshing /\ Touches(c)
                BY <1>1, <3>5, MintedOrigin DEF Replaced, Refreshing, Touches
            <4>2. pc[d] = "ended"
                BY <1>3, <2>1, <2>3, <4>1, OthersCalm DEF Running
            <4>3. LoggedOut(d) /\ call[d].body <= call[d].upto
                BY <1>1, <2>1, <2>3, <4>2 DEF LoggedOut, Typed, CallFits
            <4>4. PICK u \in Nat : u = call[d].upto /\ b <= u /\ origin[call[c].pair] > u
                BY <1>1, <1>2, <3>1, <4>1, <4>2, <4>3 DEF IInv, LaterSessions
            <4>5. PICK o \in 1..b : o = origin[b]
                BY <1>2
            <4>6. origin[call[c].pair] = o
                BY <1>2, <2>3, <3>1, <3>4, <4>1, <4>5
            <4> QED BY <4>4, <4>5, <4>6
        <3>6. CASE Answered(c)
            <4>1. Mints(issued + 1, live)
                BY <1>2, <3>4, <3>6 DEF Answered
            <4>2. origin'[issued + 1] = issued + 1
                BY <1>1, <4>1, MintedOrigin
            <4> QED BY <1>2, <2>3, <3>1, <3>4, <4>2
        <3>7. CASE ~Replaced(c) /\ ~Answered(c)
            <4>1. issued' = issued
                BY <3>7, StepArrives DEF Begun, Renewed, Sent, GaveUp, Turned, Checked, Refusal, Over, Calm
            <4> QED BY <1>2, <3>4, <4>1
        <3> QED BY <3>5, <3>6, <3>7
    <2> QED BY <2>1, <2>2, <2>3
<1>4. CASE d = c
    <2>1. pc[c] \notin Refreshing /\ pc'[c] \notin Refreshing
        <3>1. pc'[c] \notin Refreshing
            BY <1>1, <1>4 DEF Summary, Typed, CallFits
        <3>2. pc[c] \in Refreshing => call'[c].retried = call[c].retried
            BY <3>1, StepArrives DEF Begun, Renewed, Sent, GaveUp, Turned, Checked, Refusal, Replaced, Over, Answered,
                                     SameBody, Refreshing
        <3> QED BY <1>1, <1>4, <3>1, <3>2 DEF Typed, CallFits
    <2>2. Begun(c) \/ Sent(c) \/ Answered(c) \/ Over(c)
        BY <2>1, StepArrives DEF Renewed, GaveUp, Turned, Checked, Refusal, Replaced, Refreshing
    <2>3. CASE Begun(c)
        BY <1>4, <2>3 DEF Begun, Keeps
    <2>4. CASE Sent(c)
        BY <1>1, <1>4, <2>4 DEF Sent, Keeps, SameBody, IInv, LogoutsName
    <2>5. CASE Answered(c)
        <3> SUFFICES ASSUME call'[c].result = "ok", NEW n \in live', origin'[n] = origin'[call[c].body] PROVE FALSE
            BY <1>4, <2>5 DEF Answered, SameBody
        <3>1. call[c].body = store /\ store # 0 /\ pc[c] = "sent"
            BY <1>1, <1>4, <2>5 DEF Answered, SameBody, SameNames, IInv, LogoutsName
        <3>2. \A e \in Call \ {c} : ~Touches(e)
            BY <1>4, <2>5, OthersCalm DEF Running, Answered
        <3>3. Sole(store)
            BY <1>1, <3>1, <3>2 DEF IInv, SessionsAreSole, Touches, Refreshing
        <3>4. live' = live \ {store}
            BY <1>4, <2>5, <3>1 DEF Answered, SameNames
        <3> QED BY <1>2, <3>1, <3>3, <3>4 DEF Sole
    <2>6. CASE Over(c)
        BY <1>1, <1>4, <2>6 DEF Over, Calm, SameBody, SameNames, IInv, LogoutsName
    <2> QED BY <2>2, <2>3, <2>4, <2>5, <2>6
<1> QED BY <1>3, <1>4

LEMMA CallsKeep == ASSUME IInv, NEW c \in Call, Step(c), Records PROVE IInv'
<1>1. Typed' /\ LoginsComeFirst' /\ RunnersMeet'
    BY StepDoes, MeetsKeep DEF Summary, IInv
<1> QED BY <1>1, KeepsLast, KeepsRefreshes, KeepsSession, KeepsRetries, KeepsIdentity, KeepsSole, KeepsLogins,
           KeepsNames, KeepsLater DEF IInv

\* Tokens that expire, and steps that change nothing of the calls.
LEMMA ExpiryKeeps ==
    ASSUME IInv, UNCHANGED <<app, store, last, issued, origin, pc, call, cut>>,
           live' \subseteq live, fresh' \subseteq fresh,
           RunnersMeet', met' \in [Call -> SUBSET Call],
           emptied \subseteq emptied', emptied' \subseteq Call,
           \A c \in Call : met[c] \subseteq met'[c], Overlapped => Overlapped'
    PROVE  IInv'
<1> USE DEF IInv
<1>1. Typed'
    <2>1. \A c \in Call : CallFits(c)'
        BY DEF Typed, CallFits, LoggedIn
    <2>2. TypeOK'
        BY DEF Typed, TypeOK
    <2> QED BY <2>1, <2>2 DEF Typed
<1>2. StoreIsLast' /\ LoginsComeFirst'
    BY DEF StoreIsLast, LoginsComeFirst
<1>3. Quiet' => Quiet
    BY DEF Quiet
<1>9. Unforked' => Unforked
    BY DEF Unforked, Forked, Retried
<1>4. RefreshesHeld' /\ RetriesHaveSession' /\ RetryKeepsIdentity'
    BY <1>3 DEF RefreshesHeld, RetriesHaveSession, RetryKeepsIdentity
<1>5. SessionLostOnlyByOverlap'
    BY DEF SessionLostOnlyByOverlap, LoggedOut
<1>6. SessionsAreSole'
    <2>1. \A n : Sole(n) => \A m \in live' : origin'[m] = origin'[n] => m = n
        BY DEF Sole
    <2> QED BY <1>9, <2>1 DEF SessionsAreSole, Sole
<1>10. LoginsAreNew'
    BY DEF LoginsAreNew, Sole, LoggedIn
<1>7. LogoutsName'
    BY <1>9 DEF LogoutsName
<1>8. LaterSessions'
    BY DEF LaterSessions, LoggedOut, LoggedIn
<1> QED BY <1>1, <1>2, <1>4, <1>5, <1>6, <1>7, <1>8, <1>10

LEMMA NextIInv == IInv /\ [Next]_vars => IInv'
<1> SUFFICES ASSUME IInv, [Next]_vars PROVE IInv'
    OBVIOUS
<1>1. CASE UNCHANGED vars
    <2>1. RunnersMeet' /\ (Overlapped => Overlapped')
        BY <1>1 DEF vars, IInv, RunnersMeet, Running, Touches, Overlapped
    <2>2. met' \in [Call -> SUBSET Call] /\ emptied' \subseteq Call
        BY <1>1 DEF vars, IInv, Typed, TypeOK
    <2> QED BY <1>1, <2>1, <2>2, ExpiryKeeps DEF vars
<1>2. ASSUME NEW c \in Call, Step(c), Records PROVE IInv'
    BY <1>2, CallsKeep
<1>3. ASSUME NEW n \in Pair, Expire(n) \/ Lapse(n), Records PROVE IInv'
    <2>1. /\ UNCHANGED <<app, store, last, issued, origin, pc, call, cut>>
          /\ live' \subseteq live /\ fresh' \subseteq fresh
        BY <1>3 DEF Expire, Lapse
    <2>2. /\ RunnersMeet' /\ met' \in [Call -> SUBSET Call]
          /\ emptied \subseteq emptied' /\ emptied' \subseteq Call
          /\ \A c \in Call : met[c] \subseteq met'[c]
          /\ Overlapped => Overlapped'
        BY <1>3, MeetsKeep DEF IInv
    <2> QED BY <2>1, <2>2, ExpiryKeeps
<1> QED BY <1>1, <1>2, <1>3 DEF Next

\* The client's invariant holds in every state.
THEOREM SdkInvariance == Spec => []IInv
<1> QED BY InitIInv, NextIInv, PTL DEF Spec

-----------------------------------------------------------------------------
\* client.py _refresh: a client that never logged out loses a session the
\* platform would still renew only where calls overlapped or a refresh was cut.
THEOREM SessionsAreNotLost == Spec => []SessionHolds
<1>1. IInv => SessionHolds
    BY DEF IInv, Typed, SessionHolds
<1> QED BY <1>1, SdkInvariance, PTL

\* _http.py build_headers: a call is retried in the name it went out in, unless
\* another call emptied the store between its refresh and its retry.
THEOREM RetriesKeepTheirName == Spec => []RetryKeepsIdentity
<1>1. IInv => RetryKeepsIdentity
    BY DEF IInv
<1> QED BY <1>1, SdkInvariance, PTL

\* resources/sync.py logout: the session is over on both sides, unless a call
\* could touch the store while the logout ran, the logout had to be retried, or
\* before it two calls that ran at once both refreshed or a refresh was cut off.
THEOREM LogoutIsFinal == Spec => []LogoutHolds
<1>1. IInv => LogoutHolds
    <2> SUFFICES ASSUME IInv PROVE LogoutHolds
        OBVIOUS
    <2>1. LoggedOutUnlessOverlapped
        BY DEF IInv, LaterSessions, LoggedOutUnlessOverlapped
    <2>2. LogoutEndsSessionUnlessRetried
        BY DEF IInv, LogoutsName, Unforked, LoggedOut, LogoutEndsSessionUnlessRetried
    <2> QED BY <2>1, <2>2 DEF LogoutHolds
<1> QED BY <1>1, SdkInvariance, PTL
=============================================================================
