------------------------------- MODULE Guard -------------------------------
(***************************************************************************)
(* The server's request path (server.go Handler and guard): a request is   *)
(* authorised by bearer token or signed URL, its method is checked, and on *)
(* the metered routes it is admitted against the client budget, whose key  *)
(* is the verified subject or the source IP.  A backend mints the URLs on  *)
(* a clock of its own.                                                     *)
(*                                                                         *)
(* Authorisation and admission read the clock separately: a request is in  *)
(* stage "admit" between them.                                             *)
(***************************************************************************)
EXTENDS ClientBudget, Sequences

CONSTANTS
  Configs,        \* the server's options: [token, keys]
  IssuerKeys,     \* the keys backends sign with, current and retired
  Subjects, IPs,  \* signed subjects, "" among them, and source addresses
  Leeway, MaxTTL, MaxInt, Epoch,  \* see SignedURL
  TooLong,        \* subjects, and tokens with their scheme, over their limits
  Boot,           \* the server's wall clock at tick 0
  Skews,          \* how far the issuer's clock may be ahead of the server's
  TTLs,           \* validities the issuer asks for
  MaxURLs         \* bound of the model: URLs minted

\* No token, no credential, no subject.
Empty == ""

\* The budget key of a subject.
Prefixed(sub) == "sub:" \o sub

\* The budget is keyed by addresses and by subjects with a prefix that no
\* address begins with, and charges a metered request R at most.  The leeway
\* is shorter than the range of the clock, and no URL lives up to its end.
ASSUME GuardAssumption ==
  /\ R \in Caps
  /\ IPs \subseteq Keys /\ Empty \in Subjects
  /\ \A s \in Subjects \ (TooLong \cup {Empty}) : Prefixed(s) \in Keys \ IPs
  /\ \A s, t \in Subjects : Prefixed(s) = Prefixed(t) => s = t
  /\ \A c \in Configs : c = [token |-> c.token, keys |-> c.keys]
  /\ Boot \in Nat /\ Leeway \in Nat /\ MaxTTL \in Nat /\ Epoch \in Nat /\ MaxInt \in Nat
  /\ Skews \subseteq Int /\ TTLs \subseteq Nat
  /\ Leeway <= MaxInt
  /\ Boot + MaxTime + Leeway + MaxTTL + Second * (Epoch + 1) <= Second * MaxInt

INSTANCE SignedURL

\* The routes of Handler: the request cap of metered ones, and whether a
\* signed URL opens it.
Routes ==
  [config |-> [cap |-> 0, signed |-> FALSE, methods |-> {}],
   small  |-> [cap |-> 0, signed |-> TRUE,  methods |-> {"GET", "HEAD"}],
   large  |-> [cap |-> R, signed |-> TRUE,  methods |-> {"GET"}],
   upload |-> [cap |-> R, signed |-> TRUE,  methods |-> {"POST", "PUT"}]]

VARIABLES
  opt,     \* Options.AuthToken and Options.SigningKeys
  skew,    \* the issuer's clock minus the server's
  wallet,  \* the URLs minted, with the validity asked for
  call     \* the request each handler goroutine works on

gvars == <<now, seen, heap, allocated, req, moved, due, opt, skew, wallet, call>>
Outside == <<opt, skew, wallet>>

NoCall == [stage |-> "none"]
NoURL == [path |-> "none"]
Wall == Boot + now

GuardInit ==
  /\ Init
  /\ opt \in Configs /\ skew \in Skews
  /\ wallet = {}
  /\ call = [h \in Handlers |-> NoCall]

\* A backend of a server with keys signs a test URL that is to live for ttl.
Mint ==
  /\ opt.keys # {} /\ Cardinality(wallet) < MaxURLs
  /\ \E key \in IssuerKeys, path \in DOMAIN Routes, ttl \in TTLs, sub \in Subjects :
       wallet' = wallet \cup
         {[url |-> SignURL(key, path, Wall + skew + ttl, sub), ttl |-> ttl]}
  /\ UNCHANGED <<vars, opt, skew, call>>

(***************************************************************************)
(* guard                                                                   *)
(***************************************************************************)
\* authorize: the credential is the token.  A header over the limit is no
\* credential, so a token that fills one never matches.
Bearer(q) == opt.token # Empty /\ q.cred = opt.token /\ q.cred \notin TooLong

\* A signed URL on this route, with its parameters as the request has them.
Signed(q) ==
  Routes[q.route].signed /\ q.url # NoURL /\ verifySignature(q.url, opt.keys, Wall)

Authed == opt.token # Empty \/ opt.keys # {}

Authorised(q) == Authed => Bearer(q) \/ Signed(q)

\* The budget key; the token is tried first, and a subject has a prefix.
BareKey(sub) == sub
SubjectKey(sub) == Prefixed(sub)
BudgetKey(q) ==
  IF Authed /\ ~Bearer(q) /\ q.url.sub # Empty THEN SubjectKey(q.url.sub) ELSE q.ip

\* History: whom the budget should charge, the verified subject or the address.
Client(q) ==
  IF ~Authed \/ (opt.token \notin TooLong \cup {Empty} /\ q.cred = opt.token) \/ q.url.sub = Empty
  THEN <<"address", q.ip>> ELSE <<"subject", q.url.sub>>

MethodAllowed(q) == Routes[q.route].methods # {} => q.method \in Routes[q.route].methods

\* Whom the guard lets on to the route.
LetIn(q) == Authorised(q) /\ MethodAllowed(q)

\* The URL parameters a request may carry: those of a minted URL on any route,
\* or with one of them altered.  A credential is the token or none.
Altered(url, route) ==
  { [url EXCEPT !.path = route], [url EXCEPT !.path = route, !.sub = Empty],
    [url EXCEPT !.path = route, !.exp = @ + 1] }

Presented(route) == {NoURL} \cup UNION {Altered(w.url, route) : w \in wallet}

Requests ==
  UNION {[route : {route}, method : {"GET", "POST"}, cred : {Empty, opt.token}, ip : IPs, url : Presented(route)]
           : route \in DOMAIN Routes}

\* 401 or 405: the request is over and has changed nothing.
Refuse(h) ==
  /\ call[h] = NoCall
  /\ ~ \A q \in Requests : LetIn(q)
  /\ UNCHANGED gvars

\* A request past the guard.
Arrive(h) ==
  /\ call[h] = NoCall
  /\ \E q \in Requests :
       /\ LetIn(q)
       /\ call' = [call EXCEPT ![h] =
            IF Routes[q.route].cap = 0 THEN [stage |-> "unmetered"]
            ELSE [stage |-> "admit", cap |-> Routes[q.route].cap,
                  key |-> BudgetKey(q), for |-> Client(q)]]
  /\ UNCHANGED <<vars, Outside>>

Forget(h) == call' = [call EXCEPT ![h] = NoCall]

\* The metered part: admit with the key found above, then the handler.
Admission(h) ==
  /\ call[h].stage = "admit"
  /\ \/ Admit(h, call[h].key, call[h].cap) /\ call' = [call EXCEPT ![h].stage = "serve"]
     \/ RefuseBytes(h, call[h].key) /\ Forget(h)
     \/ RefuseConcurrency(h, call[h].key) /\ Forget(h)
  /\ UNCHANGED Outside

Serve(h) ==
  /\ call[h].stage = "serve"
  /\ \/ Transfer(h) /\ UNCHANGED call
     \/ Return(h) /\ Forget(h)
     \/ Panic(h) /\ Forget(h)
  /\ UNCHANGED Outside

\* An unmetered route writes its answer.
Reply(h) ==
  /\ call[h].stage = "unmetered"
  /\ Forget(h)
  /\ UNCHANGED <<vars, Outside>>

GuardTick == Tick /\ UNCHANGED <<opt, skew, wallet, call>>

GuardNext ==
  \/ GuardTick \/ Mint
  \/ \E h \in Handlers : Refuse(h) \/ Arrive(h) \/ Admission(h) \/ Serve(h) \/ Reply(h)

GuardSpec == GuardInit /\ [][GuardNext]_gvars
-----------------------------------------------------------------------------
\* The validity of a minted URL, in plain arithmetic on the expiry it names.
Valid(url, t) ==
  /\ t <= url.exp * Second + Leeway
  /\ url.exp * Second <= t + MaxTTL + Leeway

\* Some backend holding an accepted key minted these very parameters for this
\* very route.
Minted(q) ==
  \E w \in wallet : w.url = q.url /\ w.url.path = q.route /\ w.url.sig[1] \in opt.keys

\* The decision on a request reads no request in progress, so the properties of
\* decisions are evaluated in the states without one.
Quiet == call = [h \in Handlers |-> NoCall]

\* A request gets past the guard only with the token, or on a test route with
\* a URL minted for that route, unaltered, within its lifetime and the leeway
\* in exact arithmetic, whatever the 64-bit clock conversion did.
ServedWereEntitled ==
  Quiet => \A q \in Requests : LetIn(q) =>
    \/ opt = [token |-> Empty, keys |-> {}]
    \/ opt.token # Empty /\ q.cred = opt.token
    \/ q.route # "config" /\ Minted(q) /\ Valid(q.url, Wall)

\* No 401 for an honest URL: if the issuer's clock is within the leeway of the
\* server's and the lifetime it asked for within MaxSignatureTTL, the URL opens
\* its route for as long as the issuer's own clock says it has not expired.
HonestURLsAccepted ==
  Quiet /\ skew \in (0 - Leeway)..Leeway =>
    \A q \in Requests :
      /\ Minted(q) /\ q.route # "config" /\ q.url.sub \notin TooLong
      /\ \E w \in wallet : w.url = q.url /\ w.ttl <= MaxTTL
      /\ Wall + skew <= q.url.exp * Second
      => Authorised(q)

\* Two requests that share a bucket come from one client: a subject never
\* draws on, or exhausts, the budget of an address or of another subject.
BucketsAreNotShared ==
  \A g, h \in {i \in Handlers : call[i].stage \in {"admit", "serve"}} :
    call[g].key = call[h].key <=> call[g].for = call[h].for
=============================================================================
