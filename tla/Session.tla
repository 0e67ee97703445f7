------------------------------- MODULE Session -------------------------------
(***************************************************************************)
(* A login session of examples/jwt.rs: the token and the cookie that       *)
(* carries it (src/jwt.rs), the browser that keeps it, and the requests    *)
(* and responses between them, which may be late, lost or out of order.    *)
(* The server keeps nothing: a restart changes only what it is started     *)
(* with.  The clock counts half seconds, as a token's times are whole      *)
(* seconds and a cookie's age is not.                                      *)
(***************************************************************************)
EXTENDS Integers, FiniteSets

CONSTANTS
    Users,      \* user names
    Secrets,    \* values of --jwt-secret
    Life,       \* the seven days, in seconds
    Leeway,     \* jsonwebtoken's leeway, in seconds
    MaxNow,     \* bound: when the clock stops
    MaxNet      \* bound: messages on their way at once

ASSUME LifeAssumption == Life \in Nat \ {0}
ASSUME LeewayAssumption == Leeway \in Nat

VARIABLES
    now,        \* the clock, in half seconds
    server,     \* the AppState of the running process
    jar,        \* the cookies the browser holds
    net,        \* requests and responses on their way
    lastSet     \* history: the last cookie header the browser obeyed

vars == <<now, server, jar, net, lastSet>>

Sec(t) == t \div 2

None == [kind |-> "none"]

(***************************************************************************)
(* jwt.rs: configuration, claims, cookies.                                 *)
(***************************************************************************)

\* Both keys come from the one secret.
JwtConfig(secret) == [encoding |-> secret, decoding |-> secret]

\* Fault: the two periods of the session added up.
ClaimsLong(user) == [user |-> user, exp |-> Sec(now) + 2 * Life + Leeway, iat |-> Sec(now)]

\* Claims::new: the fraction of the second is dropped after the addition.
ClaimsNew(user) == [user |-> user, exp |-> Sec(now + 2 * Life), iat |-> Sec(now)]

\* Claims::encode; born is history.
Encode(claims, config) ==
    [kind |-> "token", claims |-> claims, key |-> config.encoding, born |-> now]

\* Claims::to_cookie
ToCookie(claims, config) ==
    [path |-> "/", token |-> Encode(claims, config), maxAge |-> Life]

\* Fault: without a path the browser takes the directory of /api/logout.
LogoutCookieNoPath == [path |-> "/api", token |-> None, maxAge |-> -1]

\* It has the name and the path of the login's cookie, and has expired.
LogoutCookie == [path |-> "/", token |-> None, maxAge |-> -1]

\* Fault: the leeway is subtracted from the expiry.
DecodesEarly(token, config) ==
    /\ token.key = config.decoding
    /\ token.claims.exp >= Sec(now) + Leeway

\* Claims::decode under Validation::default(), whose leeway applies to exp.
Decodes(token, config) ==
    /\ token.key = config.decoding
    /\ token.claims.exp + Leeway >= Sec(now)

\* jwt_auth_middleware: what it puts into the request's extensions, or why it
\* answers 401 itself.
Middleware(token) ==
    IF token = None THEN "Missing token"
    ELSE IF Decodes(token, server.jwt_config) THEN "claims" ELSE "Invalid token"

\* The extractor Claims finds what the middleware left, and nothing else; a
\* request the middleware answers does not come as far.
Extracted(token) == IF Middleware(token) = "claims" THEN {token.claims} ELSE {}

(***************************************************************************)
(* Types.                                                                  *)
(***************************************************************************)

Configs == [encoding : Secrets, decoding : Secrets]

AppStates == [username : Users, jwt_config : Configs]

Tokens == [kind : {"token"}, claims : [user : Users, exp : Nat, iat : Nat],
           key : Secrets, born : Nat]

\* A cookie in the browser: when it came and until when it is sent.
Kept == [path : {"/"}, token : Tokens, got : Nat, until : Nat]

Messages ==
    [kind : {"login"}, user : Users, password : BOOLEAN]
    \cup [kind : {"logout"}]
    \cup [kind : {"set"}, path : {"/"}, token : Tokens \cup {None}, maxAge : {Life, -1}]
    \cup [kind : {"me"}, token : Tokens, got : Nat, sent : Nat]
    \cup [kind : {"me"}, token : {None}]
    \cup [kind : {"user"}, username : Users]
    \cup [kind : {"401"}]

\* Only the life of a token is kept against the clock, as every other time is
\* a copy of it.
TypeOK ==
    /\ now \in Nat
    /\ server \in AppStates
    /\ jar \subseteq Kept
    /\ net \subseteq Messages
    /\ lastSet \in {"none", "login", "logout"}

(***************************************************************************)
(* The program.                                                            *)
(***************************************************************************)

\* main of examples/jwt.rs: user, password and secret are arguments.
Start(user, secret) == [username |-> user, jwt_config |-> JwtConfig(secret)]

Init ==
    /\ now = 0
    /\ \E user \in Users, secret \in Secrets : server = Start(user, secret)
    /\ jar = {}
    /\ net = {}
    /\ lastSet = "none"

\* The process is stopped and started again, perhaps with other arguments.
Restart ==
    /\ \E user \in Users, secret \in Secrets : server' = Start(user, secret)
    /\ UNCHANGED <<now, jar, net, lastSet>>

\* Wrong credentials are answered without a cookie.  So are the failures of
\* bcrypt and of the encoder, with another status.
LoginHandler(m) ==
    /\ m \in net
    /\ m.kind = "login"
    /\ \/ /\ m.user = server.username
          /\ m.password
          /\ LET cookie == ToCookie(ClaimsNew(m.user), server.jwt_config)
             IN  net' = (net \ {m}) \cup
                        {[kind |-> "set", path |-> cookie.path, token |-> cookie.token,
                          maxAge |-> cookie.maxAge]}
       \/ /\ m.user # server.username \/ ~m.password
          /\ net' = (net \ {m}) \cup {[kind |-> "401"]}
    /\ UNCHANGED <<now, server, jar, lastSet>>

LogoutHandler(m) ==
    /\ m \in net
    /\ m.kind = "logout"
    /\ net' = (net \ {m}) \cup
              {[kind |-> "set", path |-> LogoutCookie.path, token |-> LogoutCookie.token,
                maxAge |-> LogoutCookie.maxAge]}
    /\ UNCHANGED <<now, server, jar, lastSet>>

\* /api/me: behind the middleware, the handler names the user of the claims.  No
\* answer has a cookie.
GetCurrentUser(m) ==
    /\ m \in net
    /\ m.kind = "me"
    /\ \/ \E claims \in Extracted(m.token) :
            net' = (net \ {m}) \cup {[kind |-> "user", username |-> claims.user]}
       \/ /\ Extracted(m.token) = {}
          /\ net' = (net \ {m}) \cup {[kind |-> "401"]}
    /\ UNCHANGED <<now, server, jar, lastSet>>

(***************************************************************************)
(* The browser and the network.                                            *)
(***************************************************************************)

Fresh == {c \in jar : now < c.until}

Request ==
    [kind : {"login"}, user : Users, password : BOOLEAN]
    \cup [kind : {"logout"}]
    \cup {[kind |-> "me", token |-> c.token, got |-> c.got, sent |-> now] : c \in Fresh}
    \cup (IF Fresh = {} THEN {[kind |-> "me", token |-> None]} ELSE {})

\* The page sends a request, with the cookie if it has not expired.
Send(m) ==
    /\ Cardinality(net) < MaxNet
    /\ net' = net \cup {m}
    /\ UNCHANGED <<now, server, jar, lastSet>>

\* Set-Cookie replaces the cookie of that path, or removes it.
Receive(m) ==
    /\ m \in net
    /\ m.kind = "set"
    /\ net' = net \ {m}
    /\ jar' = {c \in jar : c.path # m.path} \cup
              (IF m.maxAge > 0
                 THEN {[path |-> m.path, token |-> m.token, got |-> now,
                        until |-> now + 2 * m.maxAge]}
                 ELSE {})
    /\ lastSet' = IF m.token = None THEN "logout" ELSE "login"
    /\ UNCHANGED <<now, server>>

\* A message is lost, or an answer that only the page shows has come.
Lose(m) ==
    /\ m \in net
    /\ net' = net \ {m}
    /\ UNCHANGED <<now, server, jar, lastSet>>

Tick ==
    /\ now < MaxNow
    /\ now' = now + 1
    /\ UNCHANGED <<server, jar, net, lastSet>>

Next ==
    \/ Restart
    \/ \E m \in net : \/ LoginHandler(m)
                      \/ LogoutHandler(m)
                      \/ GetCurrentUser(m)
                      \/ Receive(m)
                      \/ Lose(m)
    \/ \E m \in Request : Send(m)
    \/ Tick

Spec == Init /\ [][Next]_vars

(***************************************************************************)
(* Properties.                                                             *)
(***************************************************************************)

\* The requests on their way to /api/me that carry a token.
Carrying == {m \in net : m.kind = "me" /\ m.token # None}

\* A browser that still sends its cookie is let in: token and cookie are dated
\* separately, one in whole seconds at the login and one at the receipt, and
\* only a changed secret or delays on the way beyond the leeway can part them
\* (jwt.rs:153-159, 213, 241).
LiveCookieAccepted ==
    \A m \in Carrying :
        \/ m.token.key # server.jwt_config.decoding
        \/ (m.got - m.token.born) + (now - m.sent) > 2 * Leeway
        \/ Middleware(m.token) = "claims"

\* Nobody is let in for longer than the life and the leeway after the login,
\* however often the process restarts, whoever its user is by then, and however
\* late the browser learned of its cookie (jwt.rs:237-244).
AcceptedInTime ==
    \A m \in Carrying :
        Middleware(m.token) = "claims" => now < m.token.born + 2 * (Life + Leeway + 1)

\* After a logout the browser has no cookie, until a login's response comes
\* (jwt.rs:59-66, examples/jwt.rs:305-316).
LogoutClears == lastSet = "logout" => jar = {}
=============================================================================
