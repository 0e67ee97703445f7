--------------------------- MODULE SessionProofs ---------------------------
(***************************************************************************)
(* What holds of Session for all users, secrets, lives and leeways, and    *)
(* however long the clock runs.                                            *)
(***************************************************************************)
EXTENDS Session, TLAPS

(***************************************************************************)
(* The inductive invariant.                                                *)
(***************************************************************************)

\* A token expires a life after the second in which it was made.
Dated(t) == /\ t.claims.exp = Sec(t.born + 2 * Life)
            /\ t.born <= now

\* The cookies in the browser, with the dates their header gave them.
JarDated ==
    \A c \in jar : /\ Dated(c.token)
                   /\ c.token.born <= c.got
                   /\ c.got <= now
                   /\ c.until = c.got + 2 * Life

\* The cookies on their way to it.
SetDated ==
    \A m \in net : m.kind = "set" =>
        IF m.token = None THEN m.maxAge = -1 ELSE m.maxAge = Life /\ Dated(m.token)

\* The requests that carry one: it was sent while the browser kept it.
CarryingDated ==
    \A m \in Carrying : /\ Dated(m.token)
                        /\ m.token.born <= m.got
                        /\ m.got <= m.sent
                        /\ m.sent <= now
                        /\ m.sent < m.got + 2 * Life

IInv == TypeOK /\ JarDated /\ SetDated /\ CarryingDated /\ LogoutClears

(***************************************************************************)
(* What the messages are.                                                  *)
(***************************************************************************)

LEMMA TokenNotNone == \A t \in Tokens : t # None
  BY DEF Tokens, None

LEMMA KindsLogin ==
    ASSUME NEW m \in Messages, m.kind = "login"
    PROVE  m \in [kind : {"login"}, user : Users, password : BOOLEAN]
  BY DEF Messages

LEMMA KindsSet ==
    ASSUME NEW m \in Messages, m.kind = "set"
    PROVE  m \in [kind : {"set"}, path : {"/"}, token : Tokens \cup {None}, maxAge : {Life, -1}]
  BY DEF Messages

LEMMA KindsMe ==
    ASSUME NEW m \in Messages, m.kind = "me", m.token # None
    PROVE  m \in [kind : {"me"}, token : Tokens, got : Nat, sent : Nat]
  BY DEF Messages

\* The halves of a number.
LEMMA SecOf == \A t \in Nat : Sec(t) \in Nat /\ 2 * Sec(t) <= t /\ t < 2 * Sec(t) + 2
  BY DEF Sec

(***************************************************************************)
(* Init and the steps.                                                     *)
(***************************************************************************)

LEMMA IInvInit == Init => IInv
<1> SUFFICES ASSUME Init PROVE IInv
  OBVIOUS
<1>1. server \in AppStates
  BY DEF Init, Start, JwtConfig, AppStates, Configs
<1>2. TypeOK
  BY <1>1 DEF Init, TypeOK
<1>3. QED
  BY <1>2 DEF Init, IInv, JarDated, SetDated, CarryingDated, Carrying, LogoutClears

LEMMA LoginKeeps == \A m \in net : IInv /\ LoginHandler(m) => IInv'
<1> SUFFICES ASSUME NEW m \in net, IInv, LoginHandler(m) PROVE IInv'
  OBVIOUS
<1> USE LifeAssumption
<1> DEFINE tok == Encode(ClaimsNew(m.user), server.jwt_config)
           new == [kind |-> "set", path |-> "/", token |-> tok, maxAge |-> Life]
<1>1. m \in [kind : {"login"}, user : Users, password : BOOLEAN]
  BY KindsLogin DEF IInv, TypeOK, LoginHandler
<1>2. tok \in Tokens /\ Dated(tok)
  <2>1. Sec(now + 2 * Life) \in Nat /\ Sec(now) \in Nat
    BY SecOf DEF IInv, TypeOK
  <2>2. server.jwt_config.encoding \in Secrets
    BY DEF IInv, TypeOK, AppStates, Configs
  <2>3. QED
    BY <1>1, <2>1, <2>2 DEF Encode, ClaimsNew, Tokens, Dated, IInv, TypeOK
<1>3. tok # None
  BY <1>2, TokenNotNone
<1>4. net' = (net \ {m}) \cup {new} \/ net' = (net \ {m}) \cup {[kind |-> "401"]}
  BY DEF LoginHandler, ToCookie
<1>5. UNCHANGED <<now, server, jar, lastSet>>
  BY DEF LoginHandler
<1>6. new \in Messages /\ [kind |-> "401"] \in Messages
  BY <1>2 DEF Messages
<1>7. TypeOK'
  BY <1>4, <1>5, <1>6 DEF IInv, TypeOK
<1>8. SetDated'
  BY <1>2, <1>3, <1>4, <1>5 DEF IInv, SetDated, Dated
<1>9. CarryingDated'
  BY <1>4, <1>5 DEF IInv, CarryingDated, Carrying, Dated
<1>10. JarDated' /\ LogoutClears'
  BY <1>5 DEF IInv, JarDated, Dated, LogoutClears
<1>11. QED BY <1>7, <1>8, <1>9, <1>10 DEF IInv

\* The messages that carry no token.
Plain == {k \in Messages : \/ k.kind \notin {"set", "me"}
                           \/ k.kind = "set" /\ k.token = None /\ k.maxAge = -1
                           \/ k.kind = "me" /\ k.token = None}

\* The steps that only take messages away or add plain ones.
LEMMA PlainKeeps ==
    ASSUME IInv, net' \subseteq net \cup Plain, server' \in AppStates,
           UNCHANGED <<now, jar, lastSet>>
    PROVE  IInv'
<1>1. TypeOK'
  BY DEF IInv, TypeOK, Plain
<1>2. SetDated' /\ CarryingDated'
  BY DEF Plain, IInv, SetDated, CarryingDated, Carrying, Dated
<1>3. JarDated' /\ LogoutClears'
  BY DEF IInv, JarDated, Dated, LogoutClears
<1>4. QED BY <1>1, <1>2, <1>3 DEF IInv

LEMMA SendKeeps == \A m \in Request : IInv /\ Send(m) => IInv'
<1> SUFFICES ASSUME NEW m \in Request, IInv, Send(m) PROVE IInv'
  OBVIOUS
<1>1. CASE m \in [kind : {"login"}, user : Users, password : BOOLEAN]
             \cup [kind : {"logout"}] \cup {[kind |-> "me", token |-> None]}
  <2>1. m \in Plain
    BY <1>1 DEF Messages, Plain
  <2>2. QED
    BY <2>1, PlainKeeps DEF Send, IInv, TypeOK
<1>2. ASSUME NEW c \in Fresh,
             m = [kind |-> "me", token |-> c.token, got |-> c.got, sent |-> now]
      PROVE  IInv'
  <2>1. c \in jar /\ c \in Kept /\ now < c.until
    BY DEF Fresh, IInv, TypeOK
  <2>2. c.token \in Tokens /\ c.got \in Nat /\ m \in Messages
    BY <1>2, <2>1 DEF Kept, Messages, IInv, TypeOK
  <2>3. TypeOK'
    BY <2>2 DEF Send, IInv, TypeOK
  <2>4. SetDated' /\ JarDated' /\ LogoutClears'
    BY <1>2 DEF Send, IInv, SetDated, JarDated, Dated, LogoutClears
  <2>5. CarryingDated'
    BY <1>2, <2>1, <2>2 DEF Send, IInv, TypeOK, JarDated, CarryingDated, Carrying, Dated
  <2>6. QED BY <2>3, <2>4, <2>5 DEF IInv
<1>3. QED BY <1>1, <1>2 DEF Request

LEMMA ReceiveKeeps == \A m \in net : IInv /\ Receive(m) => IInv'
<1> SUFFICES ASSUME NEW m \in net, IInv, Receive(m) PROVE IInv'
  OBVIOUS
<1> USE LifeAssumption
<1> DEFINE new == [path |-> m.path, token |-> m.token, got |-> now,
                   until |-> now + 2 * m.maxAge]
<1>1. m \in [kind : {"set"}, path : {"/"}, token : Tokens \cup {None}, maxAge : {Life, -1}]
  BY KindsSet DEF Receive, IInv, TypeOK
<1>2. \A c \in jar : c.path = m.path
  BY <1>1 DEF IInv, TypeOK, Kept
<1>3. net' = net \ {m} /\ UNCHANGED <<now, server>>
  BY DEF Receive
<1>4. SetDated' /\ CarryingDated'
  BY <1>3 DEF IInv, SetDated, CarryingDated, Carrying, Dated
<1>5. CASE m.token = None
  <2>1. jar' = {} /\ lastSet' = "logout"
    BY <1>1, <1>2, <1>5 DEF Receive, IInv, SetDated
  <2>2. QED
    BY <1>3, <1>4, <2>1 DEF IInv, TypeOK, JarDated, LogoutClears
<1>6. CASE m.token # None
  <2>1. m.maxAge = Life /\ Dated(m.token) /\ m.token \in Tokens
    BY <1>1, <1>6 DEF IInv, SetDated, Receive
  <2>2. jar' = {new} /\ lastSet' = "login"
    BY <1>2, <1>6, <2>1 DEF Receive
  <2>3. new \in Kept
    BY <1>1, <2>1 DEF Kept, IInv, TypeOK
  <2>4. m.token.born \in Nat
    BY <2>1 DEF Tokens
  <2>5. TypeOK' /\ LogoutClears'
    BY <1>3, <2>2, <2>3 DEF IInv, TypeOK, LogoutClears
  <2>6. JarDated'
    BY <1>3, <2>1, <2>2, <2>4 DEF IInv, TypeOK, JarDated, Dated
  <2>7. QED BY <1>4, <2>5, <2>6 DEF IInv
<1>7. QED BY <1>5, <1>6

LEMMA TickKeeps == IInv /\ Tick => IInv'
<1> SUFFICES ASSUME IInv, Tick PROVE IInv'
  OBVIOUS
<1>1. TypeOK' /\ LogoutClears'
  BY DEF Tick, IInv, TypeOK, LogoutClears
<1>2. \A t \in Tokens : Dated(t) => Dated(t)'
  BY DEF Tick, Dated, IInv, TypeOK, Tokens
<1>3. JarDated'
  <2> SUFFICES ASSUME NEW c \in jar
               PROVE  /\ Dated(c.token)'
                      /\ c.token.born <= c.got /\ c.got <= now'
                      /\ c.until = c.got + 2 * Life
    BY DEF Tick, JarDated
  <2>1. c \in Kept
    BY DEF IInv, TypeOK
  <2>2. QED BY <1>2, <2>1 DEF Tick, IInv, TypeOK, JarDated, Kept
<1>4. SetDated'
  <2> SUFFICES ASSUME NEW m \in net, m.kind = "set"
               PROVE  IF m.token = None THEN m.maxAge = -1
                                        ELSE m.maxAge = Life /\ Dated(m.token)'
    BY DEF Tick, SetDated
  <2>1. m.token \in Tokens \cup {None}
    BY KindsSet DEF IInv, TypeOK
  <2>2. QED BY <1>2, <2>1 DEF IInv, SetDated
<1>5. CarryingDated'
  <2> SUFFICES ASSUME NEW m \in Carrying
               PROVE  /\ Dated(m.token)'
                      /\ m.token.born <= m.got /\ m.got <= m.sent
                      /\ m.sent <= now' /\ m.sent < m.got + 2 * Life
    BY DEF Tick, CarryingDated, Carrying
  <2>1. m.token \in Tokens /\ m.sent \in Nat
    BY KindsMe DEF Carrying, IInv, TypeOK
  <2>2. QED BY <1>2, <2>1 DEF Tick, IInv, TypeOK, CarryingDated
<1>6. QED BY <1>1, <1>3, <1>4, <1>5 DEF IInv

LEMMA IInvNext == IInv /\ [Next]_vars => IInv'
<1> SUFFICES ASSUME IInv, [Next]_vars PROVE IInv'
  OBVIOUS
<1>1. server \in AppStates /\ net \subseteq Messages
  BY DEF IInv, TypeOK
<1>2. CASE Restart
  <2>1. server' \in AppStates
    BY <1>2 DEF Restart, Start, JwtConfig, AppStates, Configs
  <2>2. QED BY <1>2, <2>1, PlainKeeps DEF Restart
<1>3. ASSUME NEW m \in net, LoginHandler(m) \/ Receive(m) PROVE IInv'
  BY <1>3, LoginKeeps, ReceiveKeeps
<1>4. ASSUME NEW m \in net, LogoutHandler(m) PROVE IInv'
  <2> DEFINE gone == [kind |-> "set", path |-> "/", token |-> None, maxAge |-> -1]
  <2>1. gone \in Plain /\ net' \subseteq net \cup {gone}
    BY <1>4 DEF Messages, Plain, LogoutHandler, LogoutCookie
  <2>2. QED BY <1>1, <1>4, <2>1, PlainKeeps DEF LogoutHandler
<1>5. ASSUME NEW m \in net, GetCurrentUser(m) PROVE IInv'
  <2>1. PICK a : /\ net' = (net \ {m}) \cup {a}
                 /\ \/ a = [kind |-> "401"]
                    \/ /\ a = [kind |-> "user", username |-> m.token.claims.user]
                       /\ m.token # None
    BY <1>5 DEF GetCurrentUser, Extracted, Middleware
  <2>2. m.token # None => m.token \in Tokens
    BY <1>1, <1>5, KindsMe DEF GetCurrentUser
  <2>3. a \in Plain
    BY <2>1, <2>2 DEF Messages, Tokens, Plain
  <2>4. QED BY <1>1, <1>5, <2>1, <2>3, PlainKeeps DEF GetCurrentUser
<1>6. ASSUME NEW m \in net, Lose(m) PROVE IInv'
  BY <1>1, <1>6, PlainKeeps DEF Lose
<1>7. CASE UNCHANGED vars
  BY <1>1, <1>7, PlainKeeps DEF vars
<1>8. QED
  BY <1>2, <1>3, <1>4, <1>5, <1>6, <1>7, SendKeeps, TickKeeps DEF Next

THEOREM Invariance == Spec => []IInv
  BY IInvInit, IInvNext, PTL DEF Spec

(***************************************************************************)
(* What follows.                                                           *)
(***************************************************************************)

\* Every message and every cookie keeps its form: nothing but a login's token
\* or a logout's empty one is ever in a cookie, and always with the same path.
THEOREM TypeCorrect == Spec => []TypeOK
  BY Invariance, PTL DEF IInv

\* A live session is let in: the second that the token loses at its making and
\* the delays up to the leeway are covered by the leeway.
THEOREM LiveIsAccepted == Spec => []LiveCookieAccepted
<1>1. IInv => LiveCookieAccepted
  <2> SUFFICES ASSUME IInv, NEW m \in Carrying,
                      m.token.key = server.jwt_config.decoding,
                      ~((m.got - m.token.born) + (now - m.sent) > 2 * Leeway)
               PROVE  Middleware(m.token) = "claims"
    BY Zenon DEF LiveCookieAccepted
  <2> DEFINE t == m.token
  <2>1. t \in Tokens /\ m.got \in Nat /\ m.sent \in Nat /\ now \in Nat
    BY KindsMe DEF IInv, TypeOK, Carrying
  <2>2. t.born \in Nat /\ t # None
    BY <2>1, TokenNotNone DEF Tokens
  <2>3. now < t.born + 2 * Life + 2 * Leeway
    BY <2>1, <2>2, LifeAssumption, LeewayAssumption DEF IInv, CarryingDated
  <2>4. Sec(now) <= Sec(t.born + 2 * Life) + Leeway
    <3> DEFINE a == t.born + 2 * Life
    <3>1. a \in Nat
      BY <2>2, LifeAssumption
    <3>2. /\ Sec(now) \in Nat /\ 2 * Sec(now) <= now
          /\ Sec(a) \in Nat /\ a < 2 * Sec(a) + 2
      BY <2>1, <3>1, SecOf
    <3>3. now < a + 2 * Leeway
      BY <2>3
    <3>4. Sec(now) <= Sec(a) + Leeway
      <4> HIDE DEF a
      <4>1. QED BY <2>1, <3>1, <3>2, <3>3, LeewayAssumption
    <3>5. QED BY <3>4
  <2>5. Decodes(t, server.jwt_config)
    BY <2>4 DEF Decodes, IInv, CarryingDated, Dated
  <2>6. QED BY <2>2, <2>5 DEF Middleware
<1>2. QED BY <1>1, Invariance, PTL

\* No session outlives its login by more than its life and the leeway.
THEOREM AcceptanceEnds == Spec => []AcceptedInTime
<1>1. IInv => AcceptedInTime
  <2> SUFFICES ASSUME IInv, NEW m \in Carrying, Middleware(m.token) = "claims"
               PROVE  now < m.token.born + 2 * (Life + Leeway + 1)
    BY DEF AcceptedInTime
  <2> DEFINE t == m.token
             a == t.born + 2 * Life
  <2>1. t \in Tokens /\ now \in Nat /\ t # None
    BY KindsMe DEF IInv, TypeOK, Carrying
  <2>2. t.born \in Nat
    BY <2>1 DEF Tokens
  <2>3. a \in Nat
    BY <2>2, LifeAssumption
  <2>4. Decodes(t, server.jwt_config)
    BY <2>1 DEF Middleware
  <2>5. Sec(a) + Leeway >= Sec(now)
    BY <2>4 DEF Decodes, IInv, CarryingDated, Dated
  <2>6. /\ Sec(now) \in Nat /\ now < 2 * Sec(now) + 2
        /\ Sec(a) \in Nat /\ 2 * Sec(a) <= a
    BY <2>1, <2>3, SecOf
  <2>7. now < a + 2 * Leeway + 2
    <3> HIDE DEF a
    <3>1. QED BY <2>1, <2>3, <2>5, <2>6, LeewayAssumption
  <2>8. QED BY <2>2, <2>7, LifeAssumption, LeewayAssumption
<1>2. QED BY <1>1, Invariance, PTL

\* A logout that reached the browser leaves it without a cookie.
THEOREM LogoutIsLogout == Spec => []LogoutClears
  BY Invariance, PTL DEF IInv
=============================================================================
