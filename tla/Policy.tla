------------------------------- MODULE Policy -------------------------------
(***************************************************************************)
(* What the processes decide from a policy file, an environment and a      *)
(* request: Validate (config.go), the two modes of authentication          *)
(* (access.go), who gets past the HTTP front (http.go), what stdio and a   *)
(* relay agree to serve (main.go, relay.go) and which backends dial        *)
(* accepts (backend.go).  Names, ranges, lists and definitions, on which   *)
(* none of these decisions depends, are taken to be valid.                 *)
(***************************************************************************)

Servers == [scope : {"", "session", "shared", "other"}, stateless : BOOLEAN]

\* A policy file: listen is an IP or not, of the loopback or not; hosts may
\* hold the listen address; token says that token_env is set.
Configs ==
  [listen : {"loopback", "public", "name"}, publicURL : {"none", "origin", "other"},
   hosts : SUBSET {"listen", "proxy"}, token : BOOLEAN,
   issuer : {"none", "https", "other"}, key : BOOLEAN, audience : BOOLEAN,
   scope : {"none", "blank", "named"}, server : Servers]

ValidListen(c) ==
  /\ c.listen # "name" /\ c.publicURL # "other"
  /\ c.listen = "public" => c.publicURL = "origin"

ValidAuth(c) ==
  /\ c.issuer # "other"
  /\ IF c.token THEN c.issuer = "none" /\ ~c.key
     ELSE c.issuer # "none" /\ c.key /\ c.audience /\ c.scope # "none" /\ c.publicURL # "none"

Shared(s) == s.scope = "shared"
ValidServer(s) == s.scope # "other" /\ (Shared(s) <=> s.stateless)

Validate(c) == ValidListen(c) /\ ValidAuth(c) /\ ValidServer(c.server)

AllowedHosts(c) == IF c.hosts = {} THEN {"listen"} ELSE c.hosts

-----------------------------------------------------------------------------
(* Starting.  An environment has a value for token_env and a file under    *)
(* public_key_file.                                                        *)

Secrets == {"missing", "short", "spaced", "mine", "yours"}
LongEnough == {"spaced", "mine", "yours"}
Environments == [secret : Secrets, rsa : BOOLEAN]

\* access.Middleware makes a verifier.
Protects(c, e) ==
  IF c.token THEN c.issuer = "none" /\ ~c.key /\ e.secret \in LongEnough \ {"spaced"}
  ELSE /\ c.issuer # "none" /\ c.audience /\ c.key /\ c.publicURL # "none"
       /\ c.scope = "named" /\ e.rsa

\* A policy file that every command loads, and what serve, stdio and relay
\* ask for besides.
Policies == {c \in Configs : Validate(c)}
ServesStdioAny(c) == TRUE
ServesStdio(c) == ~Shared(c.server)

RelaysAnyAuth(c, e) == c.listen = "loopback" /\ e.secret \in LongEnough
Relays(c, e) ==
  c.listen = "loopback" /\ c.token /\ c.issuer = "none" /\ e.secret \in LongEnough

\* The relay's own endpoint, in front of the daemon's.
RelayServer(s) == [s EXCEPT !.scope = "session", !.stateless = FALSE]

-----------------------------------------------------------------------------
(* Requests.  A token is a secret, or a JWT that the key, the issuer, the  *)
(* audience, the scopes and the clock let pass.                            *)

NoPrincipal == ""
Requests ==
  [host : {"listen", "proxy", "foreign"}, origin : {"absent", "allowed", "foreign", "several"},
   headers : {"none", "one", "several"}, token : Secrets \cup {"jwt", "forged"},
   subject : {"alice", "blank"}]

\* The verifier's UserID for a token.
Principal(c, e, r) ==
  CASE c.token /\ r.token = e.secret -> "static-bearer"
    [] ~c.token /\ r.token = "jwt" /\ r.subject # "blank" -> r.subject
    [] OTHER -> NoPrincipal

Admits(c, e, r) ==
  /\ r.host \in AllowedHosts(c) /\ r.origin \in {"absent", "allowed"}
  /\ r.headers = "one" /\ Principal(c, e, r) # NoPrincipal

\* What a relay sends, from its own environment.
RelayRequest(e) ==
  [host |-> "listen", origin |-> "absent", headers |-> "one", token |-> e.secret,
   subject |-> "blank"]

-----------------------------------------------------------------------------
(* Backends: what dial negotiates and which session it keeps.  A backend   *)
(* speaks the handshake of the legacy protocol, which may give a session   *)
(* its id, the modern one, which never does, or both.                      *)

AllowStatelessHTTP(s) == Shared(s) /\ s.stateless

\* The client's middleware refuses server/discover.
Handshake(b) == IF "legacy" \in b.speaks THEN "legacy" ELSE "modern"

Accepts(s, b) ==
  /\ Handshake(b) = "legacy"
  /\ b.type = "http" /\ ~b.id => AllowStatelessHTTP(s)

\* The daemon, as the backend of a relay.
DaemonBackend == [type |-> "http", speaks |-> {"legacy", "modern"}, id |-> TRUE]

\* The middleware lets a caller attach to a shared endpoint.
MayAttach(s, p) == Shared(s) => s.stateless /\ p # NoPrincipal
=============================================================================
