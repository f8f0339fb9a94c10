----------------------------- MODULE WebAccess ------------------------------
(***************************************************************************)
(* Who may use the web page (internal/api): which addresses and hosts the  *)
(* server answers (listen.go), the checks every request passes in their    *)
(* order (Server.Routes), and the pairing code that is exchanged for a     *)
(* session (session.go).                                                   *)
(*                                                                         *)
(* A host is a name and a port; an origin is a scheme and a host. Codes    *)
(* and session tokens are numbers in the order in which they were made, 0  *)
(* for none; a code that is not the current one is a wrong one. Time is    *)
(* counted in units of which Lockout, CodeTTL and SessionTTL are several.  *)
(***************************************************************************)
EXTENDS Integers, FiniteSets, FiniteSetsExt

CONSTANTS
    ListenChoices, \* options to consider, see ListenOptions
    Requests,      \* requests to consider, see Request
    MaxSessions,   \* maxSessions, 8 in the code
    MaxFailures,   \* maxPairingFailures, 5 in the code
    Lockout,       \* pairingLockout, a minute
    CodeTTL,       \* pairingCodeTTL, ten minutes
    SessionTTL,    \* defaultSessionTTL, twelve hours
    MaxCodes,      \* bound on codes shown in the terminal
    MaxTokens,     \* bound on sessions ever made
    MaxGuesses,    \* bound on wrong codes judged
    MaxTime        \* bound on the clock

Names == {"localhost", "lan", "public", "elsewhere", "any"}
Schemes == {"http", "https"}
Ports == {"own", "80", "443"}
NoPort == "none"
Hosts == [name : Names \ {"any"}, port : Ports \cup {NoPort}]
NoOrigin == [scheme |-> "none", host |-> [name |-> "elsewhere", port |-> NoPort]]

ListenOptions ==
    [name : {"localhost", "lan", "any"}, \* host of --listen, "any": all addresses
     allowRemote : BOOLEAN,
     noSession : BOOLEAN,
     publicHosts : SUBSET Hosts,         \* --public-host
     trustedProxy : BOOLEAN,
     scheme : Schemes \cup {""}]         \* --origin-scheme

Methods == {"GET", "POST"}
Paths == {"/", "/api/session", "/api/runs"}
Request ==
    [method : Methods, path : Paths, host : Hosts,
     code : 0 .. MaxCodes + 1,           \* ?c= of a GET, or the body of a POST
     cookie : 0 .. MaxTokens,
     site : {"", "same-origin", "none", "same-site", "cross-site"},
     origin : [scheme : Schemes, host : Hosts] \cup {NoOrigin}]

ASSUME WebAssumption ==
    /\ ListenChoices \subseteq ListenOptions
    /\ Requests \subseteq Request
    /\ MaxSessions \in Nat \ {0} /\ MaxFailures \in Nat \ {0}
    /\ MaxCodes \in Nat \ {0} /\ MaxTime \in Nat
    /\ Lockout \in Nat \ {0} /\ CodeTTL \in Nat /\ SessionTTL \in Nat
    /\ Lockout < CodeTTL /\ CodeTTL < SessionTTL

VARIABLES
    options,  \* what the server was started with
    code,     \* PairingCode and its fields: used, expires, failures, blockedUntil
    sessions, \* Server.sessions
    tokens,   \* number of tokens made so far
    codes,    \* number of codes made so far
    time,     \* the clock
    guesses,  \* history: times at which the current code was guessed wrongly
    taken     \* history: sessions made so far by code

webVars == <<options, code, sessions, tokens, codes, time, guesses, taken>>

-----------------------------------------------------------------------------
(* listen.go                                                               *)

ExternalScheme(o) == IF o.scheme # "" THEN o.scheme ELSE IF o.trustedProxy THEN "https" ELSE "http"

PortForScheme(scheme) == IF scheme = "https" THEN "443" ELSE "80"

\* normalizeHostPort: a host without a port gets the one of the scheme.
Normalize(host, scheme) ==
    IF host.port = NoPort THEN [host EXCEPT !.port = PortForScheme(scheme)] ELSE host

ValidateListen(o) ==
    /\ o.name # "localhost" => o.allowRemote /\ ~o.noSession
    /\ o.name = "any" => o.publicHosts # {}
    /\ o.publicHosts # {} => o.allowRemote

\* NewListenPolicy: a wildcard address names no host of its own.
PolicyHosts(o) ==
    {[name |-> n, port |-> "own"] : n \in {o.name} \ {"any"}}
        \cup {Normalize(h, ExternalScheme(o)) : h \in o.publicHosts}

HostAllowed(o, host) ==
    Normalize(host, ExternalScheme(o)) \in PolicyHosts(o) \/ host.name = "localhost"

OriginAllowed(o, origin) ==
    origin.scheme = ExternalScheme(o) /\ HostAllowed(o, origin.host)

\* csrfGuard. A page elsewhere may send a Referer where it sends no Origin;
\* both are checked alike, so one field stands for either.
CsrfGuard(o, q) ==
    /\ q.site \in {"", "same-origin", "none"}
    /\ q.origin # NoOrigin => OriginAllowed(o, q.origin)

-----------------------------------------------------------------------------
(* session.go                                                              *)

Required == ~options.noSession

FreshCode(n, now) ==
    [id |-> n, used |-> FALSE, expires |-> now + CodeTTL, failures |-> 0, blockedUntil |-> 0]

\* Without EnableSession the code is empty and has expired.
NoCode == [FreshCode(0, 0) EXCEPT !.expires = -1]

LiveSessions(now) == {s \in sessions : now <= s.expires}

\* Mutant: no session is dropped to make room.
MintWithoutRoom(now) ==
    {LiveSessions(now) \cup {[token |-> tokens + 1, created |-> now, expires |-> now + SessionTTL]}}

\* mintSessionLocked: expired sessions go, then the oldest while there is no room.
Mint(now) ==
    LET room == {kept \in SUBSET LiveSessions(now) :
                    /\ Cardinality(kept) = Min({Cardinality(LiveSessions(now)), MaxSessions - 1})
                    /\ \A s \in kept, t \in LiveSessions(now) \ kept : t.created <= s.created}
    IN  {kept \cup {[token |-> tokens + 1, created |-> now, expires |-> now + SessionTTL]} : kept \in room}

Alive(c, now) == now >= c.blockedUntil /\ ~c.used /\ now <= c.expires

\* Mutant: the failure that fills the count is not the one that locks.
FailOneLate(c, now) ==
    IF c.failures >= MaxFailures
    THEN [c EXCEPT !.failures = 0, !.blockedUntil = now + Lockout]
    ELSE [c EXCEPT !.failures = @ + 1]

\* A wrong code counts; the last one allowed locks and starts a new count.
FailCode(c, now) ==
    IF c.failures + 1 >= MaxFailures
    THEN [c EXCEPT !.failures = 0, !.blockedUntil = now + Lockout]
    ELSE [c EXCEPT !.failures = @ + 1]

\* exchangePairingCode. Without random numbers the code stays usable.
Exchange(given) ==
    \/ /\ ~Alive(code, time)
       /\ UNCHANGED <<code, sessions, tokens, guesses, taken>>
    \/ /\ Alive(code, time)
       /\ given # code.id
       /\ Cardinality(guesses) < MaxGuesses
       /\ code' = FailCode(code, time)
       /\ guesses' = guesses \cup {[n |-> Cardinality(guesses) + 1, at |-> time]}
       /\ UNCHANGED <<sessions, tokens, taken>>
    \/ /\ Alive(code, time)
       /\ given = code.id
       /\ tokens < MaxTokens
       /\ sessions' \in Mint(time)
       /\ tokens' = tokens + 1
       /\ code' = [code EXCEPT !.used = TRUE]
       /\ taken' = taken \cup {[token |-> tokens + 1, code |-> given]}
       /\ UNCHANGED guesses
    \/ /\ Alive(code, time)
       /\ given = code.id
       /\ UNCHANGED <<code, sessions, tokens, guesses, taken>>

HasSession(q) == Required => \E s \in LiveSessions(time) : s.token = q.cookie

\* sessionValid drops the session it finds expired.
LookUp(q) ==
    /\ sessions' = IF Required THEN {s \in sessions : s.token = q.cookie => time <= s.expires}
                               ELSE sessions
    /\ UNCHANGED <<code, tokens, guesses, taken>>

-----------------------------------------------------------------------------
(* Routes: one request                                                     *)

Handshake(q) == Required /\ q.method = "GET" /\ q.code # 0

PublicPath(path) == path = "/api/session"

ServeRequest(q) ==
    /\ HostAllowed(options, q.host)
    /\ \/ /\ Handshake(q)
          /\ Exchange(q.code)
       \/ /\ ~Handshake(q)
          /\ ~PublicPath(q.path) /\ q.path # "/"
          /\ LookUp(q)
       \/ /\ ~Handshake(q)
          /\ q.method = "POST" /\ PublicPath(q.path)
          /\ CsrfGuard(options, q)
          /\ Exchange(q.code)
       \/ /\ ~Handshake(q)
          /\ q.method = "GET" /\ PublicPath(q.path)
          /\ LookUp(q)
    /\ UNCHANGED <<options, codes, time>>

\* RotatePairingCode: Enter in the terminal; sessions stay.
Rotate ==
    /\ Required
    /\ codes < MaxCodes
    /\ codes' = codes + 1
    /\ code' = FreshCode(codes + 1, time)
    /\ guesses' = {}
    /\ UNCHANGED <<options, sessions, tokens, time, taken>>

Tick ==
    /\ time < MaxTime
    /\ time' = time + 1
    /\ UNCHANGED <<options, code, sessions, tokens, codes, guesses, taken>>

\* ValidateListen and EnableSession, which the command line calls unless
\* --no-session is given.
WebInit ==
    /\ options \in {o \in ListenChoices : ValidateListen(o)}
    /\ code = IF options.noSession THEN NoCode ELSE FreshCode(1, 0)
    /\ sessions = {}
    /\ tokens = 0
    /\ codes = IF options.noSession THEN 0 ELSE 1
    /\ time = 0
    /\ guesses = {}
    /\ taken = {}

WebNext ==
    \/ \E q \in Requests : ServeRequest(q)
    \/ Rotate
    \/ Tick

WebSpec == WebInit /\ [][WebNext]_webVars

-----------------------------------------------------------------------------
\* Type correctness.
WebTypeOK ==
    /\ options \in ListenOptions
    /\ code \in [id : 0 .. MaxCodes, used : BOOLEAN, expires : Int, failures : 0 .. MaxFailures,
                 blockedUntil : Nat]
    /\ \A s \in sessions : s.token \in 1 .. tokens /\ s.expires = s.created + SessionTTL
    /\ Cardinality(sessions) <= MaxSessions
    /\ time \in 0 .. MaxTime

\* Whatever the timing of the guesses and the lockouts, no stretch of time
\* shorter than the lockout sees more than MaxFailures wrong codes judged
\* against one code, and a code makes at most one session (session.go:192-218).
GuessesAreLimited ==
    /\ \A t \in 0 .. MaxTime :
           Cardinality({g \in guesses : g.at >= t /\ g.at < t + Lockout}) <= MaxFailures
    /\ \A a, b \in taken : a.code = b.code => a = b

\* A session that is still good goes only to make room, and then those that
\* stay are no older and fill all the room there is (session.go:237-245).
OnlyOldestEvicted ==
    [][\A s \in sessions \ sessions' :
          time <= s.expires =>
              /\ Cardinality(sessions') = MaxSessions
              /\ \A t \in sessions' : s.created <= t.created]_webVars
=============================================================================
