----------------------------- MODULE ApiSession -----------------------------
(***************************************************************************)
(* Tokens and sessions: GetToken and Verify (api/security), which turn     *)
(* what a client sends into the name of a vCenter and an account, and Init *)
(* (helper/api.go), which every handler calls through vsphere.Get to have  *)
(* a session of that account.  The sessions are kept in one plain map that *)
(* all handlers read and write without a lock.                             *)
(*                                                                         *)
(* vCenter is the environment: it refuses a login, ends a session when it  *)
(* likes, and may let the question whether a session is active time out.   *)
(***************************************************************************)
EXTENDS Integers, Sequences, FiniteSets

CONSTANTS
    Calls,       \* the requests clients send
    Auths,       \* vCenter addresses with an account
    NoAuth,      \* the one whose fields are all empty
    ApiVersion,  \* ApiVersion[a]: the numbers of the version that a's vCenter tells
    TokenTypes,  \* the values of app.token.type that are considered
    MaxSessions, \* bound: logins
    MaxExpired,  \* bound: sessions that vCenter ends
    MaxTimeouts  \* bound: questions for a session that time out

\* The bounds on the numbers are those of vCenter's versions.
ASSUME SessionAssumption ==
    /\ NoAuth \notin Auths
    /\ ApiVersion \in [Auths -> Seq(Nat)]
    /\ \A a \in Auths :
         /\ ApiVersion[a] # << >>
         /\ Len(ApiVersion[a]) > 1 => ApiVersion[a][2] < 10
         /\ Len(ApiVersion[a]) > 2 => ApiVersion[a][3] < 100
    /\ TokenTypes \subseteq {"bearer", "jwt"}
    /\ MaxSessions \in Nat /\ MaxExpired \in Nat /\ MaxTimeouts \in Nat

Sessions == 1..MaxSessions
NoSession == 0

-----------------------------------------------------------------------------
(* Tokens.  A field of a token is encrypted or plain.                      *)

AesEncrypt(a) == [sealed |-> TRUE, auth |-> a]
Plain(a) == [sealed |-> FALSE, auth |-> a]

\* What was not encrypted cannot be decoded, and comes out empty (a name that
\* happens to be base64 of whole blocks comes out as something else).
\* Mutant: it comes out as it is.
AesDecryptRaw(f) == IF f.sealed THEN f.auth ELSE f
AesDecrypt(f) == IF f.sealed THEN f.auth ELSE NoAuth

\* The tools.  A token of JWT names its account in plain fields, which Parse
\* decrypts; it is good for three hours.
GenerateBearer(a) == AesEncrypt(a)
ParseBearer(t) == AesDecrypt(t)
GenerateJwt(a) == Plain(a)
ParseJwt(t) == AesDecrypt(t)

-----------------------------------------------------------------------------
(* Versions.                                                               *)

\* parseVer takes three numbers; with fewer it panics.
Parsed(a) == Len(ApiVersion[a]) >= 3

\* Mutant: a factor too small for the patch.
versionDense(major, minor, patch) == major * 100 + minor * 10 + patch
version(major, minor, patch) == major * 1000 + minor * 100 + patch
Newer(a, major, minor, patch) ==
    version(major, minor, patch)
      <= version(ApiVersion[a][1], ApiVersion[a][2], ApiVersion[a][3])
checkVer(a) == Newer(a, 5, 5, 0)

-----------------------------------------------------------------------------
VARIABLES
    tokenType, \* app.token.type
    tokens,    \* the accounts for which a token was handed out
    apiCache,  \* apiCache[a]: the session kept for a, or NoSession
    owner,     \* owner[s]: the account session s was opened for, or NoAuth
    open,      \* the sessions that vCenter holds open
    pc,        \* pc[c]: where call c is
    bearing,   \* bearing[c]: the account whose token c brought, NoAuth for GetToken
    auth,      \* auth[c]: the account c connects with
    held,      \* held[c]: the session c has in its hands
    expired,   \* how many sessions vCenter has ended
    timeouts,  \* how many questions have timed out
    crashed,   \* the process has ended

    \* History, read by no action's guard.
    live,      \* live[c]: the sessions that were open since c began
    gap,       \* the calls since whose begin their account had no open session
               \* in the map, or the one they had read ended or was in doubt
    excused    \* the sessions that were refused, replaced, doubted or left behind

given == <<tokenType, tokens>>
local == <<pc, bearing, auth, held>>
vcenter == <<owner, open, expired, timeouts>>
vars == <<given, apiCache, vcenter, local, crashed, live, gap, excused>>

Pcs == {"idle", "reading", "checking", "dialing", "parsing", "writing", "storing",
        "connected", "done", "refused", "unauthorized", "lost"}
Touching == {"reading", "storing"}
Opened == {"parsing", "writing", "storing", "connected"}
Holding == Opened \cup {"checking"}

\* A call has a session in its hands in certain places only, and an account then.
HandsOK ==
    \A c \in Calls : /\ pc[c] \in Holding <=> held[c] # NoSession
                     /\ pc[c] \in Holding => auth[c] # NoAuth

TypeOK ==
    /\ tokenType \in TokenTypes
    /\ tokens \subseteq Auths
    /\ apiCache \in [Auths -> Sessions \cup {NoSession}]
    /\ owner \in [Sessions -> Auths \cup {NoAuth}]
    /\ open \subseteq Sessions
    /\ pc \in [Calls -> Pcs]
    /\ bearing \in [Calls -> Auths \cup {NoAuth}]
    /\ auth \in [Calls -> Auths \cup {NoAuth}]
    /\ held \in [Calls -> Sessions \cup {NoSession}]
    /\ HandsOK
    /\ expired \in 0..MaxExpired /\ timeouts \in 0..MaxTimeouts
    /\ crashed \in BOOLEAN
    /\ live \in [Calls -> SUBSET Sessions]
    /\ gap \subseteq Calls
    /\ excused \subseteq Sessions

Init ==
    /\ tokenType \in TokenTypes
    /\ tokens = {}
    /\ apiCache = [a \in Auths |-> NoSession]
    /\ owner = [s \in Sessions |-> NoAuth]
    /\ open = {}
    /\ pc = [c \in Calls |-> "idle"]
    /\ bearing = [c \in Calls |-> NoAuth]
    /\ auth = [c \in Calls |-> NoAuth]
    /\ held = [c \in Calls |-> NoSession]
    /\ expired = 0 /\ timeouts = 0 /\ crashed = FALSE
    /\ live = [c \in Calls |-> {}]
    /\ gap = {} /\ excused = {}

-----------------------------------------------------------------------------
Generate(a) == IF tokenType = "jwt" THEN GenerateJwt(a) ELSE GenerateBearer(a)
Parse(t) == IF tokenType = "jwt" THEN ParseJwt(t) ELSE ParseBearer(t)

\* Verify: the account a request goes on with, given the token it brings.
\* Mutant: it is kept where every request can set it.
VerifiedAnyone(t) == Auths
Verified(t) == {Parse(t)}

Goto(c, from, to) == ~crashed /\ pc[c] = from /\ pc' = [pc EXCEPT ![c] = to]

Working == {c \in Calls : pc[c] \notin {"idle", "done", "refused", "unauthorized", "lost"}}
InMap(c) == IF auth[c] \in Auths THEN apiCache[auth[c]] ELSE NoSession
Kept(a) == a \in Auths /\ apiCache[a] \in open

\* A call begins: what is open now may be what it gets.
Begin(c, a, b) ==
    /\ Goto(c, "idle", "reading")
    /\ auth' = [auth EXCEPT ![c] = a]
    /\ bearing' = [bearing EXCEPT ![c] = b]
    /\ live' = [live EXCEPT ![c] = open]
    /\ gap' = IF Kept(a) THEN gap ELSE gap \cup {c}
    /\ UNCHANGED <<given, apiCache, vcenter, held, crashed, excused>>

\* GetToken: the three fields are required.
GetToken(c) == \E a \in Auths : Begin(c, a, NoAuth)

\* Verify, before every other handler.  A request without a token, with one that
\* was not handed out, or with a JWT that is older than three hours is refused.
Verify(c) ==
    \/ \E b \in tokens : \E a \in Verified(Generate(b)) : Begin(c, a, b)
    \/ /\ Goto(c, "idle", "unauthorized")
       /\ UNCHANGED <<given, apiCache, vcenter, bearing, auth, held, crashed, live,
                      gap, excused>>

\* Mutant: what is found is not used.
ReadNothing(c) ==
    /\ Goto(c, "reading", "dialing")
    /\ held' = [held EXCEPT ![c] = NoSession]
    /\ UNCHANGED <<given, apiCache, vcenter, bearing, auth, crashed, live,
                   gap, excused>>

\* Init looks for a session in the map.
Read(c) ==
    /\ Goto(c, "reading", IF InMap(c) = NoSession THEN "dialing" ELSE "checking")
    /\ held' = [held EXCEPT ![c] = InMap(c)]
    /\ UNCHANGED <<given, apiCache, vcenter, bearing, auth, crashed, live, gap, excused>>

\* Mutant: vCenter is not asked.
CheckNothing(c) ==
    /\ Goto(c, "checking", "connected")
    /\ UNCHANGED <<given, apiCache, vcenter, bearing, auth, held, crashed,
                   live, gap, excused>>

\* It asks vCenter whether the session is active, and takes no answer for no.
Check(c) ==
    /\ \/ /\ held[c] \in open
          /\ Goto(c, "checking", "connected")
          /\ UNCHANGED <<held, timeouts, gap, excused>>
       \/ /\ held[c] \notin open
          /\ Goto(c, "checking", "dialing")
          /\ held' = [held EXCEPT ![c] = NoSession]
          /\ UNCHANGED <<timeouts, gap, excused>>
       \/ /\ timeouts < MaxTimeouts
          /\ timeouts' = timeouts + 1
          /\ Goto(c, "checking", "dialing")
          /\ held' = [held EXCEPT ![c] = NoSession]
          /\ gap' = gap \cup {c}
          /\ excused' = excused \cup {held[c]}
    /\ UNCHANGED <<given, apiCache, owner, open, expired, bearing, auth, crashed, live>>

\* NewClient logs in, or panics.
Dial(c) ==
    /\ \/ \E s \in Sessions :
            /\ auth[c] # NoAuth
            /\ owner[s] = NoAuth /\ \A r \in 1..(s - 1) : owner[r] # NoAuth
            /\ Goto(c, "dialing", "parsing")
            /\ owner' = [owner EXCEPT ![s] = auth[c]]
            /\ open' = open \cup {s}
            /\ held' = [held EXCEPT ![c] = s]
            /\ live' = [d \in Calls |-> IF d \in Working THEN live[d] \cup {s} ELSE live[d]]
       \/ Goto(c, "dialing", "refused") /\ UNCHANGED <<owner, open, held, live>>
    /\ UNCHANGED <<given, apiCache, expired, timeouts, bearing, auth, crashed, gap,
                   excused>>

\* parseVer and checkVer: a version that is too short or too old panics, and the
\* session that was opened for it is left to vCenter.
ParseVer(c) ==
    /\ pc[c] = "parsing"
    /\ IF Parsed(auth[c]) /\ checkVer(auth[c])
         THEN Goto(c, "parsing", "writing") /\ UNCHANGED <<held, excused>>
         ELSE /\ Goto(c, "parsing", "refused")
              /\ excused' = excused \cup {held[c]}
              /\ held' = [held EXCEPT ![c] = NoSession]
    /\ UNCHANGED <<given, apiCache, vcenter, bearing, auth, crashed, live, gap>>

\* The write into the map begins and ends.
BeginWrite(c) ==
    /\ Goto(c, "writing", "storing")
    /\ UNCHANGED <<given, apiCache, vcenter, bearing, auth, held, crashed, live, gap,
                   excused>>

\* Mutant: the new session is not kept.
EndWriteNothing(c) ==
    /\ Goto(c, "storing", "connected")
    /\ UNCHANGED <<given, apiCache, vcenter, bearing, auth, held, crashed,
                   live, gap, excused>>

EndWrite(c) ==
    /\ Goto(c, "storing", "connected")
    /\ apiCache' = [apiCache EXCEPT ![auth[c]] = held[c]]
    /\ excused' = excused \cup ({apiCache[auth[c]]} \ {NoSession})
    /\ gap' = IF held[c] \in open THEN gap
              ELSE gap \cup {d \in Working : auth[d] = auth[c]}
    /\ UNCHANGED <<given, vcenter, bearing, auth, held, crashed, live>>

\* Go's map may notice that it is used while it is written, and end the process:
\* the map is gone, vCenter's sessions are not.
Fatal ==
    /\ ~crashed
    /\ \E c, d \in Calls : c # d /\ pc[c] = "storing" /\ pc[d] \in Touching
    /\ crashed' = TRUE
    /\ apiCache' = [a \in Auths |-> NoSession]
    /\ pc' = [c \in Calls |-> IF c \in Working THEN "lost" ELSE pc[c]]
    /\ held' = [c \in Calls |-> NoSession]
    /\ excused' = excused \cup open
    /\ UNCHANGED <<given, vcenter, bearing, auth, live, gap>>

\* The process is started again.
Restart ==
    /\ crashed /\ crashed' = FALSE
    /\ UNCHANGED <<given, apiCache, vcenter, local, live, gap, excused>>

\* The handler does its work, GetToken hands out a token, and the answer is sent.
Answer(c) ==
    /\ Goto(c, "connected", "done")
    /\ tokens' = IF bearing[c] = NoAuth THEN tokens \cup {auth[c]} ELSE tokens
    /\ held' = [held EXCEPT ![c] = NoSession]
    /\ UNCHANGED <<tokenType, apiCache, vcenter, bearing, auth, crashed, live, gap, excused>>

\* vCenter ends a session.
Expire ==
    /\ expired < MaxExpired
    /\ expired' = expired + 1
    /\ \E s \in open :
         /\ open' = open \ {s}
         /\ gap' = gap \cup {c \in Working : s \in {held[c], InMap(c)}}
    /\ UNCHANGED <<given, apiCache, owner, timeouts, local, crashed, live, excused>>

Step(c) ==
    \/ GetToken(c) \/ Verify(c) \/ Read(c) \/ Check(c) \/ Dial(c) \/ ParseVer(c)
    \/ BeginWrite(c) \/ EndWrite(c) \/ Answer(c)

Quiet == ~crashed /\ Working = {} /\ UNCHANGED vars

Next == (\E c \in Calls : Step(c)) \/ Fatal \/ Restart \/ Expire \/ Quiet

Spec == Init /\ [][Next]_vars

-----------------------------------------------------------------------------
(* Properties                                                              *)

\* The order of versions, number by number.
AtLeast(v, major, minor, patch) ==
    \/ v[1] > major
    \/ v[1] = major /\ v[2] > minor
    \/ v[1] = major /\ v[2] = minor /\ v[3] >= patch

\* A handler that goes on with a session has one of a vCenter whose version has
\* three numbers and is 5.5.0 at least (api.go:98-103), however the version was
\* folded into one number, and also if the session came from the map.
ConnectedIsSupported ==
    \A c \in Calls :
       pc[c] = "connected" =>
         LET v == ApiVersion[owner[held[c]]]
         IN  Len(v) >= 3 /\ AtLeast(v, 5, 5, 0)

\* The session a handler goes on with was opened for the account of its request,
\* which is the account its token was handed out for, if it brought one, and was
\* open at some moment since the request began: a session that vCenter ended
\* earlier is never handed out.  (With tokens of JWT, Verify decrypts what was
\* not encrypted, and connects with empty names: such requests are refused.)
ConnectedWasLive ==
    \A c \in Calls :
       pc[c] = "connected" =>
         /\ held[c] \in live[c]
         /\ owner[held[c]] = auth[c]
         /\ bearing[c] # NoAuth => auth[c] = bearing[c]

\* Nobody logs in while the account has an open session in the map: a login
\* follows a moment since the request began at which there was none, the end of
\* the one it had read, or a question for it that timed out.
LoginsAreWarranted == \A c \in Calls : pc[c] \in {"dialing", "parsing"} => c \in gap

\* Every open session is in the map, in somebody's hands, or has been refused
\* for its version, replaced by a call that logged in at the same time, doubted
\* because of a timeout, or left behind by the end of the process.
SessionsAreAccounted ==
    \A s \in open : \/ \E a \in Auths : apiCache[a] = s
                    \/ \E c \in Calls : held[c] = s
                    \/ s \in excused

(* The inductive invariants behind these four.                             *)

\* A version is known to be supported once checkVer has passed.
Supported(a) == Parsed(a) /\ checkVer(a)

\* The session in a call's hands is one of its account, and no older than the
\* call once it was seen open; the map holds sessions of supported vCenters.
HeldOf(c) ==
    /\ c \in Working => open \subseteq live[c]
    /\ bearing[c] # NoAuth => auth[c] \in {bearing[c], NoAuth}
    /\ pc[c] \in Holding => owner[held[c]] = auth[c]
    /\ pc[c] \in Opened => held[c] \in live[c]
    /\ pc[c] \in Holding \ {"parsing"} => Supported(auth[c])

HeldInv ==
    /\ \A a \in Auths : apiCache[a] # NoSession => owner[apiCache[a]] = a /\ Supported(a)
    /\ \A c \in Calls : HeldOf(c)

\* What a call has not found wanting is open; what it has taken from the map is
\* there still, or was excused when it was replaced.
LoginOf(c) ==
    /\ pc[c] = "reading" => c \in gap \/ InMap(c) \in open
    /\ pc[c] = "checking" => c \in gap \/ held[c] \in open
    /\ pc[c] \in {"dialing", "parsing"} => c \in gap

LoginInv == \A c \in Calls : LoginOf(c)

AccountInv ==
    /\ SessionsAreAccounted
    /\ \A c \in Calls : pc[c] \in {"checking", "connected"} =>
                           held[c] = InMap(c) \/ held[c] \in excused
=============================================================================
