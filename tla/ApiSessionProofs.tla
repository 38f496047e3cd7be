-------------------------- MODULE ApiSessionProofs --------------------------
(* Theorems about ApiSession, for any requests, accounts and versions, and   *)
(* however often sessions end, questions time out and the process dies.      *)
EXTENDS ApiSession, TLAPS

-----------------------------------------------------------------------------
(* Types.                                                                    *)

LEMMA NoSessionIsNone == NoSession \notin Sessions
  BY DEF NoSession, Sessions

\* A call that moves goes to a known place, and stays within or without those
\* that hold a session as its hands do.
LEMMA GotoType ==
    ASSUME TypeOK, NEW c \in Calls, NEW from, NEW to \in Pcs, Goto(c, from, to)
    PROVE  pc' \in [Calls -> Pcs]
  BY DEF TypeOK, Goto

LEMMA GotoHands ==
    ASSUME TypeOK, NEW c \in Calls, NEW from, NEW to \in Pcs, Goto(c, from, to),
           NEW s \in Sessions \cup {NoSession}, held' = [held EXCEPT ![c] = s],
           to \in Holding <=> s # NoSession, UNCHANGED auth,
           to \in Holding => auth[c] # NoAuth
    PROVE  HandsOK' /\ held' \in [Calls -> Sessions \cup {NoSession}]
  BY DEF TypeOK, Goto, HandsOK

LEMMA KeepHands ==
    ASSUME TypeOK, NEW c \in Calls, NEW from, NEW to \in Pcs, Goto(c, from, to),
           UNCHANGED held, to \in Holding <=> from \in Holding,
           UNCHANGED auth \/ (from \notin Holding /\ \E a : auth' = [auth EXCEPT ![c] = a])
    PROVE  HandsOK' /\ held' \in [Calls -> Sessions \cup {NoSession}]
  BY DEF TypeOK, Goto, HandsOK

\* What a token names when it is parsed is its account or nothing.
LEMMA ParseType ==
    ASSUME NEW b \in Auths
    PROVE  Parse(Generate(b)) \in {b, NoAuth}
  BY DEF Parse, Generate, ParseJwt, ParseBearer, GenerateJwt, GenerateBearer,
         AesDecrypt, AesEncrypt, Plain

LEMMA BeginType ==
    ASSUME TypeOK, NEW c \in Calls, NEW a \in Auths \cup {NoAuth},
           NEW b \in Auths \cup {NoAuth}, Begin(c, a, b)
    PROVE  TypeOK'
<1>1. pc' \in [Calls -> Pcs]
  BY GotoType DEF Begin, Pcs
<1>2. HandsOK' /\ held' \in [Calls -> Sessions \cup {NoSession}]
  BY KeepHands DEF Begin, Pcs, Holding, Opened
<1> QED
  BY <1>1, <1>2 DEF TypeOK, HandsOK, Begin, given, vcenter

LEMMA TypeStep ==
    ASSUME TypeOK, NEW c \in Calls, Step(c)
    PROVE  TypeOK'
<1> USE DEF TypeOK, HandsOK, given, vcenter
<1> DEFINE Moved == /\ pc' \in [Calls -> Pcs]
                    /\ HandsOK' /\ held' \in [Calls -> Sessions \cup {NoSession}]
<1>1. CASE GetToken(c)
  BY <1>1, BeginType DEF GetToken
<1>2. CASE Verify(c)
  <2>1. ASSUME NEW b \in tokens, NEW a \in Verified(Generate(b)), Begin(c, a, b)
        PROVE  TypeOK'
    <3>1. a \in Auths \cup {NoAuth} /\ b \in Auths \cup {NoAuth}
      BY <2>1, ParseType DEF Verified
    <3> QED  BY <2>1, <3>1, BeginType
  <2>2. CASE Goto(c, "idle", "unauthorized")
             /\ UNCHANGED <<given, apiCache, vcenter, bearing, auth, held, crashed,
                            live, gap, excused>>
    <3>1. Moved
      BY <2>2, GotoType, KeepHands DEF Pcs, Holding, Opened
    <3> QED  BY <2>2, <3>1
  <2> QED  BY <1>2, <2>1, <2>2 DEF Verify
<1>3. CASE Read(c)
  <2>1. InMap(c) \in Sessions \cup {NoSession}
    BY DEF InMap
  <2>2. InMap(c) # NoSession => auth[c] # NoAuth
    BY SessionAssumption DEF InMap
  <2>3. CASE InMap(c) = NoSession
    <3>1. Goto(c, "reading", "dialing") /\ held' = [held EXCEPT ![c] = NoSession]
      BY <1>3, <2>3 DEF Read
    <3>2. Moved
      BY <1>3, <3>1, GotoType, GotoHands DEF Read, Pcs, Holding, Opened
    <3> QED  BY <1>3, <3>2 DEF Read
  <2>4. CASE InMap(c) # NoSession
    <3>1. Goto(c, "reading", "checking") /\ held' = [held EXCEPT ![c] = InMap(c)]
      BY <1>3, <2>4 DEF Read
    <3>2. Moved
      BY <1>3, <2>1, <2>2, <2>4, <3>1, GotoType, GotoHands DEF Read, Pcs, Holding
    <3> QED  BY <1>3, <3>2 DEF Read
  <2> QED  BY <2>3, <2>4
<1>4. CASE Check(c)
  <2>1. Moved
    <3>1. CASE Goto(c, "checking", "connected") /\ UNCHANGED held
      BY <1>4, <3>1, GotoType, KeepHands DEF Check, Pcs, Holding, Opened
    <3>2. CASE Goto(c, "checking", "dialing") /\ held' = [held EXCEPT ![c] = NoSession]
      BY <1>4, <3>2, GotoType, GotoHands DEF Check, Pcs, Holding, Opened
    <3> QED  BY <1>4, <3>1, <3>2 DEF Check
  <2>2. timeouts' \in 0..MaxTimeouts
    BY <1>4, SessionAssumption DEF Check
  <2>3. pc[c] = "checking" => held[c] \in Sessions
    BY DEF Holding
  <2>4. excused' \subseteq Sessions /\ gap' \subseteq Calls
    BY <1>4, <2>3 DEF Check, Goto
  <2> QED  BY <1>4, <2>1, <2>2, <2>4 DEF Check
<1>5. CASE Dial(c)
  <2>1. Moved
    BY <1>5, NoSessionIsNone, GotoType, GotoHands, KeepHands DEF Dial, Pcs, Holding, Opened
  <2>2. /\ owner' \in [Sessions -> Auths \cup {NoAuth}]
        /\ open' \subseteq Sessions
        /\ live' \in [Calls -> SUBSET Sessions]
    BY <1>5 DEF Dial
  <2> QED  BY <1>5, <2>1, <2>2 DEF Dial
<1>6. CASE ParseVer(c)
  <2>1. Moved
    BY <1>6, GotoType, GotoHands, KeepHands DEF ParseVer, Pcs, Holding, Opened
  <2>2. pc[c] = "parsing" => held[c] \in Sessions
    BY DEF Holding, Opened
  <2> QED  BY <1>6, <2>1, <2>2 DEF ParseVer
<1>7. CASE BeginWrite(c)
  <2>1. Moved
    BY <1>7, GotoType, KeepHands DEF BeginWrite, Pcs, Holding, Opened
  <2> QED  BY <1>7, <2>1 DEF BeginWrite
<1>8. CASE EndWrite(c)
  <2>1. Moved
    BY <1>8, GotoType, KeepHands DEF EndWrite, Pcs, Holding, Opened
  <2>2. /\ apiCache' \in [Auths -> Sessions \cup {NoSession}]
        /\ gap' \subseteq Calls
    BY <1>8 DEF EndWrite, Working
  <2>3. auth[c] \in Auths
    BY <1>8 DEF EndWrite, Goto, Holding, Opened
  <2>4. excused' \subseteq Sessions
    BY <1>8, <2>3 DEF EndWrite
  <2> QED  BY <1>8, <2>1, <2>2, <2>4 DEF EndWrite
<1>9. CASE Answer(c)
  <2>1. Moved
    BY <1>9, GotoType, GotoHands DEF Answer, Pcs, Holding, Opened
  <2>2. tokens' \subseteq Auths
    BY <1>9 DEF Answer, Goto, Holding, Opened
  <2> QED  BY <1>9, <2>1, <2>2 DEF Answer
<1> QED
  BY <1>1, <1>2, <1>3, <1>4, <1>5, <1>6, <1>7, <1>8, <1>9 DEF Step

LEMMA TypeInductive == TypeOK /\ [Next]_vars => TypeOK'
<1> SUFFICES ASSUME TypeOK, [Next]_vars PROVE TypeOK'
  OBVIOUS
<1> USE DEF TypeOK, HandsOK, given, local, vcenter
<1>1. CASE Fatal
  <2>1. pc' \in [Calls -> Pcs] /\ held' \in [Calls -> Sessions \cup {NoSession}]
    BY <1>1 DEF Fatal, Pcs
  <2>2. HandsOK'
    BY <1>1 DEF Fatal, Working, Holding, Opened
  <2> QED  BY <1>1, <2>1, <2>2 DEF Fatal
<1>2. CASE Restart
  BY <1>2 DEF Restart
<1>3. CASE Expire
  <2>1. gap' \subseteq Calls
    BY <1>3 DEF Expire, Working
  <2>2. expired' \in 0..MaxExpired
    BY <1>3, SessionAssumption DEF Expire
  <2> QED  BY <1>3, <2>1, <2>2 DEF Expire
<1>4. CASE Quiet \/ UNCHANGED vars
  BY <1>4 DEF Quiet, vars
<1> QED
  BY <1>1, <1>2, <1>3, <1>4, TypeStep DEF Next

\* Every variable keeps its type, and a call has a session in its hands, and an
\* account, exactly between reading or opening it and its answer.
THEOREM SessionTypeCorrect == Spec => []TypeOK
<1>1. Init => TypeOK
  <2> SUFFICES ASSUME Init PROVE TypeOK
    OBVIOUS
  <2>1. HandsOK
    BY DEF Init, HandsOK, Holding, Opened
  <2>2. expired \in 0..MaxExpired /\ timeouts \in 0..MaxTimeouts
    BY SessionAssumption DEF Init
  <2>3. pc \in [Calls -> Pcs]
    BY DEF Init, Pcs
  <2> QED  BY <2>1, <2>2, <2>3 DEF Init, TypeOK
<1> QED
  BY <1>1, TypeInductive, PTL DEF Spec

-----------------------------------------------------------------------------
(* Which session a call has.                                                 *)

\* Folding a version into one number does not confuse the old with the new, as
\* long as its numbers keep to their bounds.
LEMMA VersionOrder ==
    ASSUME NEW a \in Auths, Supported(a)
    PROVE  Len(ApiVersion[a]) >= 3 /\ AtLeast(ApiVersion[a], 5, 5, 0)
<1> DEFINE v == ApiVersion[a]
<1>1. v \in Seq(Nat) /\ Len(v) >= 3
  BY SessionAssumption DEF Supported, Parsed
<1>2. v[1] \in Nat /\ v[2] \in Nat /\ v[3] \in Nat
  BY <1>1
<1>3. v[2] < 10 /\ v[3] < 100
  BY <1>1, SessionAssumption
<1>4. 5500 <= v[1] * 1000 + v[2] * 100 + v[3]
  BY SMT DEF Supported, checkVer, Newer, version
<1> HIDE DEF v
<1>5. AtLeast(v, 5, 5, 0)
  BY <1>2, <1>3, <1>4 DEF AtLeast
<1> QED  BY <1>1, <1>5 DEF v

\* Sessions keep their owners, and what a call that is at work may get only grows.
LEMMA OwnersKept ==
    ASSUME TypeOK, [Next]_vars
    PROVE  \A s \in Sessions : owner[s] # NoAuth => owner'[s] = owner[s]
<1> USE DEF given, local, vcenter
<1>1. ASSUME NEW c \in Calls, Dial(c)
      PROVE  \A s \in Sessions : owner[s] # NoAuth => owner'[s] = owner[s]
  BY <1>1 DEF Dial, TypeOK
<1>2. ASSUME NEW c \in Calls, Step(c), ~Dial(c)
      PROVE  UNCHANGED owner
  BY <1>2 DEF Step, GetToken, Verify, Begin, Read, Check, ParseVer, BeginWrite,
              EndWrite, Answer
<1>3. ASSUME Fatal \/ Restart \/ Expire \/ Quiet \/ UNCHANGED vars
      PROVE  UNCHANGED owner
  BY <1>3 DEF Fatal, Restart, Expire, Quiet, vars
<1> QED
  BY <1>1, <1>2, <1>3 DEF Next

\* What a step of one call leaves to the others.
LEMMA OthersKept ==
    ASSUME TypeOK, NEW c \in Calls, Step(c), NEW d \in Calls, d # c
    PROVE  /\ pc'[d] = pc[d] /\ bearing'[d] = bearing[d]
           /\ auth'[d] = auth[d] /\ held'[d] = held[d]
  BY DEF TypeOK, Step, GetToken, Verify, Begin, Read, Check, Dial, ParseVer, BeginWrite,
         EndWrite, Answer, Goto, given, vcenter

\* A session that is opened is noted for every call at work.
LEMMA OpenNoted ==
    ASSUME TypeOK, NEW c \in Calls, Step(c), NEW d \in Working, open \subseteq live[d],
           d # c \/ ~\E a, b : Begin(c, a, b)
    PROVE  open' \subseteq live'[d] /\ live[d] \subseteq live'[d]
<1> USE DEF TypeOK, given, vcenter, Working
<1>1. CASE Dial(c)
  <2>1. CASE UNCHANGED <<owner, open, held, live>>
    BY <2>1
  <2>2. CASE \E s \in Sessions :
               /\ open' = open \cup {s}
               /\ live' = [e \in Calls |-> IF e \in Working THEN live[e] \cup {s} ELSE live[e]]
    BY <2>2
  <2> QED  BY <1>1, <2>1, <2>2 DEF Dial
<1>2. CASE \E a, b : Begin(c, a, b)
  BY <1>2 DEF Begin
<1>3. CASE UNCHANGED <<open, live>>
  BY <1>3
<1> QED
  BY <1>1, <1>2, <1>3 DEF Step, GetToken, Verify, Read, Check, ParseVer,
     BeginWrite, EndWrite, Answer

LEMMA HeldOther ==
    ASSUME TypeOK, NEW c \in Calls, Step(c), NEW d \in Calls, d # c, HeldOf(d)
    PROVE  HeldOf(d)'
<1>1. /\ pc'[d] = pc[d] /\ bearing'[d] = bearing[d]
      /\ auth'[d] = auth[d] /\ held'[d] = held[d]
  BY OthersKept
<1>2. d \in Working' <=> d \in Working
  BY <1>1 DEF Working
<1>3. d \in Working => open' \subseteq live'[d] /\ live[d] \subseteq live'[d]
  BY OpenNoted DEF HeldOf
<1>4. pc[d] \in Holding => d \in Working
  BY DEF Holding, Opened, Working
<1>5. pc[d] \in Holding => held[d] \in Sessions /\ owner[held[d]] # NoAuth
  BY DEF TypeOK, HandsOK, HeldOf
<1>6. pc[d] \in Holding => owner'[held[d]] = owner[held[d]]
  BY <1>5, OwnersKept DEF Next
<1> QED
  BY <1>1, <1>2, <1>3, <1>4, <1>6 DEF HeldOf, Holding, Supported, Parsed, checkVer, Newer

LEMMA HeldMover ==
    ASSUME TypeOK, HeldInv, NEW c \in Calls, Step(c)
    PROVE  HeldOf(c)'
<1> USE DEF TypeOK, given, vcenter
<1>0. HeldOf(c)
  BY DEF HeldInv
<1> DEFINE Sup(a) == Supported(a)
<1>1. ASSUME NEW a \in Auths \cup {NoAuth}, NEW b \in Auths \cup {NoAuth}, Begin(c, a, b),
             b # NoAuth => a \in {b, NoAuth}
      PROVE  HeldOf(c)'
  BY <1>1 DEF Begin, Goto, HeldOf, Holding, Opened
<1>2. CASE GetToken(c)
  BY <1>1, <1>2 DEF GetToken
<1>3. CASE Verify(c)
  <2>1. CASE Goto(c, "idle", "unauthorized")
             /\ UNCHANGED <<vcenter, bearing, auth, held, live>>
    BY <1>0, <2>1 DEF Goto, HeldOf, Holding, Opened, Working
  <2> QED  BY <1>1, <1>3, <2>1, ParseType DEF Verify, Verified
<1>4. CASE Read(c)
  <2>1. /\ pc[c] = "reading" /\ UNCHANGED <<bearing, auth, owner, open, live>>
        /\ pc'[c] = IF InMap(c) = NoSession THEN "dialing" ELSE "checking"
        /\ held'[c] = InMap(c)
    BY <1>4 DEF Read, Goto
  <2>2. c \in Working
    BY <2>1 DEF Working
  <2>3. InMap(c) # NoSession => owner[InMap(c)] = auth[c] /\ Sup(auth[c])
    BY DEF InMap, HeldInv
  <2> HIDE DEF Sup
  <2>4. pc'[c] \in Holding => pc'[c] = "checking" /\ InMap(c) # NoSession
    BY <2>1 DEF Holding, Opened
  <2>5. pc'[c] \notin Opened
    BY <2>1 DEF Opened
  <2> QED  BY <1>0, <2>1, <2>2, <2>3, <2>4, <2>5 DEF HeldOf, Sup
<1>5. CASE Check(c)
  <2>1. /\ pc[c] = "checking" /\ UNCHANGED <<bearing, auth, owner, open, live>>
        /\ \/ pc'[c] = "connected" /\ held'[c] = held[c] /\ held[c] \in open
           \/ pc'[c] = "dialing"
    BY <1>5 DEF Check, Goto
  <2>2. c \in Working /\ pc[c] \in Holding \ {"parsing"}
    BY <2>1 DEF Working, Holding
  <2>3. CASE pc'[c] = "dialing"
    BY <1>0, <2>1, <2>2, <2>3 DEF HeldOf, Holding, Opened
  <2>4. CASE pc'[c] = "connected" /\ held'[c] = held[c] /\ held[c] \in open
    BY <1>0, <2>1, <2>2, <2>4 DEF HeldOf
  <2> QED  BY <2>1, <2>3, <2>4
<1>6. CASE Dial(c)
  <2>1. pc[c] = "dialing" /\ c \in Working /\ UNCHANGED <<bearing, auth>>
    BY <1>6 DEF Dial, Goto, Working
  <2>2. open' \subseteq live'[c]
    BY <1>0, <2>1, <1>6, OpenNoted DEF HeldOf, Begin, Goto
  <2>3. \/ pc'[c] = "refused"
        \/ pc'[c] = "parsing" /\ held'[c] \in open' /\ owner'[held'[c]] = auth[c]
    BY <1>6 DEF Dial, Goto
  <2> QED  BY <1>0, <2>1, <2>2, <2>3 DEF HeldOf, Holding, Opened
<1>7. CASE ParseVer(c)
  <2>1. /\ pc[c] = "parsing" /\ c \in Working
        /\ UNCHANGED <<bearing, auth, owner, open, live>>
        /\ \/ pc'[c] = "writing" /\ held' = held /\ Sup(auth[c])
           \/ pc'[c] = "refused"
    BY <1>7 DEF ParseVer, Goto, Working, Supported
  <2> HIDE DEF Sup
  <2>2. CASE pc'[c] = "refused"
    BY <1>0, <2>1, <2>2 DEF HeldOf, Holding, Opened
  <2>3. CASE pc'[c] = "writing" /\ held' = held /\ Sup(auth[c])
    BY <1>0, <2>1, <2>3 DEF HeldOf, Holding, Opened, Sup
  <2> QED  BY <2>1, <2>2, <2>3
<1>8. CASE BeginWrite(c)
  BY <1>0, <1>8 DEF BeginWrite, Goto, HeldOf, Holding, Opened, Working
<1>9. CASE EndWrite(c)
  BY <1>0, <1>9 DEF EndWrite, Goto, HeldOf, Holding, Opened, Working
<1>10. CASE Answer(c)
  BY <1>0, <1>10 DEF Answer, Goto, HeldOf, Holding, Opened, Working
<1> QED
  BY <1>2, <1>3, <1>4, <1>5, <1>6, <1>7, <1>8, <1>9, <1>10 DEF Step

LEMMA HeldInductive == TypeOK /\ HeldInv /\ [Next]_vars => HeldInv'
<1> SUFFICES ASSUME TypeOK, HeldInv, [Next]_vars PROVE HeldInv'
  OBVIOUS
<1> USE DEF given, local, vcenter
<1> DEFINE Sup(a) == Supported(a)
           MapOK == \A a \in Auths : apiCache[a] # NoSession =>
                                       owner[apiCache[a]] = a /\ Sup(a)
<1>0. MapOK /\ \A c \in Calls : HeldOf(c)
  BY DEF HeldInv
<1>1. ASSUME UNCHANGED apiCache
      PROVE  MapOK'
  <2>1. \A a \in Auths : apiCache[a] # NoSession =>
          apiCache[a] \in Sessions /\ owner[apiCache[a]] = a /\ a # NoAuth
    BY <1>0, SessionAssumption DEF TypeOK
  <2>2. \A a \in Auths : apiCache[a] # NoSession => owner'[apiCache[a]] = a
    BY <2>1, OwnersKept
  <2> QED  BY <1>0, <1>1, <2>2
<1>2. ASSUME NEW c \in Calls, Step(c)
      PROVE  HeldInv'
  <2>1. \A d \in Calls : HeldOf(d)'
    BY <1>0, <1>2, HeldMover, HeldOther
  <2>2. CASE EndWrite(c)
    <3>1. /\ pc[c] = "storing" /\ owner' = owner
          /\ apiCache' = [apiCache EXCEPT ![auth[c]] = held[c]]
      BY <2>2 DEF EndWrite, Goto
    <3>2. owner[held[c]] = auth[c] /\ Sup(auth[c])
      BY <1>0, <3>1 DEF HeldOf, Holding, Opened
    <3> HIDE DEF Sup
    <3>3. MapOK'
      BY <1>0, <3>1, <3>2 DEF TypeOK, Sup
    <3> QED  BY <2>1, <3>3 DEF HeldInv, Sup
  <2>3. CASE ~EndWrite(c)
    <3>1. UNCHANGED apiCache
      BY <1>2, <2>3 DEF Step, GetToken, Verify, Begin, Read, Check, Dial, ParseVer,
                        BeginWrite, Answer
    <3> QED  BY <1>1, <2>1, <3>1 DEF HeldInv
  <2> QED  BY <2>2, <2>3
<1>3. CASE Fatal
  <2>1. MapOK'
    BY <1>3 DEF Fatal
  <2>2. ASSUME NEW c \in Calls PROVE HeldOf(c)'
    <3>1. pc'[c] \notin Holding /\ c \notin Working'
      BY <1>3 DEF Fatal, Working, Holding, Opened, TypeOK
    <3> QED  BY <1>0, <1>3, <3>1 DEF Fatal, HeldOf, Holding
  <2> QED  BY <2>1, <2>2 DEF HeldInv
<1>4. CASE Expire
  <2>1. UNCHANGED <<apiCache, owner, pc, bearing, auth, held, live>> /\ open' \subseteq open
    BY <1>4 DEF Expire
  <2>2. ASSUME NEW c \in Calls PROVE HeldOf(c)'
    BY <1>0, <2>1 DEF HeldOf, Working, Supported, Parsed, checkVer, Newer
  <2> QED  BY <1>1, <2>1, <2>2 DEF HeldInv
<1>5. CASE Restart \/ Quiet \/ UNCHANGED vars
  <2>1. UNCHANGED <<apiCache, owner, open, pc, bearing, auth, held, live>>
    BY <1>5 DEF Restart, Quiet, vars
  <2>2. ASSUME NEW c \in Calls PROVE HeldOf(c)'
    BY <1>0, <2>1 DEF HeldOf, Working, Supported, Parsed, checkVer, Newer
  <2> QED  BY <1>1, <2>1, <2>2 DEF HeldInv
<1> QED
  BY <1>2, <1>3, <1>4, <1>5 DEF Next

LEMMA HeldAlways == Spec => []HeldInv
<1>1. Init => HeldInv
  BY DEF Init, HeldInv, HeldOf, Holding, Opened, Working, NoSession
<1> QED
  BY <1>1, SessionTypeCorrect, HeldInductive, PTL DEF Spec

\* A handler that goes on has a session of a vCenter that is 5.5.0 at least, from
\* the map or its own (api.go:98-103).
THEOREM SupportedOnly == Spec => []ConnectedIsSupported
<1>1. TypeOK /\ HeldInv => ConnectedIsSupported
  <2> SUFFICES ASSUME TypeOK, HeldInv, NEW c \in Calls, pc[c] = "connected"
               PROVE  LET v == ApiVersion[owner[held[c]]]
                      IN  Len(v) >= 3 /\ AtLeast(v, 5, 5, 0)
    BY DEF ConnectedIsSupported
  <2>1. pc[c] \in Holding /\ pc[c] # "parsing"
    BY DEF Holding, Opened
  <2>2. owner[held[c]] = auth[c] /\ Supported(auth[c]) /\ auth[c] \in Auths
    BY <2>1 DEF HeldInv, HeldOf, TypeOK, HandsOK
  <2> QED  BY <2>2, VersionOrder
<1> QED
  BY <1>1, SessionTypeCorrect, HeldAlways, PTL

\* A handler that goes on has a session of the account its request's token names,
\* which was open at some moment since the request began (getFromCache, api.go:110-121).
THEOREM OwnSessionOnly == Spec => []ConnectedWasLive
<1>1. TypeOK /\ HeldInv => ConnectedWasLive
  <2> SUFFICES ASSUME TypeOK, HeldInv, NEW c \in Calls, pc[c] = "connected"
               PROVE  /\ held[c] \in live[c]
                      /\ owner[held[c]] = auth[c]
                      /\ bearing[c] # NoAuth => auth[c] = bearing[c]
    BY DEF ConnectedWasLive
  <2>1. pc[c] \in Holding /\ pc[c] \in Opened
    BY DEF Holding, Opened
  <2> QED  BY <2>1 DEF HeldInv, HeldOf, TypeOK, HandsOK
<1> QED
  BY <1>1, SessionTypeCorrect, HeldAlways, PTL

-----------------------------------------------------------------------------
(* When a call logs in.                                                      *)

LEMMA LoginStep ==
    ASSUME TypeOK, LoginInv, NEW c \in Calls, Step(c), NEW d \in Calls
    PROVE  LoginOf(d)'
<1> USE DEF TypeOK, given, vcenter, LoginOf, InMap
<1>0. LoginOf(d) /\ NoSession \notin open
  BY NoSessionIsNone DEF LoginInv
<1>1. ASSUME NEW a \in Auths \cup {NoAuth}, NEW b, Begin(c, a, b)
      PROVE  LoginOf(d)'
  <2>1. /\ gap \subseteq gap' /\ UNCHANGED <<apiCache, open, held>>
        /\ pc'[c] = "reading" /\ auth'[c] = a
        /\ c \in gap' \/ Kept(a)
    BY <1>1 DEF Begin, Goto
  <2>2. d # c => pc'[d] = pc[d] /\ auth'[d] = auth[d]
    BY <1>1 DEF Begin, Goto
  <2>3. CASE d = c
    BY <2>1, <2>3 DEF Kept
  <2>4. CASE d # c
    BY <1>0, <2>1, <2>2, <2>4
  <2> QED  BY <2>3, <2>4
<1>2. CASE GetToken(c)
  BY <1>1, <1>2 DEF GetToken
<1>3. CASE Verify(c)
  <2>1. CASE Goto(c, "idle", "unauthorized")
             /\ UNCHANGED <<apiCache, vcenter, auth, held, gap>>
    BY <1>0, <2>1 DEF Goto
  <2> QED  BY <1>1, <1>3, <2>1, ParseType DEF Verify, Verified
<1>4. CASE Read(c)
  <2>1. UNCHANGED <<apiCache, open, auth, gap>> /\ pc[c] = "reading"
        /\ pc'[c] = (IF InMap(c) = NoSession THEN "dialing" ELSE "checking")
        /\ held'[c] = InMap(c)
    BY <1>4 DEF Read, Goto
  <2>2. CASE d = c
    BY <1>0, <2>1, <2>2
  <2>3. CASE d # c
    BY <1>0, <1>4, <2>1, <2>3, OthersKept
  <2> QED  BY <2>2, <2>3
<1>5. CASE Check(c)
  <2>1. UNCHANGED <<apiCache, open, auth>> /\ gap \subseteq gap' /\ pc[c] = "checking"
        /\ \/ pc'[c] = "connected"
           \/ pc'[c] = "dialing" /\ (held[c] \notin open \/ c \in gap')
    BY <1>5 DEF Check, Goto
  <2>2. CASE d = c
    BY <1>0, <2>1, <2>2
  <2>3. CASE d # c
    BY <1>0, <1>5, <2>1, <2>3, OthersKept
  <2> QED  BY <2>2, <2>3
<1>6. CASE Dial(c)
  <2>1. UNCHANGED <<apiCache, auth, gap>> /\ open \subseteq open' /\ pc[c] = "dialing"
        /\ pc'[c] \in {"parsing", "refused"}
    BY <1>6 DEF Dial, Goto
  <2>2. CASE d = c
    BY <1>0, <2>1, <2>2
  <2>3. CASE d # c
    BY <1>0, <1>6, <2>1, <2>3, OthersKept
  <2> QED  BY <2>2, <2>3
<1>7. CASE ParseVer(c) \/ BeginWrite(c) \/ Answer(c)
  <2>1. UNCHANGED <<apiCache, open, auth, gap>>
        /\ pc'[c] \in {"writing", "refused", "storing", "done"}
    BY <1>7 DEF ParseVer, BeginWrite, Answer, Goto
  <2>2. CASE d = c
    BY <2>1, <2>2
  <2>3. CASE d # c
    BY <1>0, <1>7, <2>1, <2>3, OthersKept
  <2> QED  BY <2>2, <2>3
<1>8. CASE EndWrite(c)
  <2>1. /\ UNCHANGED <<open, auth, held>> /\ pc[c] = "storing" /\ pc'[c] = "connected"
        /\ apiCache' = [apiCache EXCEPT ![auth[c]] = held[c]]
        /\ gap \subseteq gap'
        /\ held[c] \in open \/ \A e \in Working : auth[e] = auth[c] => e \in gap'
    BY <1>8 DEF EndWrite, Goto
  <2>2. CASE d = c
    BY <2>1, <2>2
  <2>3. CASE d # c
    <3>1. pc'[d] = pc[d] /\ (pc[d] = "reading" => d \in Working)
      BY <1>8, <2>3, OthersKept DEF Working
    <3>2. auth[d] # auth[c] => InMap(d)' = InMap(d)
      BY <2>1
    <3>3. auth[d] = auth[c] /\ auth[c] \in Auths => InMap(d)' = held[c]
      BY <2>1
    <3>4. auth[d] = auth[c] /\ auth[c] \notin Auths => InMap(d) = NoSession
      BY DEF InMap
    <3> HIDE DEF InMap
    <3>5. pc'[d] = "reading" => d \in gap' \/ InMap(d)' \in open'
      BY <1>0, <2>1, <3>1, <3>2, <3>3, <3>4
    <3> QED  BY <1>0, <2>1, <3>1, <3>5
  <2> QED  BY <2>2, <2>3
<1> QED
  BY <1>2, <1>3, <1>4, <1>5, <1>6, <1>7, <1>8 DEF Step

LEMMA LoginInductive == TypeOK /\ LoginInv /\ [Next]_vars => LoginInv'
<1> SUFFICES ASSUME TypeOK, LoginInv, [Next]_vars, NEW d \in Calls PROVE LoginOf(d)'
  BY DEF LoginInv
<1>0. LoginOf(d)
  BY DEF LoginInv
<1> USE DEF TypeOK, given, local, vcenter
<1>1. CASE \E c \in Calls : Step(c)
  BY <1>1, LoginStep
<1>2. CASE Fatal
  <2>1. pc'[d] \notin {"reading", "checking", "dialing", "parsing"}
    BY <1>2 DEF Fatal, Working
  <2> QED  BY <2>1 DEF LoginOf
<1>3. CASE Expire
  <2>1. PICK s \in open : /\ open' = open \ {s}
                          /\ gap' = gap \cup {c \in Working : s \in {held[c], InMap(c)}}
    BY <1>3 DEF Expire
  <2>2. UNCHANGED <<apiCache, pc, auth, held>> /\ InMap(d)' = InMap(d)
    BY <1>3 DEF Expire, InMap
  <2>3. pc[d] \in {"reading", "checking"} => d \in Working
    BY DEF Working
  <2> QED  BY <1>0, <2>1, <2>2, <2>3 DEF LoginOf
<1>4. CASE Restart \/ Quiet \/ UNCHANGED vars
  <2>1. UNCHANGED <<apiCache, open, pc, auth, held, gap>>
    BY <1>4 DEF Restart, Quiet, vars
  <2> QED  BY <1>0, <2>1 DEF LoginOf, InMap
<1> QED
  BY <1>1, <1>2, <1>3, <1>4 DEF Next

\* A call logs in only when, since it began, its account had no open session in
\* the map, or the one it had read ended or was in doubt (Init and getFromCache, api.go:36-65, 110-121).
THEOREM NoIdleLogin == Spec => []LoginsAreWarranted
<1>1. Init => LoginInv
  BY DEF Init, LoginInv, LoginOf
<1>2. LoginInv => LoginsAreWarranted
  BY DEF LoginInv, LoginOf, LoginsAreWarranted
<1> QED
  BY <1>1, <1>2, SessionTypeCorrect, LoginInductive, PTL DEF Spec

-----------------------------------------------------------------------------
(* Where the open sessions are.                                              *)

LEMMA AccountStep ==
    ASSUME TypeOK, AccountInv, NEW c \in Calls, Step(c)
    PROVE  AccountInv'
<1> USE DEF TypeOK, given, vcenter
<1> DEFINE Placed(s) == \/ \E a \in Auths : apiCache[a] = s
                        \/ \E d \in Calls : held[d] = s
                        \/ s \in excused
           Sure(d) == pc[d] \in {"checking", "connected"} =>
                        held[d] = InMap(d) \/ held[d] \in excused
<1>0. (\A s \in open : Placed(s)) /\ (\A d \in Calls : Sure(d)) /\ NoSession \notin open
  BY NoSessionIsNone DEF AccountInv, SessionsAreAccounted
<1>. SUFFICES (\A s \in open' : Placed(s)') /\ (\A d \in Calls : Sure(d)')
  BY DEF AccountInv, SessionsAreAccounted
<1>1. ASSUME UNCHANGED apiCache, excused \subseteq excused', NEW d \in Calls, d # c
      PROVE  Sure(d)'
  BY <1>0, <1>1, OthersKept DEF InMap
<1>2. ASSUME NEW to, UNCHANGED <<apiCache, open, excused, held>>, pc'[c] = to,
             to = "connected" => pc[c] = "checking" /\ UNCHANGED auth, to # "checking"
      PROVE  (\A s \in open' : Placed(s)') /\ (\A d \in Calls : Sure(d)')
  <2>1. Sure(c)'
    BY <1>0, <1>2 DEF InMap
  <2> QED  BY <1>0, <1>1, <1>2, <2>1
<1>3. CASE GetToken(c) \/ Verify(c)
  <2>1. UNCHANGED <<apiCache, open, excused, held>> /\ pc'[c] \in {"reading", "unauthorized"}
    BY <1>3 DEF GetToken, Verify, Begin, Goto
  <2> QED  BY <1>2, <2>1
<1>4. CASE Read(c)
  <2>1. UNCHANGED <<apiCache, open, excused, auth>> /\ pc[c] = "reading"
        /\ held' = [held EXCEPT ![c] = InMap(c)]
    BY <1>4 DEF Read, Goto
  <2>2. held[c] = NoSession
    BY <2>1 DEF HandsOK, Holding, Opened
  <2>3. \A s \in open' : Placed(s)'
    BY <1>0, <2>1, <2>2
  <2>4. Sure(c)'
    BY <2>1 DEF InMap
  <2> QED  BY <1>1, <2>1, <2>3, <2>4
<1>5. CASE Check(c)
  <2>1. UNCHANGED <<apiCache, open, auth>> /\ pc[c] = "checking" /\ excused \subseteq excused'
        /\ \/ pc'[c] = "connected" /\ held' = held
           \/ /\ pc'[c] = "dialing" /\ held' = [held EXCEPT ![c] = NoSession]
              /\ held[c] \notin open \/ held[c] \in excused'
    BY <1>5 DEF Check, Goto
  <2>2. \A s \in open' : Placed(s)'
    BY <1>0, <2>1
  <2>3. Sure(c)'
    BY <1>0, <2>1 DEF InMap
  <2> QED  BY <1>1, <2>1, <2>2, <2>3
<1>6. CASE Dial(c)
  <2>1. CASE Goto(c, "dialing", "refused") /\ UNCHANGED <<owner, open, held, live>>
    BY <1>2, <1>6, <2>1 DEF Dial, Goto
  <2>2. CASE \E s \in Sessions : /\ Goto(c, "dialing", "parsing")
                                 /\ open' = open \cup {s} /\ held' = [held EXCEPT ![c] = s]
    <3>1. PICK s \in Sessions : /\ open' = open \cup {s} /\ held' = [held EXCEPT ![c] = s]
      BY <2>2
    <3>2. UNCHANGED <<apiCache, excused>> /\ pc[c] = "dialing" /\ pc'[c] = "parsing"
      BY <1>6, <2>2 DEF Dial, Goto
    <3>3. held[c] = NoSession
      BY <3>2 DEF HandsOK, Holding, Opened
    <3>4. \A r \in open' : Placed(r)'
      BY <1>0, <3>1, <3>2, <3>3
    <3> QED  BY <1>1, <3>2, <3>4
  <2> QED  BY <1>6, <2>1, <2>2 DEF Dial
<1>7. CASE ParseVer(c)
  <2>1. UNCHANGED <<apiCache, open>> /\ excused \subseteq excused'
        /\ pc'[c] \notin {"checking", "connected"}
        /\ \/ held' = held
           \/ held' = [held EXCEPT ![c] = NoSession] /\ held[c] \in excused'
    BY <1>7 DEF ParseVer, Goto
  <2>2. \A s \in open' : Placed(s)'
    BY <1>0, <2>1
  <2> QED  BY <1>1, <2>1, <2>2
<1>8. CASE BeginWrite(c)
  BY <1>2, <1>8 DEF BeginWrite, Goto
<1>9. CASE EndWrite(c)
  <2>1. /\ UNCHANGED <<open, held, auth>> /\ pc[c] = "storing"
        /\ apiCache' = [apiCache EXCEPT ![auth[c]] = held[c]]
        /\ excused' = excused \cup ({apiCache[auth[c]]} \ {NoSession})
    BY <1>9 DEF EndWrite, Goto
  <2>2. auth[c] \in Auths
    BY <2>1 DEF HandsOK, Holding, Opened
  <2>3. \A s \in open' : Placed(s)'
    <3>1. SUFFICES ASSUME NEW s \in open, NEW a \in Auths, apiCache[a] = s
                   PROVE  Placed(s)'
      BY <1>0, <2>1
    <3>2. CASE a = auth[c]
      BY <1>0, <2>1, <3>1, <3>2
    <3>3. CASE a # auth[c]
      BY <2>1, <3>1, <3>3
    <3> QED  BY <3>2, <3>3
  <2>4. ASSUME NEW d \in Calls PROVE Sure(d)'
    <3>1. CASE d = c
      BY <2>1, <2>2, <3>1 DEF InMap
    <3>2. CASE d # c
      <4>1. pc'[d] = pc[d]
        BY <1>9, <3>2, OthersKept
      <4>2. CASE auth[d] # auth[c]
        BY <1>0, <2>1, <4>1, <4>2 DEF InMap
      <4>3. CASE auth[d] = auth[c]
        <5>1. pc[d] \in {"checking", "connected"} => held[d] # NoSession
          BY DEF HandsOK, Holding, Opened
        <5> QED  BY <1>0, <2>1, <2>2, <4>1, <4>3, <5>1 DEF InMap
      <4> QED  BY <4>2, <4>3
    <3> QED  BY <3>1, <3>2
  <2> QED  BY <2>3, <2>4
<1>10. CASE Answer(c)
  <2>1. UNCHANGED <<apiCache, open, excused>> /\ pc[c] = "connected" /\ pc'[c] = "done"
        /\ held' = [held EXCEPT ![c] = NoSession]
    BY <1>10 DEF Answer, Goto
  <2>2. auth[c] \in Auths
    BY <2>1 DEF HandsOK, Holding, Opened
  <2>3. apiCache[auth[c]] = held[c] \/ held[c] \in excused
    BY <1>0, <2>1, <2>2 DEF InMap
  <2>4. \A s \in open' : Placed(s)'
    BY <1>0, <2>1, <2>2, <2>3
  <2> QED  BY <1>1, <2>1, <2>4
<1> QED
  BY <1>3, <1>4, <1>5, <1>6, <1>7, <1>8, <1>9, <1>10 DEF Step

LEMMA AccountInductive == TypeOK /\ AccountInv /\ [Next]_vars => AccountInv'
<1> SUFFICES ASSUME TypeOK, AccountInv, [Next]_vars PROVE AccountInv'
  OBVIOUS
<1> USE DEF given, local, vcenter
<1>1. CASE \E c \in Calls : Step(c)
  BY <1>1, AccountStep
<1>2. CASE Fatal
  <2>1. \A c \in Calls : pc'[c] \notin {"checking", "connected"}
    BY <1>2 DEF Fatal, Working, TypeOK
  <2> QED  BY <1>2, <2>1 DEF Fatal, AccountInv, SessionsAreAccounted
<1>3. CASE Expire \/ Restart \/ Quiet \/ UNCHANGED vars
  <2>1. UNCHANGED <<apiCache, pc, auth, held, excused>> /\ open' \subseteq open
    BY <1>3 DEF Expire, Restart, Quiet, vars
  <2> QED  BY <2>1 DEF AccountInv, SessionsAreAccounted, InMap
<1> QED
  BY <1>1, <1>2, <1>3 DEF Next

\* Every open session is in the map, in somebody's hands, or was refused for its
\* version, replaced, doubted, or left behind by the end of the process.
THEOREM NoSessionIsLost == Spec => []SessionsAreAccounted
<1>1. Init => AccountInv
  BY DEF Init, AccountInv, SessionsAreAccounted
<1>2. AccountInv => SessionsAreAccounted
  BY DEF AccountInv
<1> QED
  BY <1>1, <1>2, SessionTypeCorrect, AccountInductive, PTL DEF Spec
=============================================================================
