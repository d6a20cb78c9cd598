---------------------------- MODULE AccessProofs ----------------------------
(***************************************************************************)
(* What the runs of MCAccess check on two tabs, for every number of tabs   *)
(* and every lifetime of a session.  The inductive invariant says of each  *)
(* request what the handler has read so far and may still rely on.         *)
(***************************************************************************)
EXTENDS Access, FiniteSetTheorems, TLAPS

Places == {"idle", "load", "user", "check", "create", "find", "session", "logout", "reply"}
Request ==
    [pc : Places, op : Ops, token : DOMAIN sessions \cup {None}, csrf : BOOLEAN,
     input : Inputs, again : BOOLEAN, user : Nat \cup {None}, clear : BOOLEAN,
     set : DOMAIN sessions \cup {None}, form : BOOLEAN, excused : BOOLEAN,
     spent : 0 .. CallTime]

\* A request r of tab t.  The fifth and the sixth line are the ones that survive the
\* other tabs: the account that Login found stays, and a session that was
\* young enough when it was read is older by no more than the time spent since.
Sound(t, r) ==
    /\ r \in Request
    /\ r.pc = "idle" => r.user = None
    /\ r.pc \in {"check", "create", "find", "session"} => r.op \in {"login", "register"}
    /\ r.pc = "logout" => r.op = "logout"
    /\ r.pc = "session" => accounts = <<t>>
    /\ r.pc = "user" \/ r.user # None =>
         r.token # None /\ sessions[r.token].age <= TTL + r.spent
    /\ r.clear => r.op = "logout" \/ r.excused \/ (r.token # None /\ ~Live(r.token))

\* The tabs whose request may still make a session.
Minting == {t \in Tabs : /\ requests[t].op \in {"login", "register"}
                         /\ requests[t].pc \notin {"idle", "reply"}}

SessionsOK ==
    /\ sessions \in Seq(Session)
    /\ \A s \in DOMAIN sessions : sessions[s].account = 1 /\ accounts = <<sessions[s].by>>

AccessInv ==
    /\ accounts = <<>> \/ \E t \in Tabs : accounts = <<t>>
    /\ SessionsOK
    /\ Len(sessions) + Cardinality(Minting) <= MaxSessions
    /\ cookie = None \/ cookie \in [session : DOMAIN sessions, left : 1 .. TTL]
    /\ csrf \in Tabs \cup {None}
    /\ requests = [t \in Tabs |-> requests[t]]
    /\ \A t \in Tabs : Sound(t, requests[t])
    /\ errors \in 0 .. MaxErrors

\* What a request does to the sessions: it marks some as deleted and adds new
\* ones; an account stays.
Later ==
    /\ Len(sessions) <= Len(sessions')
    /\ \A s \in DOMAIN sessions : /\ sessions'[s].age = sessions[s].age
                                  /\ sessions[s].gone => sessions'[s].gone
    /\ accounts = <<>> \/ accounts' = accounts

----------------------------------------------------------------------------
(* The numbers of the sessions.                                            *)
LEMMA Numbers ==
  ASSUME sessions \in Seq(Session)
  PROVE  /\ Len(sessions) \in Nat /\ DOMAIN sessions = 1 .. Len(sessions)
         /\ \A s \in DOMAIN sessions : /\ s \in Nat /\ s # None
                                       /\ sessions[s] \in Session
                                       /\ sessions[s].age \in 0 .. Oldest
         /\ Oldest \in Nat
<1>1. /\ Len(sessions) \in Nat /\ DOMAIN sessions = 1 .. Len(sessions)
      /\ \A s \in DOMAIN sessions : sessions[s] \in Session
  OBVIOUS
<1>2. Oldest \in Nat /\ None \notin Nat
  BY AccessAssumption DEF Oldest
<1> QED BY <1>1, <1>2 DEF Session

(* What a request relies on outlives every request, its own and others.    *)
LEMMA SoundLater ==
  ASSUME sessions \in Seq(Session), sessions' \in Seq(Session), Later,
         NEW t, NEW r, Sound(t, r)
  PROVE  Sound(t, r)'
<1>1. /\ Len(sessions) \in Nat /\ DOMAIN sessions = 1 .. Len(sessions)
      /\ Len(sessions') \in Nat /\ DOMAIN sessions' = 1 .. Len(sessions')
  OBVIOUS
<1>2. DOMAIN sessions \subseteq DOMAIN sessions'
  BY <1>1 DEF Later
<1>3. r \in Request /\ r.token \in DOMAIN sessions \cup {None}
  BY DEF Sound, Request
<1>4. r \in Request'
  BY <1>2, <1>3 DEF Request
<1>5. r.pc = "session" => accounts' = <<t>>
  <2>1. <<t>> # <<>>
    OBVIOUS
  <2> QED BY <2>1 DEF Sound, Later
<1>6. r.token # None => sessions'[r.token].age = sessions[r.token].age
  BY <1>3 DEF Later
<1>7. r.token # None /\ ~Live(r.token) => ~Live(r.token)'
  BY <1>3, <1>6 DEF Live, Known, Later
<1> QED BY <1>4, <1>5, <1>6, <1>7 DEF Sound

(* The request is that of tab t; the others keep theirs.                   *)
LEMMA OneRequest ==
  ASSUME AccessInv, NEW t \in Tabs, NEW r, Continue(t, r)
  PROVE  /\ requests'[t] = r
         /\ \A u \in Tabs : u # t => requests'[u] = requests[u]
         /\ requests' = [u \in Tabs |-> requests'[u]]
  BY DEF AccessInv, Continue

(* There is room for the session of every request that may make one.       *)
LEMMA MintingFinite ==
  /\ IsFiniteSet(Minting) /\ Cardinality(Minting) \in Nat
  /\ IsFiniteSet(Minting') /\ Cardinality(Minting') \in Nat
  /\ Minting' \subseteq Minting => Cardinality(Minting') <= Cardinality(Minting)
<1>1. IsFiniteSet(Tabs) /\ Minting \in SUBSET Tabs /\ Minting' \in SUBSET Tabs
  BY AccessAssumption DEF Minting
<1>2. IsFiniteSet(Minting) /\ IsFiniteSet(Minting')
  BY <1>1, FS_Subset
<1> QED BY <1>2, FS_Subset, FS_CardinalityType

(* A step of a request keeps the invariant when what it leaves in the      *)
(* request is sound and it counts its session.                             *)
LEMMA RequestStep ==
  ASSUME AccessInv, NEW t \in Tabs, NEW r, Continue(t, r), Sound(t, r)',
         SessionsOK', Later, errors' \in 0 .. MaxErrors,
         Len(sessions') + Cardinality(Minting') <= MaxSessions,
         accounts' = <<>> \/ \E u \in Tabs : accounts' = <<u>>,
         cookie' = None \/ cookie' \in [session : DOMAIN sessions, left : 1 .. TTL],
         csrf' \in Tabs \cup {None}
  PROVE  AccessInv'
<1>1. sessions \in Seq(Session) /\ sessions' \in Seq(Session)
  BY DEF AccessInv, SessionsOK
<1>2. DOMAIN sessions \subseteq DOMAIN sessions'
  BY <1>1 DEF Later
<1>3. cookie' = None \/ cookie' \in [session : DOMAIN sessions', left : 1 .. TTL]
  BY <1>2
<1>4. ASSUME NEW u \in Tabs PROVE Sound(u, requests[u])'
  <2>1. CASE u = t
    BY <2>1, OneRequest
  <2>2. CASE u # t
    <3>1. Sound(u, requests[u]) /\ requests'[u] = requests[u]
      BY <2>2, OneRequest DEF AccessInv
    <3>2. ASSUME NEW q, q = requests[u] PROVE Sound(u, q)'
      BY <1>1, <3>1, <3>2, SoundLater
    <3> QED BY <3>1, <3>2
  <2> QED BY <2>1, <2>2
<1> QED BY <1>3, <1>4, OneRequest DEF AccessInv

(* A request with other values in its fields is a request.                 *)
LEMMA RequestFields ==
  /\ \A r \in Request, x \in Places : [r EXCEPT !.pc = x] \in Request
  /\ \A r \in Request, x \in Nat \cup {None} : [r EXCEPT !.user = x] \in Request
  /\ \A r \in Request, x \in DOMAIN sessions \cup {None} : [r EXCEPT !.set = x] \in Request
  /\ \A r \in Request, x \in 0 .. CallTime : [r EXCEPT !.spent = x] \in Request
  /\ \A r \in Request, x \in BOOLEAN : /\ [r EXCEPT !.clear = x] \in Request
                                       /\ [r EXCEPT !.again = x] \in Request
                                       /\ [r EXCEPT !.form = x] \in Request
                                       /\ [r EXCEPT !.excused = x] \in Request
<1>1. \A r \in Request, x \in Places : [r EXCEPT !.pc = x] \in Request
  BY DEF Request
<1>2. \A r \in Request, x \in Nat \cup {None} : [r EXCEPT !.user = x] \in Request
  BY DEF Request
<1>3. \A r \in Request, x \in DOMAIN sessions \cup {None} : [r EXCEPT !.set = x] \in Request
  BY DEF Request
<1>4. \A r \in Request, x \in 0 .. CallTime : [r EXCEPT !.spent = x] \in Request
  BY DEF Request
<1>5. \A r \in Request, x \in BOOLEAN : [r EXCEPT !.clear = x] \in Request
  BY DEF Request
<1>6. \A r \in Request, x \in BOOLEAN : [r EXCEPT !.again = x] \in Request
  BY DEF Request
<1>7. \A r \in Request, x \in BOOLEAN : [r EXCEPT !.form = x] \in Request
  BY DEF Request
<1>8. \A r \in Request, x \in BOOLEAN : [r EXCEPT !.excused = x] \in Request
  BY DEF Request
<1> QED BY <1>1, <1>2, <1>3, <1>4, <1>5, <1>6, <1>7, <1>8

(* What Validated makes of a request: the user of a session that was young *)
(* enough, or none and then the cookie goes, which must have its cause.    *)
LEMMA ValidatedSound ==
  ASSUME sessions \in Seq(Session), NEW t, NEW r, Sound(t, r), NEW user \in {1, None},
         user = 1 => r.token # None /\ sessions[r.token].age <= TTL + r.spent,
         user = None => r.excused \/ r.token = None \/ ~Live(r.token)
  PROVE  /\ Sound(t, Validated(r, user))
         /\ Validated(r, user).op = r.op
<1> DEFINE v == Validated(r, user)
<1>1. r \in Request /\ None # 1 /\ None \notin Nat
  BY AccessAssumption DEF Sound
<1>2. /\ v.pc = Handler(r) /\ v.op = r.op /\ v.user = user /\ v.token = r.token
      /\ v.spent = r.spent /\ v.excused = r.excused /\ v.set = r.set
      /\ v.clear <=> r.clear \/ (r.token # None /\ user = None)
  BY <1>1 DEF Validated, Request
<1>3. /\ Handler(r) \in {"reply", "load", "find", "check", "logout"}
      /\ Handler(r) \in {"find", "check"} => r.op \in {"login", "register"}
      /\ Handler(r) = "logout" => r.op = "logout"
  BY <1>1 DEF Request, Ops, Handler, RequireAuth, HandleLogin, HandleRegister
<1>4. v \in Request
  <2>1. Handler(r) \in Places
    BY <1>3 DEF Places
  <2>2. ASSUME NEW c \in BOOLEAN, NEW f \in BOOLEAN, NEW p \in Places
        PROVE  [r EXCEPT !.user = user, !.clear = c, !.again = TRUE, !.form = f, !.pc = p]
                 \in Request
    BY <1>1, RequestFields
  <2> QED BY <2>1, <2>2 DEF Validated
<1>5. v.clear => r.op = "logout" \/ r.excused \/ (r.token # None /\ ~Live(r.token))
  BY <1>2 DEF Sound
<1> HIDE DEF v
<1>6. Sound(t, v)
  BY <1>1, <1>2, <1>3, <1>4, <1>5 DEF Sound
<1> QED BY <1>2, <1>6 DEF v

(* A request that met an error.                                            *)
LEMMA ExcusedSound ==
  ASSUME NEW t, NEW r, Sound(t, r)
  PROVE  LET q == [r EXCEPT !.excused = TRUE]
         IN  Sound(t, q) /\ q.excused /\ q.op = r.op /\ q.token = r.token /\ q.pc = r.pc
<1> DEFINE q == [r EXCEPT !.excused = TRUE]
<1>1. r \in Request
  BY DEF Sound
<1>2. q \in Request
  BY <1>1, RequestFields
<1>3. /\ q.pc = r.pc /\ q.op = r.op /\ q.user = r.user /\ q.token = r.token
      /\ q.spent = r.spent /\ q.excused
  BY <1>1 DEF Request
<1> HIDE DEF q
<1>4. Sound(t, q)
  BY <1>2, <1>3 DEF Sound
<1> QED BY <1>3, <1>4 DEF q

(* Deleting a session.                                                     *)
LEMMA DeleteLater ==
  ASSUME AccessInv, UNCHANGED accounts, NEW s \in DOMAIN sessions,
         sessions' \in {sessions, DeleteByID(s)}
  PROVE  SessionsOK' /\ Later /\ Len(sessions') = Len(sessions)
<1>1. CASE sessions' = sessions
  BY <1>1, Numbers DEF AccessInv, SessionsOK, Later
<1>2. CASE sessions' = DeleteByID(s)
  <2>1. sessions \in Seq(Session) /\ Len(sessions) \in Nat /\ DOMAIN sessions = 1 .. Len(sessions)
    BY Numbers DEF AccessInv, SessionsOK
  <2>2. ASSUME NEW i \in DOMAIN sessions
        PROVE  /\ sessions'[i] \in Session
               /\ sessions'[i].account = sessions[i].account
               /\ sessions'[i].by = sessions[i].by
               /\ sessions'[i].age = sessions[i].age
               /\ sessions[i].gone => sessions'[i].gone
    BY <1>2, <2>1, Numbers DEF DeleteByID, Session
  <2>3. /\ sessions' \in Seq(Session) /\ Len(sessions') = Len(sessions)
        /\ DOMAIN sessions' = DOMAIN sessions
    <3>1. ASSUME NEW x \in Session
          PROVE  LET more == [sessions EXCEPT ![s] = x]
                 IN  more \in Seq(Session) /\ Len(more) = Len(sessions)
                       /\ DOMAIN more = DOMAIN sessions
      BY <2>1
    <3>2. [sessions[s] EXCEPT !.gone = TRUE] \in Session
      BY <2>1, Numbers DEF Session
    <3> QED BY <1>2, <3>1, <3>2 DEF DeleteByID
  <2> QED BY <2>1, <2>2, <2>3 DEF AccessInv, SessionsOK, Later
<1> QED BY <1>1, <1>2

(* A step that leaves sessions and accounts alone, or only deletes a       *)
(* session, needs little.                                                  *)
LEMMA QuietStep ==
  ASSUME AccessInv, NEW t \in Tabs, NEW r, Continue(t, r), Sound(t, r),
         SessionsOK', Later, Len(sessions') = Len(sessions),
         \/ r.pc = "reply"
         \/ r.op = requests[t].op /\ requests[t].pc \notin {"idle", "reply"},
         accounts' = <<>> \/ \E u \in Tabs : accounts' = <<u>>,
         UNCHANGED <<cookie, csrf>>, errors' \in 0 .. MaxErrors
  PROVE  AccessInv'
<1>1. sessions \in Seq(Session) /\ sessions' \in Seq(Session)
  BY DEF AccessInv, SessionsOK
<1>2. Sound(t, r)'
  BY <1>1, SoundLater
<1>3. Minting' \subseteq Minting
  BY OneRequest DEF Minting
<1>4. Len(sessions') + Cardinality(Minting') <= MaxSessions
  <2>1. Len(sessions) \in Nat /\ MaxSessions \in Nat
    BY <1>1, AccessAssumption
  <2> QED BY <1>3, <2>1, MintingFinite DEF AccessInv
<1> QED BY <1>2, <1>4, RequestStep DEF AccessInv

(* A failure is counted.                                                   *)
LEMMA FailCounts ==
  ASSUME errors \in 0 .. MaxErrors
  PROVE  /\ Fail => errors' \in 0 .. MaxErrors /\ errors' < errors
         /\ UNCHANGED errors => errors' \in 0 .. MaxErrors
  BY AccessAssumption DEF Fail

(* A request that only moves on.                                           *)
Moved(r, p) == {[r EXCEPT !.pc = p]} \cup {[r EXCEPT !.pc = p, !.form = f] : f \in BOOLEAN}

LEMMA MovedSound ==
  ASSUME NEW t, NEW r, Sound(t, r), NEW p \in Places, p \notin {"idle", "logout"},
         p \in {"check", "create", "find", "session"} => r.op \in {"login", "register"},
         p = "session" => accounts = <<t>>,
         p = "user" => r.token # None /\ sessions[r.token].age <= TTL + r.spent,
         NEW v \in Moved(r, p)
  PROVE  Sound(t, v) /\ v.op = r.op /\ v.pc = p
<1>1. r \in Request
  BY DEF Sound
<1>2. v \in Request
  <2>1. CASE v = [r EXCEPT !.pc = p]
    BY <1>1, <2>1, RequestFields
  <2>2. ASSUME NEW f \in BOOLEAN, v = [r EXCEPT !.pc = p, !.form = f] PROVE v \in Request
    BY <1>1, <2>2, RequestFields
  <2> QED BY <2>1, <2>2 DEF Moved
<1>3. /\ v.pc = p /\ v.op = r.op /\ v.user = r.user /\ v.token = r.token
      /\ v.spent = r.spent /\ v.excused = r.excused /\ v.clear = r.clear
  BY <1>1 DEF Moved, Request
<1> QED BY <1>2, <1>3 DEF Sound

(* Sessions and accounts are left alone.                                   *)
LEMMA NothingLater ==
  ASSUME AccessInv, UNCHANGED <<accounts, sessions>>
  PROVE  SessionsOK' /\ Later /\ Len(sessions') = Len(sessions)
BY Numbers DEF AccessInv, SessionsOK, Later

----------------------------------------------------------------------------
LEMMA SendStep ==
  ASSUME AccessInv, NEW t \in Tabs, NEW op \in Ops, NEW input \in Inputs, Send(t, op, input)
  PROVE  AccessInv'
<1> DEFINE token == IF cookie = None THEN None ELSE cookie.session
           sent == [Idle EXCEPT !.pc = "load", !.op = op, !.input = input,
                                !.csrf = ValidateCSRF(t), !.token = token]
<1>0. PICK r : r = sent
  OBVIOUS
<1>1. /\ Continue(t, r) /\ requests[t].pc = "idle"
      /\ UNCHANGED <<accounts, sessions, cookie, csrf, errors>>
      /\ op \in {"login", "register"} => Len(sessions) + Cardinality(Pending) < MaxSessions
  BY <1>0 DEF Send
<1>2. /\ r.pc = "load" /\ r.op = op /\ r.user = None /\ r.clear = FALSE
  BY <1>0 DEF Idle
<1>3. token \in DOMAIN sessions \cup {None}
  BY DEF AccessInv
<1>4. r \in Request
  <2>1. CallTime \in Nat
    BY AccessAssumption
  <2> HIDE DEF token
  <2>2. r = [pc |-> "load", op |-> op, token |-> token, csrf |-> ValidateCSRF(t),
             input |-> input, again |-> FALSE, user |-> None, clear |-> FALSE, set |-> None,
             form |-> FALSE, excused |-> FALSE, spent |-> 0]
    BY <1>0 DEF Idle
  <2>3. ValidateCSRF(t) \in BOOLEAN
    BY DEF ValidateCSRF
  <2> HIDE DEF sent
  <2> QED BY <1>3, <2>1, <2>2, <2>3 DEF Request, Places
<1> HIDE DEF sent
<1>5. Sound(t, r)
  BY <1>2, <1>4 DEF Sound
<1>6. SessionsOK' /\ Later /\ Len(sessions') = Len(sessions)
  BY <1>1, NothingLater
<1>7. Sound(t, r)'
  BY <1>5, <1>6, SoundLater DEF AccessInv, SessionsOK
<1>8. Len(sessions') + Cardinality(Minting') <= MaxSessions
  <2>1. /\ Len(sessions) \in Nat /\ MaxSessions \in Nat
        /\ Len(sessions) + Cardinality(Minting) <= MaxSessions
    BY AccessAssumption DEF AccessInv, SessionsOK
  <2>2. CASE op \in {"login", "register"}
    <3>1. Minting' \in SUBSET (Minting \union {t}) /\ Minting \in SUBSET Pending
      BY <1>1, <1>2, OneRequest DEF Minting, Pending
    <3>2. IsFiniteSet(Pending) /\ Cardinality(Pending) \in Nat
      <4>1. IsFiniteSet(Tabs) /\ Pending \in SUBSET Tabs
        BY AccessAssumption DEF Pending
      <4> QED BY <4>1, FS_Subset, FS_CardinalityType
    <3>3. Cardinality(Minting) <= Cardinality(Pending)
      BY <3>1, <3>2, FS_Subset
    <3>4. /\ IsFiniteSet(Minting \union {t})
          /\ \/ Cardinality(Minting \union {t}) = Cardinality(Minting)
             \/ Cardinality(Minting \union {t}) = Cardinality(Minting) + 1
      BY MintingFinite, FS_AddElement
    <3>5. Cardinality(Minting') <= Cardinality(Minting \union {t})
      BY <3>1, <3>4, FS_Subset
    <3>6. Len(sessions') = Len(sessions) /\ Len(sessions) + Cardinality(Pending) < MaxSessions
      BY <1>1, <1>6, <2>2
    <3> QED BY <2>1, <3>2, <3>3, <3>4, <3>5, <3>6, MintingFinite
  <2>3. CASE op \notin {"login", "register"}
    <3>1. Minting' \subseteq Minting
      BY <1>1, <1>2, <2>3, OneRequest DEF Minting
    <3> QED BY <1>6, <2>1, <3>1, MintingFinite
  <2> QED BY <2>2, <2>3
<1> QED BY <1>1, <1>6, <1>7, <1>8, RequestStep DEF AccessInv

LEMMA LoadStep ==
  ASSUME AccessInv, NEW t \in Tabs, Load(t)
  PROVE  AccessInv'
<1> DEFINE r == requests[t]
           s == r.token
<1>1. /\ r.pc = "load" /\ Sound(t, r) /\ s \in DOMAIN sessions \cup {None}
      /\ sessions \in Seq(Session) /\ errors \in 0 .. MaxErrors
      /\ UNCHANGED <<accounts, cookie, csrf>> /\ None # 1
  BY AccessAssumption DEF Load, AccessInv, SessionsOK, Sound, Request
<1>2. r.excused \in BOOLEAN /\ r \in Request
  BY <1>1 DEF Sound, Request
<1>3. ASSUME NEW q, Sound(t, q), q.op = r.op, Continue(t, q),
             errors' \in 0 .. MaxErrors,
             \/ UNCHANGED sessions
             \/ s # None /\ sessions' = DeleteByID(s)
      PROVE  AccessInv'
  <2>1. SessionsOK' /\ Later /\ Len(sessions') = Len(sessions)
    BY <1>1, <1>3, NothingLater, DeleteLater
  <2>2. accounts' = <<>> \/ \E u \in Tabs : accounts' = <<u>>
    BY <1>1 DEF AccessInv
  <2> QED BY <1>1, <1>3, <2>1, <2>2, QuietStep
<1>4. CASE ~Known(s) /\ Continue(t, Validated(r, None)) /\ UNCHANGED <<sessions, errors>>
  <2>1. s = None \/ ~Live(s)
    BY <1>4 DEF Live
  <2> QED BY <1>1, <1>3, <1>4, <2>1, ValidatedSound
<1>5. CASE /\ s # None /\ Fail /\ UNCHANGED sessions
           /\ Continue(t, Validated([r EXCEPT !.excused = TRUE], None))
  <2> DEFINE q == [r EXCEPT !.excused = TRUE]
  <2>1. Sound(t, q) /\ q.excused /\ q.op = r.op
    BY <1>1, <1>2, ExcusedSound
  <2> HIDE DEF q
  <2>2. Sound(t, Validated(q, None)) /\ Validated(q, None).op = r.op
    BY <1>1, <2>1, ValidatedSound
  <2>3. Continue(t, Validated(q, None))
    BY <1>5 DEF q
  <2> QED BY <1>1, <1>3, <1>5, <2>2, <2>3, FailCounts
<1>6. CASE /\ Known(s) /\ Expired(s)
           /\ \/ sessions' = DeleteByID(s) /\ UNCHANGED errors
              \/ Fail /\ UNCHANGED sessions
           /\ Continue(t, Validated(r, None))
  <2>1. s # None /\ ~Live(s)
    <3>1. s \in DOMAIN sessions /\ sessions[s].age \in 0 .. Oldest /\ Oldest \in Nat
      BY <1>1, <1>6, Numbers DEF Known
    <3> QED BY <1>6, <3>1, AccessAssumption DEF Known, Live, Expired
  <2>2. errors' \in 0 .. MaxErrors
    BY <1>1, <1>6, FailCounts
  <2> QED BY <1>1, <1>3, <1>6, <2>1, <2>2, ValidatedSound
<1>7. CASE Known(s) /\ ~Expired(s) /\ Go(t, "user") /\ UNCHANGED <<sessions, errors>>
  <2>1. s # None /\ sessions[s].age <= TTL + r.spent
    <3>1. s \in DOMAIN sessions /\ sessions[s].age \in 0 .. Oldest /\ Oldest \in Nat
      BY <1>1, <1>7, Numbers DEF Known
    <3>2. r.spent \in Nat /\ TTL \in Nat
      BY <1>2, AccessAssumption DEF Request
    <3> QED BY <1>7, <3>1, <3>2 DEF Known, Expired
  <2>2. PICK q \in Moved(r, "user") : Continue(t, q)
    BY <1>7 DEF Go, Moved
  <2>3. Sound(t, q) /\ q.op = r.op
    BY <1>1, <2>1, MovedSound DEF Places
  <2> QED BY <1>1, <1>3, <1>7, <2>2, <2>3
<1> QED BY <1>4, <1>5, <1>6, <1>7 DEF Load

LEMMA GetUserStep ==
  ASSUME AccessInv, NEW t \in Tabs, GetUser(t)
  PROVE  AccessInv'
<1> DEFINE r == requests[t]
           s == r.token
<1>1. /\ r.pc = "user" /\ Sound(t, r) /\ s \in DOMAIN sessions /\ s # None
      /\ sessions[s].age <= TTL + r.spent
      /\ sessions \in Seq(Session) /\ errors \in 0 .. MaxErrors
      /\ UNCHANGED <<accounts, cookie, csrf>> /\ None # 1
  BY AccessAssumption DEF GetUser, AccessInv, SessionsOK, Sound, Request
<1>2. ASSUME NEW q, Sound(t, q), q.op = r.op, Continue(t, q),
             errors' \in 0 .. MaxErrors, sessions' \in {sessions, DeleteByID(s)}
      PROVE  AccessInv'
  <2>1. SessionsOK' /\ Later /\ Len(sessions') = Len(sessions)
    BY <1>1, <1>2, DeleteLater
  <2>2. accounts' = <<>> \/ \E u \in Tabs : accounts' = <<u>>
    BY <1>1 DEF AccessInv
  <2> QED BY <1>1, <1>2, <2>1, <2>2, QuietStep
<1>3. CASE Continue(t, Validated(r, UserOf(s))) /\ UNCHANGED <<sessions, errors>>
  <2>1. UserOf(s) = 1
    BY <1>1 DEF UserOf, AccessInv, SessionsOK
  <2>2. Sound(t, Validated(r, 1)) /\ Validated(r, 1).op = r.op
    BY <1>1, ValidatedSound
  <2> QED BY <1>1, <1>2, <1>3, <2>1, <2>2
<1>4. CASE /\ Fail /\ sessions' \in {sessions, DeleteByID(s)}
           /\ Continue(t, Validated([r EXCEPT !.excused = TRUE], None))
  <2> DEFINE q == [r EXCEPT !.excused = TRUE]
  <2>1. Sound(t, q) /\ q.excused /\ q.op = r.op
    BY <1>1, ExcusedSound
  <2> HIDE DEF q
  <2>2. Sound(t, Validated(q, None)) /\ Validated(q, None).op = r.op
    BY <1>1, <2>1, ValidatedSound
  <2>3. Continue(t, Validated(q, None))
    BY <1>4 DEF q
  <2> QED BY <1>1, <1>2, <1>4, <2>2, <2>3, FailCounts
<1> QED BY <1>3, <1>4 DEF GetUser

(* The steps of Register and Login that touch no session.                  *)
LEMMA MovedStep ==
  ASSUME AccessInv, NEW t \in Tabs,
         requests[t].pc \in {"check", "create", "find", "session"},
         NEW p \in {"create", "find", "session", "reply"}, p = "session" => accounts = <<t>>,
         NEW v \in Moved(requests[t], p), Continue(t, v),
         UNCHANGED <<sessions, cookie, csrf>>, UNCHANGED errors \/ Fail,
         UNCHANGED accounts \/ (accounts = <<>> /\ accounts' = <<t>>)
  PROVE  AccessInv'
<1>1. /\ Sound(t, requests[t]) /\ sessions \in Seq(Session) /\ errors' \in 0 .. MaxErrors
      /\ requests[t].op \in {"login", "register"}
  BY FailCounts DEF AccessInv, SessionsOK, Sound
<1>2. Sound(t, v) /\ v.op = requests[t].op
  BY <1>1, MovedSound DEF Places
<1>3. SessionsOK' /\ Later /\ Len(sessions') = Len(sessions)
  <2>1. CASE UNCHANGED accounts
    BY <2>1, NothingLater
  <2>2. CASE accounts = <<>> /\ accounts' = <<t>>
    <3>1. DOMAIN sessions = {}
      <4>1. \A s \in DOMAIN sessions : accounts = <<sessions[s].by>>
        BY DEF AccessInv, SessionsOK
      <4>2. \A x : <<x>> # <<>>
        OBVIOUS
      <4> QED BY <2>2, <4>1, <4>2
    <3>2. sessions' = sessions /\ DOMAIN sessions' = {} /\ Len(sessions) \in Nat
      BY <1>1, <3>1
    <3> QED BY <1>1, <2>2, <3>1, <3>2 DEF SessionsOK, Later
  <2> QED BY <2>1, <2>2
<1>4. accounts' = <<>> \/ \E u \in Tabs : accounts' = <<u>>
  BY DEF AccessInv
<1> QED BY <1>1, <1>2, <1>3, <1>4, QuietStep

LEMMA CheckEmailStep ==
  ASSUME AccessInv, NEW t \in Tabs, CheckEmail(t)
  PROVE  AccessInv'
<1>1. \E p \in {"create", "reply"} : \E v \in Moved(requests[t], p) : Continue(t, v)
  BY DEF CheckEmail, Go, Moved
<1>2. /\ requests[t].pc = "check" /\ UNCHANGED <<accounts, sessions, cookie, csrf>>
      /\ UNCHANGED errors \/ Fail
  BY DEF CheckEmail
<1> QED BY <1>1, <1>2, MovedStep

LEMMA CreateUserStep ==
  ASSUME AccessInv, NEW t \in Tabs, CreateUser(t)
  PROVE  AccessInv'
<1>1. \E p \in {"find", "reply"} : \E v \in Moved(requests[t], p) : Continue(t, v)
  BY DEF CreateUser, Go, Moved
<1>2. /\ requests[t].pc = "create" /\ UNCHANGED <<sessions, cookie, csrf>>
      /\ UNCHANGED errors \/ Fail
      /\ UNCHANGED accounts \/ (accounts = <<>> /\ accounts' = <<t>>)
  <2>1. Append(<<>>, t) = <<t>>
    OBVIOUS
  <2> QED BY <2>1 DEF CreateUser, EmailFree
<1> QED BY <1>1, <1>2, MovedStep

LEMMA FindUserStep ==
  ASSUME AccessInv, NEW t \in Tabs, FindUser(t)
  PROVE  AccessInv'
<1>1. \E p \in {"session", "reply"} : \E v \in Moved(requests[t], p) :
        Continue(t, v) /\ (p = "session" => accounts = <<t>>)
  <2>1. CASE GetByEmail /\ CheckPassword(1, t) /\ Go(t, "session")
    <3>1. accounts = <<t>>
      BY <2>1 DEF GetByEmail, CheckPassword, AccessInv
    <3> QED BY <2>1, <3>1 DEF Go, Moved
  <2>2. CASE Refused(t)
    BY <2>2 DEF Refused, Moved
  <2> QED BY <2>1, <2>2 DEF FindUser
<1>2. /\ requests[t].pc = "find" /\ UNCHANGED <<accounts, sessions, cookie, csrf>>
      /\ UNCHANGED errors \/ Fail
  BY DEF FindUser
<1> QED BY <1>1, <1>2, MovedStep

LEMMA CreateSessionStep ==
  ASSUME AccessInv, NEW t \in Tabs, CreateSession(t)
  PROVE  AccessInv'
<1> DEFINE more == Append(sessions, NewSession(t))
<1>1. /\ requests[t].pc = "session" /\ Sound(t, requests[t])
      /\ requests[t].op \in {"login", "register"} /\ accounts = <<t>>
      /\ sessions \in Seq(Session) /\ errors \in 0 .. MaxErrors
      /\ Len(sessions) \in Nat /\ DOMAIN sessions = 1 .. Len(sessions)
      /\ UNCHANGED <<accounts, cookie, csrf>>
  BY DEF CreateSession, AccessInv, SessionsOK, Sound
<1>2. CASE Refused(t) /\ Fail /\ UNCHANGED sessions
  <2>1. PICK v \in Moved(requests[t], "reply") : Continue(t, v)
    BY <1>2 DEF Refused, Moved
  <2> QED BY <1>1, <1>2, <2>1, MovedStep
<1>3. ASSUME sessions' = more PROVE SessionsOK' /\ Later
  <2>1. NewSession(t) \in Session /\ NewSession(t).account = 1 /\ NewSession(t).by = t
    <3>1. Cardinality(Tabs) \in Nat /\ 1 <= Cardinality(Tabs)
      BY AccessAssumption, FS_EmptySet, FS_CardinalityType
    <3>2. 0 \in 0 .. Oldest
      BY AccessAssumption DEF Oldest
    <3> QED BY <3>1, <3>2 DEF NewSession, Session
  <2>2. /\ sessions' \in Seq(Session) /\ Len(sessions') = Len(sessions) + 1
        /\ DOMAIN sessions' = 1 .. Len(sessions) + 1
        /\ \A s \in DOMAIN sessions : sessions'[s] = sessions[s]
        /\ sessions'[Len(sessions) + 1] = NewSession(t)
    <3> HIDE DEF NewSession
    <3> QED BY <1>1, <1>3, <2>1
  <2>3. SessionsOK'
    BY <1>1, <2>1, <2>2 DEF SessionsOK, AccessInv
  <2>4. Later
    BY <1>1, <2>2 DEF Later
  <2> QED BY <2>3, <2>4
<1>4. ASSUME NEW r, Continue(t, r), r.pc = "reply", Sound(t, r)', sessions' = more,
             errors' \in 0 .. MaxErrors
      PROVE  AccessInv'
  <2>1. Len(sessions') + Cardinality(Minting') <= MaxSessions
    <3>1. t \in Minting /\ Minting' \subseteq Minting \ {t}
      BY <1>1, <1>4, OneRequest DEF Minting
    <3>2. /\ IsFiniteSet(Minting \ {t})
          /\ Cardinality(Minting \ {t}) = Cardinality(Minting) - 1
      BY <3>1, MintingFinite, FS_RemoveElement
    <3>3. Cardinality(Minting') <= Cardinality(Minting \ {t})
      BY <3>1, <3>2, FS_Subset
    <3>4. Len(sessions') = Len(sessions) + 1
      BY <1>1, <1>4
    <3>5. Len(sessions) + Cardinality(Minting) <= MaxSessions /\ MaxSessions \in Nat
      BY AccessAssumption DEF AccessInv
    <3> QED BY <1>1, <3>2, <3>3, <3>4, <3>5, MintingFinite
  <2> QED BY <1>1, <1>3, <1>4, <2>1, RequestStep DEF AccessInv
<1>5. CASE Refused(t) /\ Fail /\ sessions' = more
  <2>1. PICK v \in Moved(requests[t], "reply") : Continue(t, v)
    BY <1>5 DEF Refused, Moved
  <2>2. Sound(t, v) /\ v.pc = "reply"
    BY <1>1, MovedSound DEF Places
  <2>3. Sound(t, v)'
    BY <1>1, <1>3, <1>5, <2>2, SoundLater DEF SessionsOK
  <2> QED BY <1>1, <1>4, <1>5, <2>1, <2>2, <2>3, FailCounts
<1>6. CASE /\ sessions' = more /\ UNCHANGED errors
           /\ Continue(t, [requests[t] EXCEPT !.pc = "reply", !.set = Len(more)])
  <2>1. PICK v \in Moved(requests[t], "reply") : v = [requests[t] EXCEPT !.pc = "reply"]
    BY DEF Moved
  <2>2. Sound(t, v) /\ v.pc = "reply"
    BY <1>1, MovedSound DEF Places
  <2>3. Sound(t, v)'
    BY <1>1, <1>3, <1>6, <2>2, SoundLater DEF SessionsOK
  <2>4. PICK n : n = Len(more)
    OBVIOUS
  <2>5. n \in DOMAIN sessions'
    BY <1>1, <1>6, <2>4
  <2>6. PICK r : r = [v EXCEPT !.set = n]
    OBVIOUS
  <2>7. r \in Request'
    <3>1. v \in Request'
      BY <2>3 DEF Sound
    <3> QED BY <2>5, <2>6, <3>1 DEF Request
  <2>8. /\ r.pc = v.pc /\ r.op = v.op /\ r.user = v.user /\ r.token = v.token
        /\ r.spent = v.spent /\ r.excused = v.excused /\ r.clear = v.clear
    BY <2>2, <2>6 DEF Sound, Request
  <2>9. Sound(t, r)'
    BY <2>3, <2>7, <2>8 DEF Sound
  <2>10. Continue(t, r)
    BY <1>6, <2>1, <2>4, <2>6
  <2> QED BY <1>1, <1>4, <1>6, <2>2, <2>8, <2>9, <2>10
<1> QED BY <1>2, <1>5, <1>6 DEF CreateSession

LEMMA LogoutStep ==
  ASSUME AccessInv, NEW t \in Tabs, Logout(t)
  PROVE  AccessInv'
<1> DEFINE r == requests[t]
<1>1. /\ r.pc = "logout" /\ r.op = "logout" /\ Sound(t, r) /\ r \in Request
      /\ r.token \in DOMAIN sessions \cup {None}
      /\ sessions \in Seq(Session) /\ errors' \in 0 .. MaxErrors
      /\ UNCHANGED <<accounts, cookie, csrf>>
  <2>1. r.pc = "logout" /\ Sound(t, r) /\ UNCHANGED <<accounts, cookie, csrf>>
    BY DEF Logout, AccessInv
  <2>2. sessions \in Seq(Session) /\ errors' \in 0 .. MaxErrors
    BY FailCounts DEF Logout, AccessInv, SessionsOK
  <2>3. r.op = "logout" /\ r \in Request
    BY <2>1 DEF Sound
  <2>4. r.token \in DOMAIN sessions \cup {None}
    BY <2>3 DEF Request
  <2> QED BY <2>1, <2>2, <2>3, <2>4
<1>2. PICK q : q = [r EXCEPT !.pc = "reply", !.clear = TRUE]
  OBVIOUS
<1>3. q \in Request
  BY <1>1, <1>2, RequestFields DEF Places
<1>4. /\ q.pc = "reply" /\ q.op = r.op /\ q.user = r.user /\ q.token = r.token
      /\ q.spent = r.spent
  BY <1>1, <1>2 DEF Request
<1>5. Sound(t, q)
  BY <1>1, <1>3, <1>4 DEF Sound
<1>6. Continue(t, q)
  BY <1>2 DEF Logout
<1>7. SessionsOK' /\ Later /\ Len(sessions') = Len(sessions)
  <2>1. CASE UNCHANGED sessions
    BY <1>1, <2>1, NothingLater
  <2>2. CASE r.token # None /\ sessions' = DeleteByID(r.token)
    BY <1>1, <2>2, DeleteLater
  <2> QED BY <2>1, <2>2 DEF Logout
<1>8. accounts' = <<>> \/ \E u \in Tabs : accounts' = <<u>>
  BY <1>1 DEF AccessInv
<1> QED BY <1>1, <1>4, <1>5, <1>6, <1>7, <1>8, QuietStep

LEMMA ReplyStep ==
  ASSUME AccessInv, NEW t \in Tabs, Reply(t)
  PROVE  AccessInv'
<1>1. /\ requests[t].pc = "reply" /\ requests[t].set \in DOMAIN sessions \cup {None}
      /\ Continue(t, Idle) /\ UNCHANGED <<accounts, sessions, errors>>
      /\ sessions \in Seq(Session)
  BY DEF Reply, AccessInv, SessionsOK, Sound, Request
<1>2. Idle \in Request
  BY AccessAssumption DEF Idle, Request, Places, Ops, Inputs
<1>3. Sound(t, Idle)
  <2>1. Idle.pc = "idle" /\ Idle.user = None /\ Idle.clear = FALSE
    BY DEF Idle
  <2> QED BY <1>2, <2>1 DEF Sound
<1>4. SessionsOK' /\ Later /\ Len(sessions') = Len(sessions)
  BY <1>1, NothingLater
<1>5. Sound(t, Idle)'
  <2>1. PICK q : q = Idle
    OBVIOUS
  <2>2. Sound(t, q)'
    BY <1>1, <1>3, <1>4, <2>1, SoundLater DEF SessionsOK
  <2>3. Idle' = Idle
    BY DEF Idle
  <2> QED BY <2>1, <2>2, <2>3
<1>6. Len(sessions') + Cardinality(Minting') <= MaxSessions
  <2>1. Minting' \subseteq Minting
    BY <1>1, OneRequest DEF Minting, Idle
  <2>2. Len(sessions) \in Nat /\ MaxSessions \in Nat
    BY <1>1, AccessAssumption
  <2> QED BY <1>4, <2>1, <2>2, MintingFinite DEF AccessInv
<1>7. cookie' = None \/ cookie' \in [session : DOMAIN sessions, left : 1 .. TTL]
  <2>1. \A s \in DOMAIN sessions : SessionCookie(s) \in [session : DOMAIN sessions, left : 1 .. TTL]
    BY AccessAssumption DEF SessionCookie
  <2> QED BY <1>1, <2>1 DEF Reply, AccessInv
<1>8. csrf' \in Tabs \cup {None}
  BY DEF Reply, AccessInv
<1> QED BY <1>1, <1>4, <1>5, <1>6, <1>7, <1>8, RequestStep DEF AccessInv

(* The clean-up works on all sessions and no request.                      *)
LEMMA CleanupStep ==
  ASSUME AccessInv, CleanupExpiredSessions
  PROVE  AccessInv'
<1>1. /\ sessions \in Seq(Session) /\ Len(sessions) \in Nat /\ DOMAIN sessions = 1 .. Len(sessions)
      /\ UNCHANGED <<accounts, cookie, csrf, requests, errors>>
  BY Numbers DEF AccessInv, SessionsOK, CleanupExpiredSessions
<1>2. ASSUME NEW s \in DOMAIN sessions
      PROVE  /\ sessions'[s] \in Session
             /\ sessions'[s].account = sessions[s].account
             /\ sessions'[s].by = sessions[s].by
             /\ sessions'[s].age = sessions[s].age
             /\ sessions[s].gone => sessions'[s].gone
  BY <1>1, Numbers DEF CleanupExpiredSessions, Session
<1>3. sessions' \in Seq(Session) /\ Len(sessions') = Len(sessions) /\ DOMAIN sessions' = DOMAIN sessions
  <2>1. sessions' = [s \in 1 .. Len(sessions) |-> sessions'[s]]
    BY <1>1 DEF CleanupExpiredSessions
  <2> QED BY <1>1, <1>2, <2>1
<1>4. SessionsOK' /\ Later
  <2>1. SessionsOK'
    BY <1>1, <1>2, <1>3 DEF AccessInv, SessionsOK
  <2>2. Later
    BY <1>1, <1>2, <1>3 DEF Later
  <2> QED BY <2>1, <2>2
<1>5. ASSUME NEW t \in Tabs PROVE Sound(t, requests[t])'
  <2>1. PICK q : q = requests[t]
    OBVIOUS
  <2> QED BY <1>1, <1>3, <1>4, <2>1, SoundLater DEF AccessInv
<1>6. Minting' = Minting
  BY <1>1 DEF Minting
<1> QED BY <1>1, <1>3, <1>4, <1>5, <1>6 DEF AccessInv

(* Everything ages together: what a session may exceed its lifetime by is  *)
(* what the request has spent.                                             *)
LEMMA TickStep ==
  ASSUME AccessInv, Tick
  PROVE  AccessInv'
<1>1. /\ sessions \in Seq(Session) /\ Len(sessions) \in Nat /\ DOMAIN sessions = 1 .. Len(sessions)
      /\ UNCHANGED <<accounts, csrf, errors>>
      /\ Oldest \in Nat /\ TTL \in Nat /\ CallTime \in Nat
  BY Numbers, AccessAssumption DEF AccessInv, SessionsOK, Tick
<1>2. ASSUME NEW s \in DOMAIN sessions
      PROVE  /\ sessions'[s] \in Session
             /\ sessions'[s].account = sessions[s].account
             /\ sessions'[s].by = sessions[s].by
             /\ sessions'[s].gone = sessions[s].gone
             /\ sessions'[s].age = IF sessions[s].age = Oldest THEN Oldest
                                   ELSE sessions[s].age + 1
  <2>1. sessions'[s] = [sessions[s] EXCEPT !.age = IF @ = Oldest THEN @ ELSE @ + 1]
    BY <1>1 DEF Tick
  <2>2. sessions[s] \in Session /\ sessions[s].age \in 0 .. Oldest
    BY <1>1, Numbers
  <2>3. (IF sessions[s].age = Oldest THEN sessions[s].age ELSE sessions[s].age + 1) \in 0 .. Oldest
    BY <1>1, <2>2
  <2> HIDE DEF Oldest
  <2> QED BY <2>1, <2>2, <2>3 DEF Session
<1>3. sessions' \in Seq(Session) /\ Len(sessions') = Len(sessions) /\ DOMAIN sessions' = DOMAIN sessions
  <2>1. sessions' = [s \in 1 .. Len(sessions) |-> sessions'[s]]
    BY <1>1 DEF Tick
  <2> QED BY <1>1, <1>2, <2>1
<1>4. SessionsOK'
  BY <1>1, <1>2, <1>3 DEF AccessInv, SessionsOK
<1>5. cookie' = None \/ cookie' \in [session : DOMAIN sessions', left : 1 .. TTL]
  <2>1. CASE cookie = None \/ cookie.left = 1
    BY <2>1 DEF Tick
  <2>2. CASE cookie # None /\ cookie.left # 1
    <3>1. cookie \in [session : DOMAIN sessions, left : 1 .. TTL]
      BY <2>2 DEF AccessInv
    <3>2. cookie' = [cookie EXCEPT !.left = @ - 1]
      BY <2>2 DEF Tick
    <3>3. cookie.left - 1 \in 1 .. TTL
      BY <1>1, <2>2, <3>1
    <3> QED BY <1>3, <3>1, <3>2, <3>3
  <2> QED BY <2>1, <2>2
<1>6. ASSUME NEW k \in DOMAIN sessions, ~Live(k) PROVE ~Live(k)'
  <2>1. sessions[k].age \in 0 .. Oldest /\ k # None
    BY <1>1, Numbers
  <2>2. sessions[k].gone \/ ~(sessions[k].age <= TTL)
    BY <1>6, <2>1 DEF Live, Known
  <2>3. sessions'[k].gone \/ ~(sessions'[k].age <= TTL)
    <3> HIDE DEF Oldest
    <3> QED BY <1>1, <1>2, <2>1, <2>2
  <2> QED BY <2>3 DEF Live, Known
<1>7. ASSUME NEW t \in Tabs
      PROVE  /\ Sound(t, requests[t])'
             /\ requests'[t].pc = requests[t].pc /\ requests'[t].op = requests[t].op
  <2> DEFINE r == requests[t]
             n == IF r.pc = "idle" THEN 0 ELSE r.spent + 1
  <2>1. /\ Sound(t, r) /\ r \in Request /\ r.spent \in 0 .. CallTime
        /\ r.token \in DOMAIN sessions \cup {None}
    BY DEF AccessInv, Sound, Request
  <2>2. n \in 0 .. CallTime
    BY <1>1, <2>1 DEF Tick
  <2>3. requests'[t] = [r EXCEPT !.spent = n]
    BY DEF Tick
  <2>4. requests'[t] \in Request
    <3> HIDE DEF n
    <3> QED BY <2>1, <2>2, <2>3, RequestFields
  <2>5. requests'[t] \in Request'
    BY <1>3, <2>4 DEF Request
  <2> DEFINE q == requests'[t]
  <2>6. /\ q.pc = r.pc /\ q.op = r.op /\ q.user = r.user /\ q.token = r.token
        /\ q.excused = r.excused /\ q.clear = r.clear /\ q.spent = n
    <3> HIDE DEF n
    <3> QED BY <2>1, <2>3 DEF Request
  <2>7. q.pc = "user" \/ q.user # None =>
          q.token # None /\ sessions'[q.token].age <= TTL + q.spent
    <3> SUFFICES ASSUME r.pc = "user" \/ r.user # None
                 PROVE  r.token # None /\ sessions'[r.token].age <= TTL + n
      BY <2>6
    <3>1. r.token # None /\ sessions[r.token].age <= TTL + r.spent /\ r.pc # "idle"
      BY <2>1 DEF Sound
    <3>2. /\ r.token \in DOMAIN sessions /\ sessions[r.token].age \in 0 .. Oldest
      BY <1>1, <2>1, <3>1, Numbers
    <3>3. n = r.spent + 1
      BY <3>1
    <3>4. \/ sessions'[r.token].age = sessions[r.token].age
          \/ sessions'[r.token].age = sessions[r.token].age + 1
      BY <1>2, <3>2
    <3> DEFINE a == sessions[r.token].age
               b == sessions'[r.token].age
               m == r.spent
    <3>5. a \in Nat /\ m \in Nat /\ TTL \in Nat /\ a <= TTL + m /\ (b = a \/ b = a + 1)
      BY <1>1, <2>1, <3>1, <3>2, <3>4
    <3> HIDE DEF a, b, m
    <3>6. b <= TTL + (m + 1)
      BY <3>5
    <3> QED BY <3>1, <3>3, <3>6 DEF b, m
  <2>8. q.clear => \/ q.op = "logout" \/ q.excused
                   \/ q.token # None /\ ~Live(r.token)'
    <3>1. PICK k : k = r.token
      OBVIOUS
    <3>2. r.token' = k
      BY <2>6, <3>1
    <3>3. ASSUME k # None, ~Live(k) PROVE ~Live(k)'
      <4>1. k \in DOMAIN sessions
        BY <2>1, <3>1, <3>3
      <4> QED BY <1>6, <3>3, <4>1
    <3> QED BY <2>1, <2>6, <3>1, <3>2, <3>3 DEF Sound
  <2> HIDE DEF n
  <2> QED BY <1>1, <2>1, <2>5, <2>6, <2>7, <2>8 DEF Sound
<1>8. requests' = [t \in Tabs |-> requests'[t]]
  BY DEF Tick
<1>9. Minting' = Minting
  BY <1>7 DEF Minting
<1> QED BY <1>1, <1>3, <1>4, <1>5, <1>7, <1>8, <1>9 DEF AccessInv

----------------------------------------------------------------------------
LEMMA AccessInvStep ==
  ASSUME AccessInv, [Next]_vars
  PROVE  AccessInv'
<1>1. CASE UNCHANGED vars
  <2>1. UNCHANGED <<accounts, sessions, requests, cookie, csrf, errors>>
    BY <1>1 DEF vars
  <2>2. SessionsOK' /\ Later /\ Len(sessions') = Len(sessions)
    BY <2>1, NothingLater
  <2>3. ASSUME NEW t \in Tabs PROVE Sound(t, requests[t])'
    <3>1. PICK q : q = requests[t]
      OBVIOUS
    <3> QED BY <2>1, <2>2, <3>1, SoundLater DEF AccessInv, SessionsOK
  <2>4. Minting' = Minting
    BY <2>1 DEF Minting
  <2> QED BY <2>1, <2>2, <2>3, <2>4 DEF AccessInv
<1>2. CASE ForgetCSRF
  <2>1. UNCHANGED <<accounts, sessions, requests, cookie, errors>> /\ csrf' = None
    BY <1>2 DEF ForgetCSRF
  <2>2. SessionsOK' /\ Later /\ Len(sessions') = Len(sessions)
    BY <2>1, NothingLater
  <2>3. ASSUME NEW t \in Tabs PROVE Sound(t, requests[t])'
    <3>1. PICK q : q = requests[t]
      OBVIOUS
    <3> QED BY <2>1, <2>2, <3>1, SoundLater DEF AccessInv, SessionsOK
  <2>4. Minting' = Minting
    BY <2>1 DEF Minting
  <2> QED BY <2>1, <2>2, <2>3, <2>4 DEF AccessInv
<1>3. ASSUME NEW t \in Tabs, NEW op \in Ops, NEW input \in Inputs, Send(t, op, input)
      PROVE  AccessInv'
  BY <1>3, SendStep
<1>4. ASSUME NEW t \in Tabs,
             \/ Load(t) \/ GetUser(t) \/ CheckEmail(t) \/ CreateUser(t) \/ FindUser(t)
             \/ CreateSession(t) \/ Logout(t) \/ Reply(t)
      PROVE  AccessInv'
  BY <1>4, LoadStep, GetUserStep, CheckEmailStep, CreateUserStep, FindUserStep,
     CreateSessionStep, LogoutStep, ReplyStep
<1> QED BY <1>1, <1>2, <1>3, <1>4, CleanupStep, TickStep DEF Next

(* The accounts, the sessions and the requests of all tabs stay sound: the *)
(* inductive invariant.                                                    *)
THEOREM AccessInvariant == Spec => []AccessInv
<1>1. Init => AccessInv
  <2> SUFFICES ASSUME Init PROVE AccessInv
    OBVIOUS
  <2>1. /\ accounts = <<>> /\ sessions = <<>> /\ cookie = None /\ csrf = None
        /\ requests = [t \in Tabs |-> Idle] /\ errors = MaxErrors
    BY DEF Init
  <2>2. SessionsOK
    BY <2>1 DEF SessionsOK
  <2>3. Idle \in Request
    BY AccessAssumption DEF Idle, Request, Places, Ops, Inputs
  <2>4. ASSUME NEW t \in Tabs PROVE Sound(t, requests[t])
    <3>1. Idle.pc = "idle" /\ Idle.user = None /\ Idle.clear = FALSE
      BY DEF Idle
    <3> QED BY <2>1, <2>3, <3>1 DEF Sound
  <2>5. Len(sessions) + Cardinality(Minting) <= MaxSessions
    <3>1. Minting = {}
      BY <2>1 DEF Minting, Idle
    <3> QED BY <2>1, <3>1, FS_EmptySet, AccessAssumption
  <2>6. requests = [t \in Tabs |-> requests[t]] /\ errors \in 0 .. MaxErrors
    BY <2>1, AccessAssumption
  <2> QED BY <2>1, <2>2, <2>4, <2>5, <2>6 DEF AccessInv
<1> QED BY <1>1, AccessInvStep, PTL DEF Spec

(* However many tabs share the browser, one address has one account, a     *)
(* session belongs to the password it was given for, and no page is served *)
(* to a session that is older than sessionTTL and the time of the request: *)
(* SessionsAreSound.                                                       *)
THEOREM SessionsStaySound == Spec => []SessionsAreSound
<1>1. AccessInv => SessionsAreSound
  <2> SUFFICES ASSUME AccessInv PROVE SessionsAreSound
    OBVIOUS
  <2>1. /\ sessions \in Seq(Session) /\ Len(sessions) \in Nat
        /\ DOMAIN sessions = 1 .. Len(sessions)
    BY Numbers DEF AccessInv, SessionsOK
  <2>2. ASSUME NEW t \in Tabs
        PROVE  /\ requests[t].pc \in Places /\ requests[t].op \in Ops
               /\ requests[t].token \in DOMAIN sessions \cup {None}
               /\ requests[t].spent \in 0 .. CallTime
    BY DEF AccessInv, Sound, Request
  <2>3. TypeOK
    <3>1. Len(sessions) <= MaxSessions
      BY <2>1, MintingFinite, AccessAssumption DEF AccessInv
    <3> QED BY <2>1, <2>2, <3>1 DEF TypeOK, AccessInv, Places
  <2>4. SessionsAreOwn
    BY DEF SessionsAreOwn, AccessInv, SessionsOK
  <2>5. ASSUME NEW t \in Tabs, requests[t].user # None
        PROVE  sessions[requests[t].token].age <= TTL + CallTime
    <3>1. /\ requests[t].token # None
          /\ sessions[requests[t].token].age <= TTL + requests[t].spent
      BY <2>5 DEF AccessInv, Sound
    <3>2. /\ requests[t].token \in DOMAIN sessions /\ requests[t].spent \in 0 .. CallTime
          /\ sessions[requests[t].token].age \in 0 .. Oldest
      BY <2>1, <2>2, <3>1, Numbers
    <3> QED BY <3>1, <3>2, AccessAssumption DEF Oldest
  <2> QED BY <2>3, <2>4, <2>5 DEF SessionsAreSound, ServedInTime
<1> QED BY <1>1, AccessInvariant, PTL

(* Of the steps that delete sessions, each spares those that live and that *)
(* nobody logs out of: SessionsEndForACause.                               *)
THEOREM SessionsEndOnPurpose == Spec => SessionsEndForACause
<1> DEFINE Cause(s) == \/ errors' < errors
                       \/ \E t \in Tabs : requests[t].pc = "logout" /\ requests[t].token = s
<1>1. ASSUME AccessInv, [Next]_vars, NEW s \in DOMAIN sessions, Live(s), sessions'[s].gone
      PROVE  Cause(s)
  <2>1. /\ sessions \in Seq(Session) /\ Len(sessions) \in Nat
        /\ DOMAIN sessions = 1 .. Len(sessions)
        /\ sessions[s] \in Session /\ ~sessions[s].gone /\ ~Expired(s)
        /\ errors \in 0 .. MaxErrors
    <3>1. sessions[s].age \in 0 .. Oldest /\ Oldest \in Nat /\ TTL \in Nat
      BY <1>1, Numbers, AccessAssumption DEF AccessInv, SessionsOK
    <3> QED BY <1>1, <3>1, Numbers DEF AccessInv, SessionsOK, Live, Known, Expired
  <2>2. Fail => Cause(s)
    BY <2>1, FailCounts
  <2>3. ~UNCHANGED sessions
    BY <1>1, <2>1
  <2>4. ASSUME NEW i \in DOMAIN sessions, sessions' = DeleteByID(i) PROVE i = s
    BY <1>1, <2>1, <2>4 DEF DeleteByID
  <2>5. ASSUME NEW t \in Tabs, Load(t) PROVE Cause(s)
    <3>1. requests[t].token \in DOMAIN sessions \cup {None}
      BY <1>1 DEF AccessInv, Sound, Request
    <3> QED BY <2>1, <2>2, <2>3, <2>4, <2>5, <3>1 DEF Load, Known
  <2>6. ASSUME NEW t \in Tabs, GetUser(t) PROVE Cause(s)
    BY <2>2, <2>3, <2>6 DEF GetUser
  <2>7. ASSUME NEW t \in Tabs, Logout(t) PROVE Cause(s)
    <3>1. requests[t].token \in DOMAIN sessions \cup {None}
      BY <1>1 DEF AccessInv, Sound, Request
    <3>2. requests[t].pc = "logout" /\ sessions' = DeleteByID(requests[t].token)
          /\ requests[t].token # None
      BY <2>3, <2>7 DEF Logout
    <3> QED BY <2>4, <3>1, <3>2
  <2>8. ASSUME NEW t \in Tabs, CreateSession(t) PROVE FALSE
    <3>1. sessions' = Append(sessions, NewSession(t))
      BY <2>3, <2>8 DEF CreateSession
    <3> HIDE DEF NewSession
    <3> QED BY <1>1, <2>1, <3>1
  <2>9. CASE CleanupExpiredSessions
    <3>1. sessions'[s] = [sessions[s] EXCEPT !.gone = @ \/ Expired(s)]
      BY <2>9 DEF CleanupExpiredSessions
    <3>2. sessions'[s].gone <=> sessions[s].gone \/ Expired(s)
      <4> HIDE DEF Expired
      <4> QED BY <2>1, <3>1 DEF Session
    <3> QED BY <1>1, <2>1, <3>2
  <2>10. CASE Tick
    <3>1. sessions'[s] = [sessions[s] EXCEPT !.age = IF @ = Oldest THEN @ ELSE @ + 1]
      BY <2>1, <2>10 DEF Tick
    <3>2. sessions'[s].gone = sessions[s].gone
      <4> HIDE DEF Oldest
      <4> QED BY <2>1, <3>1 DEF Session
    <3> QED BY <1>1, <2>1, <3>2
  <2>11. ASSUME NEW t \in Tabs,
                \/ CheckEmail(t) \/ CreateUser(t) \/ FindUser(t) \/ Reply(t)
                \/ \E op \in Ops, input \in Inputs : Send(t, op, input)
         PROVE  FALSE
    BY <2>3, <2>11 DEF CheckEmail, CreateUser, FindUser, Reply, Send
  <2>12. CASE ForgetCSRF \/ UNCHANGED vars
    BY <2>3, <2>12 DEF ForgetCSRF, vars
  <2> HIDE DEF Cause
  <2> QED BY <1>1, <2>5, <2>6, <2>7, <2>8, <2>9, <2>10, <2>11, <2>12 DEF Next
<1>2. AccessInv /\ [Next]_vars =>
        \A s \in DOMAIN sessions : Live(s) /\ sessions'[s].gone => Cause(s)
  BY <1>1
<1> QED BY <1>2, AccessInvariant, PTL DEF Spec, SessionsEndForACause

(* A response takes the cookie away when its request was a logout, met an  *)
(* error, was sent with another cookie, or found the session dead: and a   *)
(* dead session does not live again.  Time takes a cookie away with the    *)
(* last part of its life: CookieLostForACause.                             *)
THEOREM CookieGoesOnPurpose == Spec => CookieLostForACause
<1> DEFINE ByTime ==
             cookie.left = 1 /\ sessions'[cookie.session].age > sessions[cookie.session].age
           ByReply ==
             \E t \in Tabs :
               /\ requests[t].pc = "reply" /\ requests'[t].pc = "idle"
               /\ \/ requests[t].op = "logout" \/ requests[t].excused
                  \/ requests[t].token # cookie.session
<1>1. ASSUME AccessInv, [Next]_vars, cookie # None, cookie' = None, Live(cookie.session)
      PROVE  ByTime \/ ByReply
  <2>1. /\ cookie \in [session : DOMAIN sessions, left : 1 .. TTL]
        /\ sessions \in Seq(Session) /\ TTL \in Nat \ {0}
    BY <1>1, AccessAssumption DEF AccessInv, SessionsOK
  <2>2. ~UNCHANGED cookie
    BY <1>1
  <2>3. \A x \in [session : Nat, left : Nat] : x # None
    BY AccessAssumption
  <2>4. ASSUME NEW t \in Tabs, Reply(t) PROVE ByReply
    <3>1. /\ requests[t].pc = "reply" /\ Sound(t, requests[t])
          /\ requests[t].set \in DOMAIN sessions \cup {None}
      BY <1>1, <2>4 DEF Reply, AccessInv, Sound, Request
    <3>2. requests'[t] = Idle
      BY <1>1, <2>4, OneRequest DEF Reply
    <3>3. requests[t].set = None
      <4> SUFFICES ASSUME requests[t].set # None PROVE FALSE
        OBVIOUS
      <4>1. requests[t].set \in Nat
        BY <2>1, <3>1, Numbers
      <4>2. SessionCookie(requests[t].set) \in [session : Nat, left : Nat]
        BY <2>1, <4>1 DEF SessionCookie
      <4> QED BY <1>1, <2>3, <2>4, <4>2 DEF Reply
    <3>4. requests[t].clear
      BY <1>1, <2>4, <3>3 DEF Reply
    <3>5. \/ requests[t].op = "logout" \/ requests[t].excused
          \/ requests[t].token # cookie.session
      BY <1>1, <3>1, <3>4 DEF Sound
    <3> QED BY <3>1, <3>2, <3>5 DEF Idle
  <2>5. CASE Tick
    <3>1. cookie.left = 1
      <4> SUFFICES ASSUME cookie.left # 1 PROVE FALSE
        OBVIOUS
      <4>1. cookie' = [cookie EXCEPT !.left = @ - 1]
        BY <1>1, <2>5 DEF Tick
      <4>2. cookie.session \in Nat /\ cookie.left \in Nat /\ cookie.left - 1 \in Nat
        BY <2>1, Numbers
      <4>3. cookie' \in [session : Nat, left : Nat]
        BY <2>1, <4>1, <4>2
      <4> QED BY <1>1, <2>3, <4>3
    <3> DEFINE k == cookie.session
    <3>2. /\ k \in DOMAIN sessions /\ sessions[k] \in Session
          /\ sessions[k].age \in 0 .. Oldest /\ sessions[k].age <= TTL
      BY <1>1, <2>1, Numbers DEF Live
    <3>3. sessions'[k] = [sessions[k] EXCEPT !.age = IF @ = Oldest THEN @ ELSE @ + 1]
      BY <2>5, <3>2 DEF Tick
    <3>4. sessions[k].age # Oldest
      BY <2>1, <3>2, AccessAssumption DEF Oldest
    <3>5. sessions'[k].age = sessions[k].age + 1
      <4> HIDE DEF Oldest
      <4> QED BY <3>2, <3>3, <3>4 DEF Session
    <3> QED BY <3>1, <3>2, <3>5
  <2>6. ASSUME NEW t \in Tabs,
               \/ Load(t) \/ GetUser(t) \/ CheckEmail(t) \/ CreateUser(t) \/ FindUser(t)
               \/ CreateSession(t) \/ Logout(t)
               \/ \E op \in Ops, input \in Inputs : Send(t, op, input)
        PROVE  FALSE
    <3>1. CASE Load(t) \/ GetUser(t)
      BY <2>2, <3>1 DEF Load, GetUser
    <3>2. CASE CheckEmail(t) \/ CreateUser(t) \/ FindUser(t)
      BY <2>2, <3>2 DEF CheckEmail, CreateUser, FindUser
    <3>3. CASE CreateSession(t) \/ Logout(t)
      BY <2>2, <3>3 DEF CreateSession, Logout
    <3>4. CASE \E op \in Ops, input \in Inputs : Send(t, op, input)
      BY <2>2, <3>4 DEF Send
    <3> QED BY <2>6, <3>1, <3>2, <3>3, <3>4
  <2>7. CASE CleanupExpiredSessions \/ ForgetCSRF \/ UNCHANGED vars
    BY <2>2, <2>7 DEF CleanupExpiredSessions, ForgetCSRF, vars
  <2> HIDE DEF ByTime, ByReply
  <2> QED BY <1>1, <2>4, <2>5, <2>6, <2>7 DEF Next
<1>2. AccessInv /\ [Next]_vars =>
        (cookie # None /\ cookie' = None /\ Live(cookie.session) => ByTime \/ ByReply)
  BY <1>1
<1> QED BY <1>2, AccessInvariant, PTL DEF Spec, CookieLostForACause
=============================================================================
