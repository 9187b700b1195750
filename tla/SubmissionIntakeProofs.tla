----------------------- MODULE SubmissionIntakeProofs -----------------------
(* Proofs about AuthSession and SubmissionIntake, for every number of      *)
(* accounts, devices and requests, and for every contest.                  *)
EXTENDS SubmissionIntake, TLAPS

-----------------------------------------------------------------------------
(* Accounts and sessions.                                                  *)

Calls == [at : {"new", "noEmail", "free", "refused", "failed", "registered"},
          username : Usernames \cup {None}, email : Emails \cup {None}]

Browsers == [at : {"idle", "login"}, user : Registrations \cup {None},
             access : AccessTokens \cup {None},
             cookie : RefreshTokens \cup {None}]

\* A call that goes on has a name and an address, and a login its user.
CallsAreTyped ==
    /\ register \in [Registrations -> Calls]
    /\ \A g \in Registrations :
          /\ register[g].at \in {"noEmail", "free"} =>
                /\ register[g].username \in Usernames
                /\ register[g].email \in Emails
    /\ \A d \in Devices :
          device[d].at = "login" => device[d].user \in Registrations

\* An access token ends AccessTtl after a login that is not later than the
\* last one.
TokensAreSigned ==
    /\ \A g \in Registrations : signed[g] # None => signed[g] <= clock
    /\ \A d \in Devices :
          device[d].access # None =>
              LET token == device[d].access IN
              /\ signed[token.user] # None
              /\ token.expires <= signed[token.user] + AccessTtl

AuthInv == AuthTypeOK /\ CallsAreTyped /\ TokensAreSigned

LEMMA RegisterKeepsAuth ==
    ASSUME AuthInv, NEW g \in Registrations, RegisterUser(g)
    PROVE  AuthInv'
  <1>1. UNCHANGED <<clock, device, stored, signed>>
    BY DEF RegisterUser, CheckEmailExists, CheckUsernameExists, CreateUser,
           sessionVars
  <1>2. \A outcome \in {"refused", "failed", "registered"} :
           [NewRegistration EXCEPT !.at = outcome] \in Calls
           /\ [NewRegistration EXCEPT !.at = outcome].at = outcome
    BY DEF NewRegistration, Calls
  <1>3. CASE CheckEmailExists(g)
    <2>1. PICK c \in Calls : /\ register' = [register EXCEPT ![g] = c]
                             /\ c.at \in {"noEmail", "free"} =>
                                   /\ c.username \in Usernames
                                   /\ c.email \in Emails
      <3>1. PICK n \in Usernames, e \in Emails :
               \/ Ends(g, "refused")
               \/ register' = [register EXCEPT ![g] =
                     [at |-> "noEmail", username |-> n, email |-> e]]
        BY <1>3 DEF CheckEmailExists
      <3>2. [at |-> "noEmail", username |-> n, email |-> e] \in Calls
        BY DEF Calls
      <3> QED
        BY <1>2, <3>1, <3>2 DEF Ends
    <2>2. CallsAreTyped'
      BY <1>1, <2>1 DEF AuthInv, CallsAreTyped
    <2>3. users' = users
      BY <1>3 DEF CheckEmailExists
    <2> QED
      BY <1>1, <2>2, <2>3 DEF AuthInv, AuthTypeOK, TokensAreSigned
  <1>4. CASE CheckUsernameExists(g)
    <2>1. ASSUME Ends(g, "refused")
          PROVE  CallsAreTyped'
      BY <1>1, <1>2, <2>1 DEF AuthInv, CallsAreTyped, Ends
    <2>2. ASSUME register' = [register EXCEPT ![g].at = "free"]
          PROVE  CallsAreTyped'
      <3>1. register[g].at = "noEmail"
        BY <1>4 DEF CheckUsernameExists
      <3> QED
        BY <1>1, <2>2, <3>1 DEF AuthInv, CallsAreTyped, Calls
    <2>3. CallsAreTyped' /\ users' = users
      BY <1>4, <2>1, <2>2 DEF CheckUsernameExists
    <2> QED
      BY <1>1, <2>3 DEF AuthInv, AuthTypeOK, TokensAreSigned
  <1>5. CASE CreateUser(g)
    <2>1. CallsAreTyped'
      BY <1>1, <1>2, <1>5 DEF AuthInv, CallsAreTyped, Ends, CreateUser
    <2>2. CASE users' = users
      BY <1>1, <2>1, <2>2 DEF AuthInv, AuthTypeOK, TokensAreSigned
    <2>3. CASE users' = users \cup {Row(g)} /\ ~TakenName(g) /\ ~TakenEmail(g)
      <3>1. Row(g) \in Rows
        BY <1>5 DEF CreateUser, AuthInv, CallsAreTyped, Row, Rows
      <3>2. users' \subseteq Rows
        BY <2>3, <3>1 DEF AuthInv, AuthTypeOK
      <3>3. \A u \in users : u.username # Row(g).username
                             /\ u.email # Row(g).email
        BY <2>3 DEF TakenName, TakenEmail, Row
      <3>4. \A u, v \in users' :
               u.username = v.username \/ u.email = v.email => u = v
        BY <2>3, <3>3 DEF AuthInv, AuthTypeOK
      <3> QED
        BY <1>1, <2>1, <3>2, <3>4 DEF AuthInv, AuthTypeOK, TokensAreSigned
    <2> QED
      BY <1>5, <2>2, <2>3 DEF CreateUser
  <1> QED
    BY <1>3, <1>4, <1>5 DEF RegisterUser

LEMMA LoginKeepsAuth ==
    ASSUME AuthInv, NEW d \in Devices, LoginUser(d)
    PROVE  AuthInv'
  <1>1. device \in [Devices -> Browsers]
    BY DEF AuthInv, AuthTypeOK, Browsers
  <1>2. CASE LoginCompare(d)
    <2>1. PICK u \in users :
             device' = [device EXCEPT ![d].at = "login", ![d].user = u.id]
      BY <1>2 DEF LoginCompare
    <2>2. UNCHANGED <<clock, users, register, stored, signed>>
      BY <1>2 DEF LoginCompare, accountVars
    <2>3. u.id \in Registrations
      BY DEF AuthInv, AuthTypeOK, Rows
    <2>4. device' \in [Devices -> Browsers]
      BY <1>1, <2>1, <2>3 DEF Browsers
    <2>5. \A e \in Devices : /\ device'[e].access = device[e].access
                             /\ \/ device'[e].user \in Registrations
                                \/ /\ device'[e].at = device[e].at
                                   /\ device'[e].user = device[e].user
      BY <1>1, <2>1, <2>3 DEF Browsers
    <2> QED
      BY <2>2, <2>4, <2>5
         DEF AuthInv, AuthTypeOK, CallsAreTyped, TokensAreSigned, Browsers
  <1>3. CASE LoginSign(d)
    <2> DEFINE u == device[d].user
               refresh == [user |-> u, issued |-> clock]
               token == [user |-> u, expires |-> clock + AccessTtl]
               b == [NewDevice EXCEPT !.cookie = refresh, !.access = token]
    <2>1. /\ stored' = [stored EXCEPT ![u] = refresh]
          /\ signed' = [signed EXCEPT ![u] = clock]
          /\ device' = [device EXCEPT ![d] = b]
          /\ UNCHANGED <<clock, users, register>>
      BY <1>3 DEF LoginSign, accountVars
    <2>2. /\ u \in Registrations /\ clock \in 0..MaxClock
          /\ clock + AccessTtl \in 0..(MaxClock + AccessTtl)
      BY <1>3, AuthConstants DEF LoginSign, AuthInv, CallsAreTyped, AuthTypeOK
    <2>3. refresh \in RefreshTokens /\ token \in AccessTokens
          /\ token.user = u /\ token.expires = clock + AccessTtl
      BY <2>2 DEF RefreshTokens, AccessTokens
    <2> HIDE DEF refresh, token
    <2>4. b \in Browsers /\ b.access = token /\ b.at = "idle"
      BY <2>3 DEF NewDevice, Browsers
    <2> HIDE DEF b
    <2>5. /\ device' \in [Devices -> Browsers] /\ device'[d] = b
          /\ \A e \in Devices : e # d => device'[e] = device[e]
      BY <1>1, <2>1, <2>4
    <2>6. /\ stored' \in [Registrations -> RefreshTokens \cup {None}]
          /\ signed' \in [Registrations -> (0..MaxClock) \cup {None}]
          /\ signed'[u] = clock
          /\ \A g \in Registrations : g # u => signed'[g] = signed[g]
      BY <2>1, <2>2, <2>3 DEF AuthInv, AuthTypeOK
    <2>7. AuthTypeOK'
      BY <2>1, <2>5, <2>6 DEF AuthInv, AuthTypeOK, Browsers
    <2>8. CallsAreTyped'
      BY <2>1, <2>4, <2>5 DEF AuthInv, CallsAreTyped
    <2>9. clock # None /\ clock <= clock
      BY <2>2, AuthConstants
    <2>10. ASSUME NEW e \in Devices, device'[e].access # None
           PROVE  LET t == device'[e].access IN
                  /\ signed'[t.user] # None
                  /\ t.expires <= signed'[t.user] + AccessTtl
      <3>1. CASE e = d
        <4>1. clock + AccessTtl <= clock + AccessTtl
          BY <2>2, AuthConstants
        <4> QED
          BY <2>3, <2>4, <2>5, <2>6, <2>9, <3>1, <4>1
      <3>2. CASE e # d
        <4> DEFINE t == device[e].access
        <4>1. /\ device'[e].access = t /\ t # None /\ t \in AccessTokens
              /\ signed[t.user] # None
              /\ t.expires <= signed[t.user] + AccessTtl
          BY <2>5, <2>10, <3>2 DEF AuthInv, AuthTypeOK, TokensAreSigned
        <4>2. t.user \in Registrations /\ t.expires \in Int
          BY <4>1, AuthConstants DEF AccessTokens
        <4>3. signed[t.user] \in Int /\ signed[t.user] <= clock
          BY <4>1, <4>2 DEF AuthInv, AuthTypeOK, TokensAreSigned
        <4>4. CASE t.user = u
          <5>1. t.expires <= clock + AccessTtl
            BY <2>2, <4>1, <4>2, <4>3, AuthConstants
          <5> QED
            BY <2>6, <2>9, <4>1, <4>4, <5>1
        <4>5. CASE t.user # u
          BY <2>6, <4>1, <4>2, <4>5
        <4> QED
          BY <4>4, <4>5
      <3> QED
        BY <3>1, <3>2
    <2>11. \A g \in Registrations : signed'[g] # None => signed'[g] <= clock
      BY <2>6, <2>9 DEF AuthInv, TokensAreSigned
    <2> QED
      BY <2>1, <2>7, <2>8, <2>10, <2>11 DEF AuthInv, TokensAreSigned
  <1>4. CASE LoginFails(d)
    <2>1. /\ device' = [device EXCEPT ![d].at = "idle", ![d].user = None]
          /\ UNCHANGED <<clock, users, register, stored, signed>>
      BY <1>4 DEF LoginFails, Idle, accountVars
    <2>2. device' \in [Devices -> Browsers]
      BY <1>1, <2>1 DEF Browsers
    <2>3. \A e \in Devices : /\ device'[e].access = device[e].access
                             /\ \/ device'[e].at = "idle"
                                \/ device'[e] = device[e]
      BY <1>1, <2>1 DEF Browsers
    <2> QED
      BY <2>1, <2>2, <2>3
         DEF AuthInv, AuthTypeOK, CallsAreTyped, TokensAreSigned, Browsers
  <1> QED
    BY <1>2, <1>3, <1>4 DEF LoginUser

LEMMA LogoutKeepsAuth ==
    ASSUME AuthInv, NEW d \in Devices, Logout(d)
    PROVE  AuthInv'
  <1>1. /\ stored' = [stored EXCEPT ![device[d].access.user] = None]
        /\ device' = [device EXCEPT ![d].cookie = None]
        /\ UNCHANGED <<clock, users, register, signed>>
    BY DEF Logout, accountVars
  <1>2. device \in [Devices -> Browsers]
    BY DEF AuthInv, AuthTypeOK, Browsers
  <1>3. /\ device' \in [Devices -> Browsers]
        /\ \A e \in Devices : /\ device'[e].at = device[e].at
                              /\ device'[e].user = device[e].user
                              /\ device'[e].access = device[e].access
    BY <1>1, <1>2 DEF Browsers
  <1>4. stored' \in [Registrations -> RefreshTokens \cup {None}]
    BY <1>1 DEF AuthInv, AuthTypeOK
  <1> QED
    BY <1>1, <1>3, <1>4
       DEF AuthInv, AuthTypeOK, CallsAreTyped, TokensAreSigned, Browsers

LEMMA TickKeepsAuth ==
    ASSUME AuthInv, Tick
    PROVE  AuthInv'
  <1>1. /\ clock' = clock + 1 /\ clock < MaxClock
        /\ UNCHANGED <<users, register, device, stored, signed>>
    BY DEF Tick, accountVars, sessionVars
  <1>2. clock \in Nat /\ clock' \in 0..MaxClock /\ clock <= clock'
    BY <1>1, AuthConstants DEF AuthInv, AuthTypeOK
  <1>3. AuthTypeOK' /\ CallsAreTyped'
    BY <1>1, <1>2 DEF AuthInv, AuthTypeOK, CallsAreTyped
  <1>4. ASSUME NEW g \in Registrations, signed[g] # None
        PROVE  signed[g] <= clock'
    <2>1. signed[g] \in Int /\ signed[g] <= clock
      BY <1>4 DEF AuthInv, AuthTypeOK, TokensAreSigned
    <2> QED
      BY <1>2, <2>1
  <1>5. TokensAreSigned'
    BY <1>1, <1>4 DEF AuthInv, TokensAreSigned
  <1> QED
    BY <1>3, <1>5 DEF AuthInv

LEMMA AuthIsInductive ==
    ASSUME AuthInv, AuthStep \/ UNCHANGED authVars
    PROVE  AuthInv'
  <1>1. CASE UNCHANGED authVars
    BY <1>1 DEF authVars, accountVars, sessionVars, AuthInv, AuthTypeOK,
                CallsAreTyped, TokensAreSigned
  <1>2. ASSUME NEW d \in Devices, RefreshToken(d)
        PROVE  AuthInv'
    BY <1>1, <1>2 DEF RefreshToken
  <1> QED
    BY <1>1, <1>2, RegisterKeepsAuth, LoginKeepsAuth, LogoutKeepsAuth,
       TickKeepsAuth DEF AuthStep

-----------------------------------------------------------------------------
(* Requests.                                                               *)

Places == {"new", "authenticated", "classified", "created", "waiting",
           "unpublished", "answered"}
Types == {"RATED", "PRACTICE", None}
Confirms == {"ack", "nack", None}
Answers == {202, 500, None}
Attempts == [at : Places, type : Types, confirm : Confirms, answer : Answers,
             causes : SUBSET Causes]
Statuses == {"absent", "QUEUE", "judged"}
Messages == {"none", "sent", "queued", "judged"}

\* What a request, its row and its message say of each other, wherever the
\* handler is.
Agree(q, w, m) ==
    /\ q.at \in {"new", "authenticated", "classified"} =>
          w = "absent" /\ m = "none"
    /\ q.at = "created" => w = "QUEUE" /\ m = "none"
    /\ q.at \in {"new", "authenticated", "classified", "created"} =>
          q.confirm = None
    /\ q.at \in {"waiting", "unpublished"} =>
          w = IF m = "judged" THEN "judged" ELSE "QUEUE"
    /\ q.at = "waiting" /\ q.confirm = None => m # "none"
    /\ q.at = "waiting" /\ q.confirm = "ack" => m \in {"queued", "judged"}
    /\ q.at = "unpublished" \/ (q.at = "waiting" /\ q.confirm = "nack") =>
          m = "none" \/ "unconfirmed" \in q.causes
    /\ q.at # "answered" => q.answer = None
    /\ q.answer = 202 =>
          \/ w = "QUEUE" /\ m = "queued"
          \/ w = "judged" /\ m = "judged"
    /\ q.at = "answered" /\ q.answer # 202 =>
          /\ m # "none" => "unconfirmed" \in q.causes \/ "crash" \in q.causes
          /\ w = "QUEUE" => "kept" \in q.causes \/ "crash" \in q.causes

\* After the freeze no request becomes rated, and what it had not seen of the
\* rated ones was between the look at the clock and the INSERT.
Seen(r, q, w) ==
    q.type = "RATED" =>
        /\ w # "absent" => r \in freeze.counted \cup freeze.slow
        /\ q.at = "classified" => r \in freeze.slow

RequestsAreTyped ==
    /\ request \in [Requests -> Attempts]
    /\ row \in [Requests -> Statuses]
    /\ message \in [Requests -> Messages]
    /\ channel \in {"open", "closed"}
    /\ freeze \in [done : BOOLEAN, counted : SUBSET Requests,
                   slow : SUBSET Requests]
    /\ faults \in 0..MaxFaults

RequestsAgree == \A r \in Requests : Agree(request[r], row[r], message[r])

FreezeSawTheRest ==
    freeze.done =>
        /\ clock > ContestEnd
        /\ \A r \in Requests : Seen(r, request[r], row[r])

IntakeInv == RequestsAreTyped /\ RequestsAgree /\ FreezeSawTheRest
IInv == AuthInv /\ IntakeInv

\* One request takes a step: it is enough to look at that one.
LEMMA OneRequest ==
    ASSUME IntakeInv, NEW r \in Requests, UNCHANGED <<clock, freeze>>,
           channel' \in {"open", "closed"}, faults' \in 0..MaxFaults,
           NEW q \in Attempts, request' = [request EXCEPT ![r] = q],
           NEW w \in Statuses, row' = [row EXCEPT ![r] = w],
           NEW m \in Messages, message' = [message EXCEPT ![r] = m],
           Agree(q, w, m),
           freeze.done /\ Seen(r, request[r], row[r]) /\ clock > ContestEnd
              => Seen(r, q, w)
    PROVE  IntakeInv'
  <1>1. RequestsAreTyped'
    BY DEF IntakeInv, RequestsAreTyped
  <1>2. \A x \in Requests :
           IF x = r THEN /\ request'[x] = q /\ row'[x] = w /\ message'[x] = m
           ELSE /\ request'[x] = request[x] /\ row'[x] = row[x]
                /\ message'[x] = message[x]
    BY DEF IntakeInv, RequestsAreTyped
  <1>3. RequestsAgree'
    BY <1>2 DEF IntakeInv, RequestsAgree
  <1>4. ASSUME freeze'.done
        PROVE  clock' > ContestEnd
               /\ \A x \in Requests : Seen(x, request'[x], row'[x])
    BY <1>2, <1>4 DEF IntakeInv, FreezeSawTheRest
  <1>5. FreezeSawTheRest'
    BY <1>4 DEF FreezeSawTheRest, Seen
  <1> QED
    BY <1>1, <1>3, <1>5 DEF IntakeInv

\* The request does not change its row or its message.
LEMMA RequestOnly ==
    ASSUME IntakeInv, NEW r \in Requests,
           UNCHANGED <<clock, row, message, channel, freeze, faults>>,
           NEW q \in Attempts, request' = [request EXCEPT ![r] = q],
           Agree(q, row[r], message[r]),
           freeze.done /\ Seen(r, request[r], row[r]) /\ clock > ContestEnd
              => Seen(r, q, row[r])
    PROVE  IntakeInv'
  <1>1. /\ row' = [row EXCEPT ![r] = row[r]]
        /\ message' = [message EXCEPT ![r] = message[r]]
        /\ row[r] \in Statuses /\ message[r] \in Messages
        /\ channel' \in {"open", "closed"} /\ faults' \in 0..MaxFaults
    BY DEF IntakeInv, RequestsAreTyped
  <1> QED
    BY <1>1, OneRequest

LEMMA EndedIs ==
    ASSUME NEW q \in Attempts, NEW answer \in Answers,
           NEW causes \in SUBSET Causes,
           NEW e, e = Ended(q, answer, causes)
    PROVE  /\ e \in Attempts /\ e.at = "answered" /\ e.answer = answer
           /\ e.causes = q.causes \cup causes /\ e.type = q.type
  <1> DEFINE C == q.causes \cup causes
  <1>1. C \in SUBSET Causes
    BY DEF Attempts
  <1>2. "answered" \in Places /\ None \in Confirms
    BY DEF Places, Confirms
  <1>3. e = [q EXCEPT !.at = "answered", !.answer = answer, !.confirm = None,
                      !.causes = C]
    BY DEF Ended
  <1> HIDE DEF C
  <1>4. /\ e \in Attempts /\ e.at = "answered" /\ e.answer = answer
        /\ e.causes = C /\ e.type = q.type
    BY <1>1, <1>2, <1>3 DEF Attempts
  <1> QED
    BY <1>4 DEF C

LEMMA UntypedIs ==
    ASSUME NEW e \in Attempts, NEW n, n = [e EXCEPT !.type = None]
    PROVE  /\ n \in Attempts /\ n.at = e.at /\ n.answer = e.answer
           /\ n.causes = e.causes
  <1>1. None \in Types
    BY DEF Types
  <1> QED
    BY <1>1 DEF Attempts

\* The places a request goes to while its other fields stay.
LEMMA MovedIs ==
    ASSUME NEW q \in Attempts, NEW place \in Places
    PROVE  LET e == [q EXCEPT !.at = place] IN
           /\ e \in Attempts /\ e.at = place /\ e.type = q.type
           /\ e.confirm = q.confirm /\ e.answer = q.answer
           /\ e.causes = q.causes
  BY DEF Attempts

LEMMA RequestFacts ==
    ASSUME IntakeInv, NEW r \in Requests
    PROVE  /\ request[r] \in Attempts /\ row[r] \in Statuses
           /\ message[r] \in Messages
           /\ Agree(request[r], row[r], message[r])
           /\ channel \in {"open", "closed"} /\ faults \in 0..MaxFaults
  BY DEF IntakeInv, RequestsAreTyped, RequestsAgree

LEMMA LookingKeepsIntake ==
    ASSUME AuthInv, IntakeInv, NEW r \in Requests,
           Authenticate(r) \/ Classify(r)
    PROVE  IntakeInv'
  <1> DEFINE q == request[r]
  <1>1. /\ q \in Attempts /\ Agree(q, row[r], message[r])
        /\ UNCHANGED <<clock, row, message, channel, freeze, faults>>
    BY RequestFacts DEF Authenticate, Classify, authVars
  <1>2. CASE Authenticate(r)
    <2> DEFINE e == [q EXCEPT !.at = "authenticated"]
    <2>1. q.at = "new" /\ request' = [request EXCEPT ![r] = e]
      BY <1>2 DEF Authenticate, At, Goto
    <2>2. "authenticated" \in Places
      BY DEF Places
    <2>3. /\ e \in Attempts /\ e.at = "authenticated" /\ e.type = q.type
          /\ e.confirm = q.confirm /\ e.answer = q.answer
      BY <1>1, <2>2, MovedIs
    <2> HIDE DEF e
    <2>4. Agree(e, row[r], message[r])
      BY <1>1, <2>1, <2>3 DEF Agree
    <2>5. Seen(r, q, row[r]) => Seen(r, e, row[r])
      BY <2>3 DEF Seen
    <2> QED
      BY <1>1, <2>1, <2>3, <2>4, <2>5, RequestOnly
  <1>3. CASE Classify(r)
    <2> DEFINE t == IF InContest THEN "RATED" ELSE "PRACTICE"
               e == [q EXCEPT !.at = "classified", !.type = t]
    <2>1. q.at = "authenticated" /\ request' = [request EXCEPT ![r] = e]
      BY <1>3 DEF Classify, At
    <2>2. "classified" \in Places /\ t \in Types
      BY DEF Places, Types
    <2>3. clock > ContestEnd => t = "PRACTICE"
      BY IntakeConstants DEF InContest, AuthInv, AuthTypeOK
    <2> HIDE DEF t
    <2>4. /\ e \in Attempts /\ e.at = "classified" /\ e.type = t
          /\ e.confirm = q.confirm /\ e.answer = q.answer
      BY <1>1, <2>2 DEF Attempts
    <2> HIDE DEF e
    <2>5. Agree(e, row[r], message[r])
      BY <1>1, <2>1, <2>4 DEF Agree
    <2>6. clock > ContestEnd => Seen(r, e, row[r])
      BY <2>3, <2>4 DEF Seen
    <2> QED
      BY <1>1, <2>1, <2>4, <2>5, <2>6, RequestOnly
  <1> QED
    BY <1>2, <1>3

\* The handler has ended: what the row and the message say must have a cause.
LEMMA EndingKeepsIntake ==
    ASSUME IntakeInv, NEW r \in Requests, NEW q \in Attempts,
           NEW w \in Statuses, q.at = "answered",
           request' = [request EXCEPT ![r] = q],
           row' = [row EXCEPT ![r] = w],
           UNCHANGED <<clock, message, channel, freeze, faults>>,
           Agree(q, w, message[r]),
           w = "absent" \/ q.type = request[r].type,
           w # "absent" /\ row[r] = "absent" => request[r].at = "classified"
    PROVE  IntakeInv'
  <1>1. /\ message[r] \in Messages
        /\ message' = [message EXCEPT ![r] = message[r]]
        /\ channel' \in {"open", "closed"} /\ faults' \in 0..MaxFaults
    BY DEF IntakeInv, RequestsAreTyped
  <1>2. Seen(r, request[r], row[r]) => Seen(r, q, w)
    BY DEF Seen
  <1> QED
    BY <1>1, <1>2, OneRequest

LEMMA CreateKeepsIntake ==
    ASSUME IntakeInv, NEW r \in Requests,
           CreateSubmission(r) \/ CreateFails(r)
    PROVE  IntakeInv'
  <1> DEFINE q == request[r]
  <1>1. /\ q \in Attempts /\ Agree(q, row[r], message[r]) /\ q.at = "classified"
        /\ row[r] \in Statuses /\ message[r] \in Messages
        /\ channel \in {"open", "closed"} /\ faults \in 0..MaxFaults
        /\ UNCHANGED <<clock, message, channel, freeze, faults>>
    BY RequestFacts DEF CreateSubmission, CreateFails, At, authVars
  <1>2. row[r] = "absent" /\ message[r] = "none" /\ q.answer = None
    BY <1>1 DEF Agree
  <1>3. CASE CreateSubmission(r)
    <2> DEFINE e == [q EXCEPT !.at = "created"]
    <2>1. request' = [request EXCEPT ![r] = e]
          /\ row' = [row EXCEPT ![r] = "QUEUE"]
      BY <1>3 DEF CreateSubmission, Goto
    <2>2. "created" \in Places /\ "QUEUE" \in Statuses
      BY DEF Places, Statuses
    <2>3. /\ e \in Attempts /\ e.at = "created" /\ e.type = q.type
          /\ e.confirm = q.confirm /\ e.answer = q.answer
      BY <1>1, <2>2, MovedIs
    <2> HIDE DEF e
    <2>4. Agree(e, "QUEUE", message[r])
      BY <1>1, <1>2, <2>3, IntakeConstants, AuthConstants DEF Agree
    <2>5. Seen(r, q, row[r]) => Seen(r, e, "QUEUE")
      BY <1>1, <2>3 DEF Seen
    <2>6. message' = [message EXCEPT ![r] = message[r]]
      BY <1>1 DEF IntakeInv, RequestsAreTyped
    <2> QED
      BY <1>1, <2>1, <2>2, <2>3, <2>4, <2>5, <2>6, OneRequest
  <1>4. CASE row' = [row EXCEPT ![r] = "QUEUE"] /\ Answer(r, 500, {"kept"})
    <2> DEFINE e == Ended(q, 500, {"kept"})
    <2>1. 500 \in Answers /\ {"kept"} \in SUBSET Causes /\ "QUEUE" \in Statuses
      BY DEF Answers, Causes, Statuses
    <2>2. request' = [request EXCEPT ![r] = e]
      BY <1>4 DEF Answer
    <2>3. /\ e \in Attempts /\ e.at = "answered" /\ e.answer = 500
          /\ e.causes = q.causes \cup {"kept"} /\ e.type = q.type
      BY <1>1, <2>1, EndedIs
    <2> HIDE DEF e
    <2>4. Agree(e, "QUEUE", message[r])
      BY <1>2, <2>3 DEF Agree
    <2> QED
      BY <1>1, <1>4, <2>1, <2>2, <2>3, <2>4, EndingKeepsIntake
  <1>5. CASE UNCHANGED row /\ AnswerNoRow(r)
    <2> DEFINE d == Ended(q, 500, {})
               e == [d EXCEPT !.type = None]
    <2>1. 500 \in Answers /\ {} \in SUBSET Causes
      BY DEF Answers
    <2>2. request' = [request EXCEPT ![r] = e]
      BY <1>5 DEF AnswerNoRow
    <2>3. d \in Attempts /\ d.at = "answered" /\ d.answer = 500
      BY <1>1, <2>1, EndedIs
    <2> HIDE DEF d
    <2>6. e \in Attempts /\ e.at = "answered" /\ e.answer = 500
      BY <2>3, UntypedIs
    <2> HIDE DEF e
    <2>4. Agree(e, row[r], message[r])
      BY <1>2, <2>6 DEF Agree
    <2>5. row' = [row EXCEPT ![r] = row[r]]
      BY <1>5 DEF IntakeInv, RequestsAreTyped
    <2> QED
      BY <1>1, <1>2, <2>2, <2>4, <2>5, <2>6, EndingKeepsIntake
  <1> QED
    BY <1>3, <1>4, <1>5 DEF CreateFails

\* The channel closes under what is under way: some sent messages are lost.
LEMMA ClosingKeepsIntake ==
    ASSUME IntakeInv, SomeSentAreLost,
           UNCHANGED <<clock, row, freeze>>,
           channel' \in {"open", "closed"}, faults' \in 0..MaxFaults,
           request' \in [Requests -> Attempts],
           \A r \in Requests :
              /\ Agree(request'[r], row[r], message[r])
              /\ message[r] = "sent" => Agree(request'[r], row[r], "none")
              /\ request'[r].type = request[r].type
              /\ request'[r].at = "classified" => request[r].at = "classified"
    PROVE  IntakeInv'
  <1>1. /\ message' \in [Requests -> Messages]
        /\ \A r \in Requests :
              \/ message'[r] = message[r]
              \/ message[r] = "sent" /\ message'[r] = "none"
    BY DEF SomeSentAreLost, Messages, IntakeInv, RequestsAreTyped
  <1>2. RequestsAreTyped'
    BY <1>1 DEF IntakeInv, RequestsAreTyped
  <1>3. RequestsAgree'
    BY <1>1 DEF RequestsAgree
  <1>4. FreezeSawTheRest'
    BY DEF IntakeInv, FreezeSawTheRest, Seen
  <1> QED
    BY <1>2, <1>3, <1>4 DEF IntakeInv

\* Cut leaves a request that is not waiting alone.
LEMMA CutIs ==
    ASSUME NEW q \in Attempts, NEW w \in Statuses, NEW m \in Messages,
           Agree(q, w, m), NEW e, e = Cut(q)
    PROVE  /\ e \in Attempts /\ e.type = q.type /\ e.at = q.at
           /\ Agree(e, w, m)
           /\ m = "sent" => Agree(e, w, "none")
  <1>1. CASE q.at = "waiting" /\ q.confirm = None
    <2> DEFINE C == q.causes \cup {"unconfirmed"}
    <2>1. e = [q EXCEPT !.confirm = "nack", !.causes = C]
      BY <1>1 DEF Cut
    <2>2. C \in SUBSET Causes /\ "nack" \in Confirms /\ "unconfirmed" \in C
      BY DEF Attempts, Causes, Confirms
    <2> HIDE DEF C
    <2>3. /\ e \in Attempts /\ e.type = q.type /\ e.at = q.at
          /\ e.confirm = "nack" /\ "unconfirmed" \in e.causes
          /\ e.answer = q.answer
      BY <2>1, <2>2 DEF Attempts
    <2> QED
      BY <1>1, <2>3, IntakeConstants, AuthConstants DEF Agree
  <1>2. CASE ~(q.at = "waiting" /\ q.confirm = None)
    <2>1. e = q
      BY <1>2 DEF Cut
    <2>2. m = "sent" => Agree(q, w, "none")
      BY <1>2 DEF Agree
    <2> QED
      BY <2>1, <2>2
  <1> QED
    BY <1>1, <1>2

\* A handler that dies leaves its cause behind: whatever it was doing, when
\* the process crashes, and between the row and the message, when it panics.
LEMMA AbandonedIs ==
    ASSUME NEW q \in Attempts, NEW w \in Statuses, NEW m \in Messages,
           Agree(q, w, m),
           NEW e, e = Ended(q, None, {"crash"})
    PROVE  /\ e \in Attempts /\ e.type = q.type /\ e.at = "answered"
           /\ Agree(e, w, m)
           /\ m = "sent" => Agree(e, w, "none")
  <1>1. None \in Answers /\ {"crash"} \in SUBSET Causes
    BY DEF Answers, Causes
  <1>2. /\ e \in Attempts /\ e.at = "answered" /\ e.answer = None
        /\ e.causes = q.causes \cup {"crash"} /\ e.type = q.type
    BY <1>1, EndedIs
  <1> QED
    BY <1>2, AuthConstants DEF Agree

LEMMA PanickedIs ==
    ASSUME NEW q \in Attempts, NEW w \in Statuses, NEW m \in Messages,
           Agree(q, w, m), q.at = "created",
           NEW e, e = Ended(q, None, {"kept"})
    PROVE  /\ e \in Attempts /\ e.type = q.type /\ e.at = "answered"
           /\ Agree(e, w, m) /\ m = "none"
  <1>1. None \in Answers /\ {"kept"} \in SUBSET Causes
    BY DEF Answers, Causes
  <1>2. /\ e \in Attempts /\ e.at = "answered" /\ e.answer = None
        /\ e.causes = q.causes \cup {"kept"} /\ e.type = q.type
    BY <1>1, EndedIs
  <1> QED
    BY <1>2, AuthConstants DEF Agree

LEMMA FaultsKeepIntake ==
    ASSUME IntakeInv, ChannelCloses \/ Restart
    PROVE  IntakeInv'
  <1>1. UNCHANGED <<clock, row, freeze>> /\ SomeSentAreLost
    BY DEF ChannelCloses, Restart, Closing, authVars
  <1>2. channel' \in {"open", "closed"} /\ faults' \in 0..MaxFaults
    BY IntakeConstants
       DEF ChannelCloses, Restart, Closing, IntakeInv, RequestsAreTyped
  <1>3. CASE ChannelCloses
    <2>1. \A r \in Requests : request'[r] = Cut(request[r])
      BY <1>3 DEF ChannelCloses
    <2>2. \A r \in Requests :
             /\ request'[r] \in Attempts
             /\ request'[r].type = request[r].type
             /\ request'[r].at = request[r].at
             /\ Agree(request'[r], row[r], message[r])
             /\ message[r] = "sent" => Agree(request'[r], row[r], "none")
      BY <2>1, RequestFacts, CutIs
    <2>3. request' \in [Requests -> Attempts]
      BY <1>3, <2>1, <2>2 DEF ChannelCloses
    <2> QED
      BY <1>1, <1>2, <2>2, <2>3, ClosingKeepsIntake
  <1>4. CASE Restart
    <2>1. \A r \in Requests :
             /\ request'[r] \in Attempts
             /\ request'[r].type = request[r].type
             /\ request'[r].at = "classified" => request[r].at = "classified"
             /\ Agree(request'[r], row[r], message[r])
             /\ message[r] = "sent" => Agree(request'[r], row[r], "none")
      <3> TAKE r \in Requests
      <3>1. CASE request[r].at \in {"new", "answered"}
        <4>1. request'[r] = request[r]
          BY <1>4, <3>1 DEF Restart
        <4>2. message[r] = "sent" => Agree(request[r], row[r], "none")
          BY <3>1, RequestFacts DEF Agree
        <4> QED
          BY <4>1, <4>2, RequestFacts
      <3>2. CASE request[r].at \notin {"new", "answered"}
        <4>1. request'[r] = Ended(request[r], None, {"crash"})
          BY <1>4, <3>2 DEF Restart
        <4> QED
          BY <4>1, RequestFacts, AbandonedIs
      <3> QED
        BY <3>1, <3>2
    <2>2. request' \in [Requests -> Attempts]
      BY <1>4, <2>1 DEF Restart
    <2> QED
      BY <1>1, <1>2, <2>1, <2>2, ClosingKeepsIntake
  <1> QED
    BY <1>3, <1>4

LEMMA PanicKeepsIntake ==
    ASSUME IntakeInv, NEW p \in Requests, PublishPanics(p)
    PROVE  IntakeInv'
  <1>1. UNCHANGED <<clock, row, freeze>> /\ SomeSentAreLost
    BY DEF PublishPanics, Closing, authVars
  <1>2. channel' \in {"open", "closed"} /\ faults' \in 0..MaxFaults
    BY IntakeConstants
       DEF PublishPanics, Closing, IntakeInv, RequestsAreTyped
  <1>3. \A r \in Requests :
           /\ request'[r] \in Attempts
           /\ request'[r].type = request[r].type
           /\ request'[r].at = "classified" => request[r].at = "classified"
           /\ Agree(request'[r], row[r], message[r])
           /\ message[r] = "sent" => Agree(request'[r], row[r], "none")
    <2> TAKE r \in Requests
    <2>1. CASE r = p
      <3>1. request'[r] = Ended(request[r], None, {"kept"})
            /\ request[r].at = "created"
        BY <2>1 DEF PublishPanics, At
      <3> QED
        BY <3>1, RequestFacts, PanickedIs
    <2>2. CASE r # p
      <3>1. request'[r] = Cut(request[r])
        BY <2>2 DEF PublishPanics
      <3> QED
        BY <3>1, RequestFacts, CutIs
    <2> QED
      BY <2>1, <2>2
  <1>4. request' \in [Requests -> Attempts]
    BY <1>3 DEF PublishPanics
  <1> QED
    BY <1>1, <1>2, <1>3, <1>4, ClosingKeepsIntake

LEMMA PublishKeepsIntake ==
    ASSUME IntakeInv, NEW r \in Requests, Publish(r)
    PROVE  IntakeInv'
  <1> DEFINE q == request[r]
  <1>1. /\ q \in Attempts /\ Agree(q, row[r], message[r]) /\ q.at = "created"
        /\ row[r] \in Statuses /\ message[r] \in Messages
        /\ channel \in {"open", "closed"} /\ faults \in 0..MaxFaults
        /\ row' = [row EXCEPT ![r] = row[r]]
        /\ UNCHANGED <<clock, row, channel, freeze, faults>>
    BY RequestFacts DEF Publish, At, authVars, IntakeInv, RequestsAreTyped
  <1>2. /\ row[r] = "QUEUE" /\ message[r] = "none" /\ q.confirm = None
        /\ q.answer = None
    BY <1>1 DEF Agree
  <1>3. {"waiting", "unpublished"} \subseteq Places /\ "sent" \in Messages
    BY DEF Places, Messages
  <1>4. \A place \in {"waiting", "unpublished"} :
           LET e == [q EXCEPT !.at = place] IN
           /\ e \in Attempts /\ e.at = place /\ e.type = q.type
           /\ e.confirm = None /\ e.answer = None
    BY <1>1, <1>2, <1>3, MovedIs
  <1>5. CASE channel = "open"
    <2> DEFINE e == [q EXCEPT !.at = "waiting"]
    <2>1. /\ request' = [request EXCEPT ![r] = e]
          /\ message' = [message EXCEPT ![r] = "sent"]
      BY <1>5 DEF Publish, Goto
    <2>2. /\ e \in Attempts /\ e.at = "waiting" /\ e.type = q.type
          /\ e.confirm = None /\ e.answer = None
      BY <1>4
    <2> HIDE DEF e
    <2>3. Agree(e, row[r], "sent") /\ (Seen(r, q, row[r]) => Seen(r, e, row[r]))
      BY <1>2, <2>2, AuthConstants, IntakeConstants DEF Agree, Seen
    <2> QED
      BY <1>1, <1>3, <2>1, <2>2, <2>3, OneRequest
  <1>6. CASE channel # "open"
    <2> DEFINE e == [q EXCEPT !.at = "unpublished"]
    <2>1. request' = [request EXCEPT ![r] = e] /\ message' = message
      BY <1>6 DEF Publish, Goto
    <2>2. /\ e \in Attempts /\ e.at = "unpublished" /\ e.type = q.type
          /\ e.confirm = None /\ e.answer = None
      BY <1>4
    <2> HIDE DEF e
    <2>3. /\ Agree(e, row[r], message[r])
          /\ Seen(r, q, row[r]) => Seen(r, e, row[r])
      BY <1>2, <2>2, AuthConstants DEF Agree, Seen
    <2> QED
      BY <1>1, <2>1, <2>2, <2>3, RequestOnly
  <1> QED
    BY <1>5, <1>6

LEMMA ConfirmFailsKeepsIntake ==
    ASSUME IntakeInv, NEW r \in Requests, ConfirmFails(r)
    PROVE  IntakeInv'
  <1> DEFINE q == request[r]
  <1>1. /\ q \in Attempts /\ Agree(q, row[r], message[r]) /\ q.at = "waiting"
        /\ UNCHANGED <<clock, row, message, channel, freeze, faults>>
    BY RequestFacts DEF ConfirmFails, At, authVars
  <1>2. "unpublished" \in Places
    BY DEF Places
  <1>3. ASSUME NEW e \in Attempts, request' = [request EXCEPT ![r] = e],
               e.at = "unpublished", e.type = q.type, e.answer = q.answer,
               message[r] = "none" \/ "unconfirmed" \in e.causes
        PROVE  IntakeInv'
    <2>1. Agree(e, row[r], message[r])
      BY <1>1, <1>3, AuthConstants DEF Agree
    <2>2. Seen(r, q, row[r]) => Seen(r, e, row[r])
      BY <1>3 DEF Seen
    <2> QED
      BY <1>1, <1>3, <2>1, <2>2, RequestOnly
  <1>4. CASE q.confirm = "nack" /\ Goto(r, "unpublished")
    <2> DEFINE e == [q EXCEPT !.at = "unpublished"]
    <2>1. request' = [request EXCEPT ![r] = e]
      BY <1>4 DEF Goto
    <2>2. /\ e \in Attempts /\ e.at = "unpublished" /\ e.type = q.type
          /\ e.answer = q.answer /\ e.causes = q.causes
      BY <1>1, <1>2, MovedIs
    <2>3. message[r] = "none" \/ "unconfirmed" \in q.causes
      BY <1>1, <1>4 DEF Agree
    <2> HIDE DEF e
    <2> QED
      BY <1>3, <2>1, <2>2, <2>3
  <1>5. CASE request' = [request EXCEPT ![r].at = "unpublished",
                                        ![r].causes = @ \cup {"unconfirmed"}]
    <2> DEFINE C == q.causes \cup {"unconfirmed"}
               e == [q EXCEPT !.at = "unpublished", !.causes = C]
    <2>1. request' = [request EXCEPT ![r] = e]
      BY <1>5 DEF IntakeInv, RequestsAreTyped
    <2>2. C \in SUBSET Causes /\ "unconfirmed" \in C
      BY <1>1 DEF Attempts, Causes
    <2> HIDE DEF C
    <2>3. /\ e \in Attempts /\ e.at = "unpublished" /\ e.type = q.type
          /\ e.answer = q.answer /\ e.causes = C
      BY <1>1, <1>2, <2>2 DEF Attempts
    <2> HIDE DEF e
    <2> QED
      BY <1>3, <2>1, <2>2, <2>3
  <1> QED
    BY <1>4, <1>5 DEF ConfirmFails

LEMMA AnswersKeepIntake ==
    ASSUME IntakeInv, NEW r \in Requests,
           Accept(r) \/ DeleteSubmission(r) \/ DeleteFails(r)
    PROVE  IntakeInv'
  <1> DEFINE q == request[r]
  <1>1. /\ q \in Attempts /\ Agree(q, row[r], message[r])
        /\ row[r] \in Statuses /\ message[r] \in Messages
        /\ UNCHANGED <<clock, message, channel, freeze, faults>>
        /\ q.at \in {"waiting", "unpublished"}
    BY RequestFacts DEF Accept, DeleteSubmission, DeleteFails, At, authVars
  <1>2. row[r] # "absent"
    BY <1>1 DEF Agree
  <1>3. {} \in SUBSET Causes /\ {"kept"} \in SUBSET Causes
        /\ 202 \in Answers /\ 500 \in Answers /\ "absent" \in Statuses
    BY DEF Causes, Answers, Statuses
  <1>4. CASE Accept(r)
    <2> DEFINE e == Ended(q, 202, {})
    <2>1. /\ request' = [request EXCEPT ![r] = e] /\ q.at = "waiting"
          /\ q.confirm = "ack" /\ row' = row
      BY <1>4 DEF Accept, Answer, At
    <2>2. /\ e \in Attempts /\ e.at = "answered" /\ e.answer = 202
          /\ e.type = q.type
      BY <1>1, <1>3, EndedIs
    <2> HIDE DEF e
    <2>3. Agree(e, row[r], message[r])
      BY <1>1, <2>1, <2>2, AuthConstants, IntakeConstants DEF Agree
    <2>4. row' = [row EXCEPT ![r] = row[r]]
      BY <2>1 DEF IntakeInv, RequestsAreTyped
    <2> QED
      BY <1>1, <1>2, <2>1, <2>2, <2>3, <2>4, EndingKeepsIntake
  <1>5. CASE DeleteSubmission(r)
    <2> DEFINE d == Ended(q, 500, {})
               e == [d EXCEPT !.type = None]
    <2>1. /\ request' = [request EXCEPT ![r] = e] /\ q.at = "unpublished"
          /\ row' = [row EXCEPT ![r] = "absent"]
      BY <1>5 DEF DeleteSubmission, AnswerNoRow, At
    <2>2. d \in Attempts /\ d.at = "answered" /\ d.answer = 500
      BY <1>1, <1>3, EndedIs
    <2>5. d.causes = q.causes
      BY <1>1 DEF Ended, Attempts
    <2> HIDE DEF d
    <2>3. /\ e \in Attempts /\ e.at = "answered" /\ e.answer = 500
          /\ e.causes = q.causes
      BY <2>2, <2>5, UntypedIs
    <2> HIDE DEF e
    <2>4. Agree(e, "absent", message[r])
      BY <1>1, <2>1, <2>3 DEF Agree
    <2> QED
      BY <1>1, <1>3, <2>1, <2>3, <2>4, EndingKeepsIntake
  <1>6. CASE DeleteFails(r)
    <2> DEFINE e == Ended(q, 500, {"kept"})
    <2>1. /\ request' = [request EXCEPT ![r] = e] /\ q.at = "unpublished"
          /\ row' = row
      BY <1>6 DEF DeleteFails, Answer, At
    <2>2. /\ e \in Attempts /\ e.at = "answered" /\ e.answer = 500
          /\ e.type = q.type /\ e.causes = q.causes \cup {"kept"}
      BY <1>1, <1>3, EndedIs
    <2> HIDE DEF e
    <2>3. Agree(e, row[r], message[r])
      BY <1>1, <2>1, <2>2 DEF Agree
    <2>4. row' = [row EXCEPT ![r] = row[r]]
      BY <2>1 DEF IntakeInv, RequestsAreTyped
    <2> QED
      BY <1>1, <1>2, <2>1, <2>2, <2>3, <2>4, EndingKeepsIntake
  <1> QED
    BY <1>4, <1>5, <1>6

LEMMA BrokerKeepsIntake ==
    ASSUME IntakeInv, NEW r \in Requests, Store(r) \/ Confirm(r) \/ Nack(r)
    PROVE  IntakeInv'
  <1> DEFINE q == request[r]
  <1>1. /\ q \in Attempts /\ Agree(q, row[r], message[r])
        /\ row[r] \in Statuses /\ message[r] \in Messages
        /\ channel \in {"open", "closed"} /\ faults \in 0..MaxFaults
        /\ row' = [row EXCEPT ![r] = row[r]]
        /\ UNCHANGED <<clock, row, channel, freeze, faults>>
    BY RequestFacts
       DEF Store, Confirm, Nack, authVars, IntakeInv, RequestsAreTyped
  <1>2. "queued" \in Messages /\ "none" \in Messages
        /\ "ack" \in Confirms /\ "nack" \in Confirms
    BY DEF Messages, Confirms
  <1>3. CASE Store(r)
    <2>1. /\ message[r] = "sent" /\ message' = [message EXCEPT ![r] = "queued"]
          /\ request' = [request EXCEPT ![r] = q]
      BY <1>3 DEF Store, IntakeInv, RequestsAreTyped
    <2>2. Agree(q, row[r], "queued")
      BY <1>1, <2>1 DEF Agree
    <2> QED
      BY <1>1, <1>2, <2>1, <2>2, OneRequest
  <1>4. CASE Confirm(r)
    <2> DEFINE e == [q EXCEPT !.confirm = "ack"]
    <2>1. /\ request' = [request EXCEPT ![r] = e] /\ message' = message
          /\ q.at = "waiting" /\ q.confirm = None /\ message[r] # "sent"
      BY <1>4 DEF Confirm, At
    <2>2. /\ e \in Attempts /\ e.at = q.at /\ e.type = q.type
          /\ e.confirm = "ack" /\ e.answer = q.answer
      BY <1>1, <1>2 DEF Attempts
    <2> HIDE DEF e
    <2>3. message[r] \in {"queued", "judged"}
      BY <1>1, <2>1 DEF Agree, Messages
    <2>4. q.answer = None
      BY <1>1, <2>1 DEF Agree
    <2>5. Agree(e, row[r], message[r])
      BY <1>1, <2>1, <2>2, <2>3, <2>4, AuthConstants, IntakeConstants DEF Agree
    <2>6. Seen(r, q, row[r]) => Seen(r, e, row[r])
      BY <2>2 DEF Seen
    <2> QED
      BY <1>1, <2>1, <2>2, <2>5, <2>6, RequestOnly
  <1>5. CASE Nack(r)
    <2> DEFINE e == [q EXCEPT !.confirm = "nack"]
    <2>1. /\ request' = [request EXCEPT ![r] = e]
          /\ message' = [message EXCEPT ![r] = "none"]
          /\ q.at = "waiting" /\ message[r] = "sent"
      BY <1>5 DEF Nack, At
    <2>2. /\ e \in Attempts /\ e.at = q.at /\ e.type = q.type
          /\ e.confirm = "nack" /\ e.answer = q.answer
      BY <1>1, <1>2 DEF Attempts
    <2> HIDE DEF e
    <2>3. q.answer = None /\ row[r] = "QUEUE"
      BY <1>1, <2>1 DEF Agree
    <2>4. Agree(e, row[r], "none")
      BY <1>1, <2>1, <2>2, <2>3, AuthConstants, IntakeConstants DEF Agree
    <2>5. Seen(r, q, row[r]) => Seen(r, e, row[r])
      BY <2>2 DEF Seen
    <2> QED
      BY <1>1, <1>2, <2>1, <2>2, <2>4, <2>5, OneRequest
  <1> QED
    BY <1>3, <1>4, <1>5

LEMMA JudgeKeepsIntake ==
    ASSUME IntakeInv, NEW r \in Requests, Judge(r)
    PROVE  IntakeInv'
  <1> DEFINE q == request[r]
             w == IF row[r] = "QUEUE" THEN "judged" ELSE row[r]
  <1>1. /\ q \in Attempts /\ Agree(q, row[r], message[r])
        /\ row[r] \in Statuses
        /\ channel \in {"open", "closed"} /\ faults \in 0..MaxFaults
        /\ message[r] = "queued"
        /\ message' = [message EXCEPT ![r] = "judged"]
        /\ row' = [row EXCEPT ![r] = w]
        /\ request' = [request EXCEPT ![r] = q]
        /\ UNCHANGED <<clock, channel, freeze, faults>>
    BY RequestFacts DEF Judge, authVars, IntakeInv, RequestsAreTyped
  <1>2. w \in Statuses /\ "judged" \in Messages
    BY <1>1 DEF Statuses, Messages
  <1>3. Agree(q, w, "judged")
    BY <1>1 DEF Agree
  <1>4. Seen(r, q, row[r]) => Seen(r, q, w)
    BY DEF Seen
  <1> HIDE DEF w
  <1> QED
    BY <1>1, <1>2, <1>3, <1>4, OneRequest

\* The task counts every row it finds, and finds none in QUEUE: it misses the
\* requests that have classified themselves and not inserted their row.
LEMMA FreezeKeepsIntake ==
    ASSUME IntakeInv, Freeze
    PROVE  IntakeInv'
  <1> DEFINE counted == {r \in Requests : row[r] = "judged"}
             slow == {r \in Requests : At(r, "classified")}
  <1>1. /\ freeze' = [done |-> TRUE, counted |-> counted, slow |-> slow]
        /\ clock > ContestEnd
        /\ \A r \in Requests : row[r] # "QUEUE"
        /\ UNCHANGED <<clock, request, row, message, channel, faults>>
    BY DEF Freeze, authVars
  <1>2. /\ counted \in SUBSET Requests /\ slow \in SUBSET Requests
        /\ \A r \in Requests : row[r] = "judged" => r \in counted
        /\ \A r \in Requests : request[r].at = "classified" => r \in slow
    BY DEF At
  <1> HIDE DEF counted, slow
  <1>3. /\ freeze'.counted = counted /\ freeze'.slow = slow
        /\ freeze' \in [done : BOOLEAN, counted : SUBSET Requests,
                        slow : SUBSET Requests]
    BY <1>1, <1>2
  <1>4. RequestsAreTyped' /\ RequestsAgree'
    BY <1>1, <1>3 DEF IntakeInv, RequestsAreTyped, RequestsAgree
  <1>5. \A r \in Requests : row[r] # "absent" => row[r] = "judged"
    BY <1>1 DEF IntakeInv, RequestsAreTyped, Statuses
  <1>6. FreezeSawTheRest'
    BY <1>1, <1>2, <1>3, <1>5 DEF FreezeSawTheRest, Seen
  <1> QED
    BY <1>4, <1>6 DEF IntakeInv

LEMMA AuthKeepsIntake ==
    ASSUME AuthInv, IntakeInv, AuthStep \/ UNCHANGED authVars,
           UNCHANGED intakeVars
    PROVE  IntakeInv'
  <1>1. clock \in Nat /\ clock' \in Nat /\ clock <= clock'
    <2>1. clock' = clock \/ clock' = clock + 1
      <3>1. \A g \in Registrations : RegisterUser(g) => clock' = clock
        BY DEF RegisterUser, CheckEmailExists, CheckUsernameExists, CreateUser
      <3>2. \A d \in Devices :
               LoginUser(d) \/ Logout(d) \/ RefreshToken(d) => clock' = clock
        BY DEF LoginUser, LoginCompare, LoginSign, LoginFails, Logout,
               RefreshToken, authVars
      <3> QED
        BY <3>1, <3>2 DEF AuthStep, Tick, authVars
    <2>2. clock \in Nat
      BY AuthConstants DEF AuthInv, AuthTypeOK
    <2> QED
      BY <2>1, <2>2
  <1>2. RequestsAreTyped' /\ RequestsAgree'
    BY DEF IntakeInv, RequestsAreTyped, RequestsAgree, intakeVars
  <1>3. FreezeSawTheRest'
    <2>1. freeze.done => clock' > ContestEnd
      BY <1>1, IntakeConstants DEF IntakeInv, FreezeSawTheRest
    <2> QED
      BY <2>1 DEF IntakeInv, FreezeSawTheRest, Seen, intakeVars
  <1> QED
    BY <1>2, <1>3 DEF IntakeInv

-----------------------------------------------------------------------------
(* The invariant, and what follows from it.                                *)

LEMMA InitInv == Init => IInv
  <1> SUFFICES ASSUME Init PROVE IInv
    OBVIOUS
  <1>1. AuthInv
    <2>1. AuthTypeOK
      BY AuthConstants DEF Init, AuthInit, AuthTypeOK, NewDevice
    <2>2. CallsAreTyped
      BY DEF Init, AuthInit, CallsAreTyped, NewRegistration, NewDevice, Calls
    <2>3. TokensAreSigned
      BY DEF Init, AuthInit, TokensAreSigned, NewDevice
    <2> QED
      BY <2>1, <2>2, <2>3 DEF AuthInv
  <1>2. NewRequest \in Attempts /\ NewRequest.at = "new"
        /\ NewRequest.answer = None /\ NewRequest.confirm = None
    BY DEF NewRequest, Attempts, Places, Types, Confirms, Answers
  <1>3. "absent" \in Statuses /\ "none" \in Messages /\ 0 \in 0..MaxFaults
    BY IntakeConstants DEF Statuses, Messages
  <1>4. RequestsAreTyped
    BY <1>2, <1>3 DEF Init, RequestsAreTyped
  <1>5. Agree(NewRequest, "absent", "none")
    BY <1>2, AuthConstants DEF Agree
  <1>6. RequestsAgree
    BY <1>5 DEF Init, RequestsAgree
  <1>7. FreezeSawTheRest
    BY DEF Init, FreezeSawTheRest
  <1> QED
    BY <1>1, <1>4, <1>6, <1>7 DEF IInv, IntakeInv

LEMMA NextInv == IInv /\ [Next]_vars => IInv'
  <1> SUFFICES ASSUME IInv, [Next]_vars PROVE IInv'
    OBVIOUS
  <1> USE DEF IInv
  <1>1. CASE (AuthStep /\ UNCHANGED intakeVars) \/ UNCHANGED vars
    BY <1>1, AuthIsInductive, AuthKeepsIntake DEF vars
  <1>2. ASSUME UNCHANGED authVars, IntakeInv'
        PROVE  IInv'
    BY <1>2, AuthIsInductive
  <1>3. ASSUME NEW r \in Requests, SubmitStep(r)
        PROVE  IInv'
    <2>1. UNCHANGED authVars
      BY <1>3 DEF SubmitStep, Authenticate, Classify, CreateSubmission,
           CreateFails, Publish, PublishPanics, Accept, ConfirmFails,
           DeleteSubmission, DeleteFails
    <2>2. IntakeInv'
      BY <1>3, LookingKeepsIntake, CreateKeepsIntake, PublishKeepsIntake,
         PanicKeepsIntake, AnswersKeepIntake, ConfirmFailsKeepsIntake
         DEF SubmitStep
    <2> QED
      BY <1>2, <2>1, <2>2
  <1>4. ASSUME NEW r \in Requests,
               Store(r) \/ Confirm(r) \/ Nack(r) \/ Judge(r)
        PROVE  IInv'
    <2>1. UNCHANGED authVars
      BY <1>4 DEF Store, Confirm, Nack, Judge
    <2> QED
      BY <1>2, <1>4, <2>1, BrokerKeepsIntake, JudgeKeepsIntake
  <1>5. CASE ChannelCloses \/ Restart \/ Freeze
    <2>1. UNCHANGED authVars
      BY <1>5 DEF ChannelCloses, Restart, Freeze
    <2> QED
      BY <1>2, <1>5, <2>1, FaultsKeepIntake, FreezeKeepsIntake
  <1> QED
    BY <1>1, <1>3, <1>4, <1>5 DEF Next

\* The inductive invariant: Next preserves it for every number of accounts,
\* devices, requests and faults.
THEOREM IntakeInvariant == Spec => []IInv
  BY InitInv, NextInv, PTL DEF Spec

\* Accounts, sessions, requests, rows and messages keep their types, and no
\* two accounts share a name or an address, whatever registers at once.
THEOREM IntakeTypeCorrect == Spec => []TypeOK
  <1>1. IInv => TypeOK
    BY DEF IInv, AuthInv, IntakeInv, RequestsAreTyped, TypeOK, Attempts, Places,
           Types, Confirms, Answers, Statuses, Messages
  <1> QED
    BY <1>1, IntakeInvariant, PTL

\* Once HandleSubmit has ended, its row and its message agree, but for the
\* lost answers, kept rows and crashes that are named.
THEOREM IntakeRowsMatchMessages == Spec => []RowsMatchMessages
  <1>1. IInv => RowsMatchMessages
    <2> SUFFICES ASSUME IInv, NEW r \in Requests
                 PROVE  AcceptedIsKept(r) /\ RefusedIsNotJudged(r)
                        /\ WaitingHasAMessage(r)
      BY DEF RowsMatchMessages
    <2>1. Agree(request[r], row[r], message[r])
      BY DEF IInv, IntakeInv, RequestsAgree
    <2> QED
      BY <2>1 DEF Agree, AcceptedIsKept, RefusedIsNotJudged, WaitingHasAMessage,
                  HasCause, Answered
  <1> QED
    BY <1>1, IntakeInvariant, PTL

\* The only rated submissions that a freeze misses were between the look at
\* the clock and the INSERT.
THEOREM IntakeFreezeMissesOnlySlow == Spec => []FreezeMissesOnlySlowRequests
  <1>1. IInv => FreezeMissesOnlySlowRequests
    BY DEF IInv, IntakeInv, FreezeSawTheRest, Seen, FreezeMissesOnlySlowRequests
  <1> QED
    BY <1>1, IntakeInvariant, PTL

\* An access token that is taken is younger than AccessTtl, counted from the
\* last login of its user: nothing but a login makes one.
THEOREM IntakeAccessNeedsALogin == Spec => []AccessNeedsALogin
  <1>1. IInv => AccessNeedsALogin
    <2> SUFFICES ASSUME IInv, NEW d \in Devices, ValidToken(device[d].access)
                 PROVE  LET login == signed[device[d].access.user] IN
                        login # None /\ clock < login + AccessTtl
      BY DEF AccessNeedsALogin
    <2> DEFINE token == device[d].access
    <2>1. token # None /\ clock < token.expires /\ token \in AccessTokens
      BY DEF ValidToken, IInv, AuthInv, AuthTypeOK
    <2>2. /\ signed[token.user] # None
          /\ token.expires <= signed[token.user] + AccessTtl
      BY <2>1 DEF IInv, AuthInv, TokensAreSigned
    <2>3. /\ token.user \in Registrations
          /\ token.expires \in Int /\ clock \in Int
      BY <2>1, AuthConstants DEF AccessTokens, IInv, AuthInv, AuthTypeOK
    <2>4. signed[token.user] \in Int
      BY <2>2, <2>3 DEF IInv, AuthInv, AuthTypeOK
    <2> QED
      BY <2>1, <2>2, <2>3, <2>4, AuthConstants
  <1> QED
    BY <1>1, IntakeInvariant, PTL
=============================================================================
