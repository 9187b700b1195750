---------------------------- MODULE AuthSession ----------------------------
(***************************************************************************)
(* Accounts and sessions of the main API: registerUser, loginUser,         *)
(* logoutUser and refreshToken of auth.controller.ts with the services and *)
(* queries they await, and the check of an access token. A device is a     *)
(* browser: the access token it keeps and the refresh cookie.              *)
(***************************************************************************)
EXTENDS Integers

CONSTANTS
    Registrations,  \* calls of registerUser; a user's id is its registration
    Usernames, Emails,
    Devices,
    AccessTtl,      \* ACCESS_TOKEN_EXPIRATION, in ticks
    MaxClock,       \* bound: ticks of the clock
    None

ASSUME AuthConstants ==
    AccessTtl \in Nat /\ MaxClock \in Nat /\ None \notin Nat

VARIABLES
    clock,
    users,     \* rows of the table: [id, username, email]
    register,  \* [Registrations -> [at, username, email]]
    device,    \* [Devices -> [at, user, access, cookie]]
    stored,    \* Redis, refreshToken:<id>: [Registrations -> token]
    signed     \* history: when the last login of a user signed its tokens

accountVars == <<users, register>>
sessionVars == <<device, stored, signed>>
authVars == <<clock, accountVars, sessionVars>>

NewRegistration == [at |-> "new", username |-> None, email |-> None]
NewDevice == [at |-> "idle", user |-> None, access |-> None, cookie |-> None]

AuthInit ==
    /\ clock = 0
    /\ users = {}
    /\ register = [g \in Registrations |-> NewRegistration]
    /\ device = [d \in Devices |-> NewDevice]
    /\ stored = [g \in Registrations |-> None]
    /\ signed = [g \in Registrations |-> None]

Tick ==
    /\ clock < MaxClock
    /\ clock' = clock + 1
    /\ UNCHANGED <<accountVars, sessionVars>>

-----------------------------------------------------------------------------
(* registerUser: two look-ups and a hash come before the INSERT.           *)

\* A call that has ended keeps nothing.
Ends(g, outcome) ==
    register' = [register EXCEPT ![g] = [NewRegistration EXCEPT !.at = outcome]]

CheckEmailExists(g) ==
    /\ register[g].at = "new"
    /\ \E n \in Usernames, e \in Emails :
          IF \E u \in users : u.email = e THEN Ends(g, "refused")
          ELSE register' = [register EXCEPT ![g] =
                              [at |-> "noEmail", username |-> n, email |-> e]]
    /\ UNCHANGED <<clock, users, sessionVars>>

TakenName(g) == \E u \in users : u.username = register[g].username
TakenEmail(g) == \E u \in users : u.email = register[g].email

CheckUsernameExists(g) ==
    /\ register[g].at = "noEmail"
    /\ IF TakenName(g) THEN Ends(g, "refused")
       ELSE register' = [register EXCEPT ![g].at = "free"]
    /\ UNCHANGED <<clock, users, sessionVars>>

Row(g) == [id |-> g, username |-> register[g].username,
           email |-> register[g].email]

\* Mutant: the table has no UNIQUE columns.
InsertAnyway(g) ==
    /\ register[g].at = "free"
    /\ users' = users \cup {Row(g)}
    /\ Ends(g, "registered")
    /\ UNCHANGED <<clock, sessionVars>>

\* The INSERT; the UNIQUE columns of init.sql refuse what both look-ups of
\* another request did not see yet.
CreateUser(g) ==
    /\ register[g].at = "free"
    /\ IF TakenName(g) \/ TakenEmail(g)
       THEN Ends(g, "failed") /\ UNCHANGED users
       ELSE Ends(g, "registered") /\ users' = users \cup {Row(g)}
    /\ UNCHANGED <<clock, sessionVars>>

-----------------------------------------------------------------------------
(* Sessions.                                                               *)

\* jwt.verify, and jwt.Parse of the submission service.
ValidToken(token) == token # None /\ clock < token.expires

\* loginUserByUsername or ByEmail: the row is read and the password compared.
LoginCompare(d) ==
    /\ device[d].at = "idle"
    /\ \E u \in users :
          device' = [device EXCEPT ![d].at = "login", ![d].user = u.id]
    /\ UNCHANGED <<clock, accountVars, stored, signed>>

\* Both tokens are signed, the refresh token stored, and both handed out. A
\* JWT says who and at which second: that is all that tells two apart.
LoginSign(d) ==
    LET u == device[d].user
        refresh == [user |-> u, issued |-> clock] IN
    /\ device[d].at = "login"
    /\ stored' = [stored EXCEPT ![u] = refresh]
    /\ signed' = [signed EXCEPT ![u] = clock]
    /\ device' = [device EXCEPT ![d] =
         [NewDevice EXCEPT !.cookie = refresh,
            !.access = [user |-> u, expires |-> clock + AccessTtl]]]
    /\ UNCHANGED <<clock, accountVars>>

Idle(d) == device' = [device EXCEPT ![d].at = "idle", ![d].user = None]

\* Redis cannot be reached: the request fails, the device keeps what it had.
LoginFails(d) ==
    /\ device[d].at = "login"
    /\ Idle(d)
    /\ UNCHANGED <<clock, accountVars, stored, signed>>

\* logoutUser: the token is deleted from Redis, whichever login stored it, and
\* the cookie; the access token stays good until it expires.
Logout(d) ==
    LET token == device[d].access IN
    /\ device[d].at = "idle"
    /\ ValidToken(token)
    /\ stored' = [stored EXCEPT ![token.user] = None]
    /\ device' = [device EXCEPT ![d].cookie = None]
    /\ UNCHANGED <<clock, accountVars, signed>>

\* Mutant: the handler knows the user, and renews the access token.
RefreshRenews(d) ==
    LET cookie == device[d].cookie IN
    /\ device[d].at = "idle"
    /\ cookie # None
    /\ device' = [device EXCEPT ![d].access =
         IF stored[cookie.user] = cookie
         THEN [user |-> cookie.user, expires |-> clock + AccessTtl] ELSE @]
    /\ UNCHANGED <<clock, accountVars, stored, signed>>

\* refreshToken: the route has no authenticate, so with a cookie reading the
\* id of request.user throws before Redis is asked; without one it is 401.
\* Either way nothing changes.
RefreshToken(d) ==
    /\ device[d].at = "idle"
    /\ UNCHANGED authVars

RegisterUser(g) ==
    CheckEmailExists(g) \/ CheckUsernameExists(g) \/ CreateUser(g)
LoginUser(d) == LoginCompare(d) \/ LoginSign(d) \/ LoginFails(d)

AuthStep ==
    \/ Tick
    \/ \E g \in Registrations : RegisterUser(g)
    \/ \E d \in Devices : LoginUser(d) \/ Logout(d) \/ RefreshToken(d)

-----------------------------------------------------------------------------
(* Properties. The type invariant holds what the UNIQUE columns promise.   *)

RefreshTokens == [user : Registrations, issued : 0..MaxClock]
AccessTokens == [user : Registrations, expires : 0..(MaxClock + AccessTtl)]
Rows == [id : Registrations, username : Usernames, email : Emails]

AuthTypeOK ==
    /\ clock \in 0..MaxClock
    /\ users \subseteq Rows
    /\ \A u, v \in users : u.username = v.username \/ u.email = v.email => u = v
    /\ device \in [Devices -> [at : {"idle", "login"},
                               user : Registrations \cup {None},
                               access : AccessTokens \cup {None},
                               cookie : RefreshTokens \cup {None}]]
    /\ stored \in [Registrations -> RefreshTokens \cup {None}]
    /\ signed \in [Registrations -> (0..MaxClock) \cup {None}]

\* No token is renewed, as refreshToken always fails: whoever has a token that
\* the main API and the submission service take has logged in less than
\* AccessTtl ago. A refresh that works has to revise this bound.
AccessNeedsALogin ==
    \A d \in Devices :
        ValidToken(device[d].access) =>
            LET login == signed[device[d].access.user] IN
            login # None /\ clock < login + AccessTtl
=============================================================================
