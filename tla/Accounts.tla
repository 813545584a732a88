------------------------------ MODULE Accounts ------------------------------
(***************************************************************************)
(* The operator's way in: the three credential sources (the row of the     *)
(* users table, the row the wizard wrote, the environment's pair), the     *)
(* login handler with its rate limit, sessions and API tokens, and the     *)
(* account and TOTP handlers.                                              *)
(*                                                                         *)
(* One user name and one client address.  Whether a password is right is   *)
(* chosen where it is compared, once per login.  A TOTP secret is the      *)
(* number of its enrolment, a code that of its secret, 0 for none.         *)
(***************************************************************************)
EXTENDS Integers

CONSTANTS
  Login,      \* login requests in flight
  MaxFails,   \* loginMaxFails
  MaxSecret,  \* bound: TOTP enrolments
  NoRow

ASSUME AccountAssumption == MaxFails \in Nat \ {0} /\ MaxSecret \in Nat

VARIABLES
  row,       \* the account's row in the users table
  sessions,  \* roles of the live session tokens
  token,     \* the account has a live API token
  login,     \* login request -> where it stands
  confirm,   \* the TOTP confirmation in progress: the secret it checked, 0 for none
  limit,     \* the login limiter's entry of the address
  secrets,   \* enrolments so far
  proven,    \* secrets a code was accepted for
  raced      \* a secret was replaced while a code of the old one was checked

acctVars  == <<row, token, secrets, proven, raced>>
accVars   == <<acctVars, sessions, login, confirm, limit>>

Role == {"admin", "viewer"}
Row == [role : Role, enabled : BOOLEAN, totp : 0..MaxSecret, verified : BOOLEAN]
ASSUME NoRowAssumption == NoRow \notin Row

NoEntry == [fails |-> 0, window |-> "open", locked |-> FALSE]

LoginState ==
  [at : {"idle", "legacy", "invalid"}] \cup [at : {"allowed"}, code : 0..MaxSecret]
  \cup [at : {"ok"}, role : Role, totp : 0..MaxSecret] \cup [at : {"stamped"}, role : Role]

AccTypeOK ==
  /\ row \in Row \cup {NoRow} /\ sessions \subseteq Role /\ token \in BOOLEAN
  /\ login \in [Login -> LoginState]
  /\ confirm \in 0..MaxSecret /\ secrets \in 0..MaxSecret /\ proven \subseteq 1..MaxSecret /\ raced \in BOOLEAN
  /\ limit \in [fails : 0..MaxFails - 1, window : {"open", "over"}, locked : BOOLEAN]

Idle == [at |-> "idle"]

AccInit ==
  /\ row = NoRow /\ sessions = {} /\ token = FALSE /\ login = [l \in Login |-> Idle] /\ confirm = 0
  /\ limit = NoEntry /\ secrets = 0 /\ proven = {} /\ raced = FALSE

(***************************************************************************)
(* Who a request comes from.                                               *)
(***************************************************************************)

\* A live token of an enabled account.
VerifyToken == token /\ row # NoRow /\ row.enabled

\* The session of a non-admin and an API token carry the account's role of
\* the moment, the session of an admin the role it was minted with.
SessionFromRequest ==
  {r \in sessions : r = "admin"}
  \cup {row.role : s \in {s \in sessions : s # "admin" /\ row # NoRow /\ row.enabled}}
  \cup {row.role : t \in {t \in {token} : VerifyToken}}

RequireRole(r) == r \in SessionFromRequest

(***************************************************************************)
(* The limiter of failed logins.                                           *)
(***************************************************************************)

Allow == ~limit.locked

PurgeLocked(e) == IF e.window = "over" /\ ~e.locked THEN NoEntry ELSE e

RecordFail ==
  LET e == PurgeLocked(limit) IN
    LET fails == (IF e.window = "over" THEN 0 ELSE e.fails) + 1 IN
    limit' = IF fails >= MaxFails THEN [fails |-> 0, window |-> "open", locked |-> TRUE]
                                  ELSE [e EXCEPT !.fails = fails, !.window = "open"]

RecordOK == limit' = NoEntry

WindowPasses ==
  /\ limit.window = "open" /\ limit.fails > 0
  /\ limit' = [limit EXCEPT !.window = "over"]
  /\ UNCHANGED <<acctVars, sessions, login, confirm>>

\* Purged by the next failure, or unlocked by the next login of the address.
LockoutEnds ==
  /\ limit.locked /\ limit' \in {NoEntry, [limit EXCEPT !.locked = FALSE]}
  /\ UNCHANGED <<acctVars, sessions, login, confirm>>

(***************************************************************************)
(* The login handler.                                                      *)
(***************************************************************************)

LoginArrives(l) ==
  /\ login[l] = Idle /\ Allow
  /\ \E code \in 0..secrets : login' = [login EXCEPT ![l] = [at |-> "allowed", code |-> code]]
  /\ UNCHANGED <<acctVars, sessions, confirm, limit>>

\* A code of the current secret, within a period of now.
VerifyTotp(secret, code) == code # 0 /\ code = secret

VerifyPassword == BOOLEAN

\* The users row decides alone where there is one.
Lookup(l) ==
  /\ login[l].at = "allowed"
  /\ \E right \in VerifyPassword :
       login' = [login EXCEPT ![l] =
         IF row = NoRow THEN [at |-> "legacy"]
         ELSE IF ~row.enabled \/ ~right THEN [at |-> "invalid"]
         ELSE IF row.totp # 0 /\ @.code = 0 THEN Idle
         ELSE IF row.totp # 0 /\ ~VerifyTotp(row.totp, @.code) THEN [at |-> "invalid"]
         ELSE [at |-> "ok", role |-> row.role, totp |-> row.totp]]
  /\ UNCHANGED <<acctVars, sessions, confirm, limit>>

\* The environment's pair counts only while there are no users at all.
EnvPairCheck == row = NoRow

\* Without a row the wizard's row decides, and without that the environment's pair.
Authenticate(l) ==
  /\ login[l].at = "legacy"
  /\ \E right \in VerifyPassword, wizard \in BOOLEAN :
       login' = [login EXCEPT ![l] = IF right /\ (wizard \/ EnvPairCheck)
                                     THEN [at |-> "stamped", role |-> "admin"] ELSE [at |-> "invalid"]]
  /\ UNCHANGED <<acctVars, sessions, confirm, limit>>

LoginFails(l) ==
  /\ login[l].at = "invalid" /\ RecordFail
  /\ login' = [login EXCEPT ![l] = Idle]
  /\ UNCHANGED <<acctVars, sessions, confirm>>

\* Stamps whatever secret the row has by now.
StampVerified(checked) ==
  /\ row' = IF row.totp = 0 THEN row ELSE [row EXCEPT !.verified = TRUE]
  /\ proven' = proven \cup {checked} /\ raced' = (raced \/ checked # row.totp)

LoginStamps(l) ==
  /\ login[l].at = "ok"
  /\ IF login[l].totp # 0 THEN StampVerified(login[l].totp) ELSE UNCHANGED <<row, proven, raced>>
  /\ login' = [login EXCEPT ![l] = [at |-> "stamped", role |-> login[l].role]]
  /\ UNCHANGED <<sessions, token, secrets, confirm, limit>>

MintSession(l) ==
  /\ login[l].at = "stamped"
  /\ sessions' = sessions \cup {login[l].role} /\ login' = [login EXCEPT ![l] = Idle]
  /\ RecordOK
  /\ UNCHANGED <<row, token, secrets, proven, raced, confirm>>

SessionExpires(r) ==
  /\ r \in sessions /\ sessions' = sessions \ {r}
  /\ UNCHANGED <<row, token, secrets, proven, raced, login, confirm, limit>>

(***************************************************************************)
(* Accounts.                                                               *)
(***************************************************************************)

\* One row per name, whatever its case.
Create(role) ==
  row = NoRow /\ row' = [role |-> role, enabled |-> TRUE, totp |-> 0, verified |-> FALSE]

CreateUser ==
  /\ RequireRole("admin") /\ \E role \in Role : Create(role)
  /\ UNCHANGED <<sessions, token, secrets, proven, raced, login, confirm, limit>>

Update(role, enabled) == row' = [row EXCEPT !.role = role, !.enabled = enabled]

\* Role and state are committed before the password, which may be refused.
PatchUser ==
  /\ RequireRole("admin") /\ row # NoRow /\ \E role \in Role, enabled \in BOOLEAN : Update(role, enabled)
  /\ UNCHANGED <<sessions, token, secrets, proven, raced, login, confirm, limit>>

SetTotpSecretKeeps(secret) == row' = [row EXCEPT !.totp = secret]

\* A fresh secret is in force at once, unproven.
SetTotpSecret(secret) == row' = [row EXCEPT !.totp = secret, !.verified = FALSE]

TotpStart ==
  /\ RequireRole("admin") /\ row # NoRow
  /\ secrets < MaxSecret /\ secrets' = secrets + 1 /\ SetTotpSecret(secrets')
  /\ UNCHANGED <<sessions, token, proven, raced, login, confirm, limit>>

TotpConfirm ==
  /\ RequireRole("admin") /\ row # NoRow /\ confirm = 0
  /\ \E code \in 1..secrets : VerifyTotp(row.totp, code) /\ confirm' = code
  /\ UNCHANGED <<acctVars, sessions, login, limit>>

TotpConfirmed ==
  /\ confirm # 0 /\ confirm' = 0 /\ StampVerified(confirm)
  /\ UNCHANGED <<sessions, token, secrets, login, limit>>

ClearTotp ==
  /\ RequireRole("admin") /\ row # NoRow /\ row.totp # 0
  /\ row' = [row EXCEPT !.totp = 0, !.verified = FALSE]
  /\ UNCHANGED <<sessions, token, secrets, proven, raced, login, confirm, limit>>

\* With a lifetime or without one.
InsertToken == row # NoRow /\ token' = TRUE

CreateToken ==
  /\ RequireRole("admin") /\ InsertToken
  /\ UNCHANGED <<row, sessions, secrets, proven, raced, login, confirm, limit>>

RevokeToken ==
  /\ RequireRole("admin") /\ token' = FALSE
  /\ UNCHANGED <<row, sessions, secrets, proven, raced, login, confirm, limit>>

TokenExpires ==
  /\ token /\ token' = FALSE
  /\ UNCHANGED <<row, sessions, secrets, proven, raced, login, confirm, limit>>

Logins == \E l \in Login : LoginArrives(l) \/ Lookup(l) \/ Authenticate(l) \/ LoginFails(l) \/ LoginStamps(l) \/ MintSession(l)
UserHandlers == CreateUser \/ PatchUser \/ TotpStart \/ TotpConfirm \/ TotpConfirmed \/ ClearTotp \/ CreateToken \/ RevokeToken
Clock == WindowPasses \/ LockoutEnds \/ TokenExpires \/ \E r \in Role : SessionExpires(r)

AccNext == Logins \/ UserHandlers \/ Clock

AccSpec == AccInit /\ [][AccNext]_accVars

(***************************************************************************)
(* Properties.                                                             *)
(***************************************************************************)

\* UserStore.VerifyTotp stamps a row, not a secret: a verified account has had
\* a code of its current secret accepted, unless that secret replaced another
\* while a code of the old one was being checked.
VerifiedIsProven == row # NoRow /\ row.verified => row.totp \in proven \/ raced
=============================================================================
