---------------------------- MODULE RecordsProofs ----------------------------
(***************************************************************************)
(* Proofs about the parts of the server that keep rows: Accounts,          *)
(* WebhookDelivery, FirstRun, Notices, SearchIndex, ReportRuns,            *)
(* DataExport, Desk and Alerts, for any number of logins, requests,        *)
(* devices and passes, and rows of any number.  Each part has an inductive *)
(* invariant of its own, and a lemma for every step that disturbs it.      *)
(***************************************************************************)
EXTENDS Accounts, Alerts, WebhookDelivery, Desk, FirstRun, Notices, SearchIndex, ReportRuns,
        DataExport, FiniteSetTheorems, WellFoundedInduction, TLAPS

-----------------------------------------------------------------------------
(* Accounts.  The stamp of a verified code is written to the row after the *)
(* code was checked.  It is sound because a row is never deleted between   *)
(* the two, because a new secret always clears the stamp, and because the  *)
(* stamp either proves the secret that is in the row or is raced.          *)

\* Whoever checked a code or a password did so against a row.
CheckedHasRow ==
  /\ confirm # 0 => row # NoRow
  /\ \A l \in Login : login[l].at = "ok" => row # NoRow

\* The stamp is never on a row without a secret.
StampHasSecret == row # NoRow /\ row.verified => row.totp # 0

IInv == AccTypeOK /\ CheckedHasRow /\ StampHasSecret /\ VerifiedIsProven

LEMMA InitIInv == AccInit => IInv
<1> SUFFICES ASSUME AccInit PROVE IInv
  OBVIOUS
<1>1. Idle \in LoginState /\ Idle.at = "idle"
  BY DEF Idle, LoginState
<1>2. NoEntry \in [fails : 0..MaxFails - 1, window : {"open", "over"}, locked : BOOLEAN]
  BY AccountAssumption DEF NoEntry
<1>3. 0 \in 0..MaxSecret
  BY AccountAssumption
<1>4. raced \in BOOLEAN /\ token \in BOOLEAN
  BY Zenon DEF AccInit
<1>5. AccTypeOK
  BY <1>1, <1>2, <1>3, <1>4 DEF AccInit, AccTypeOK
<1>. QED
  BY <1>1, <1>5
  DEF AccInit, IInv, CheckedHasRow, StampHasSecret, VerifiedIsProven

-----------------------------------------------------------------------------
(* The steps of a login.                                                   *)

\* A login that moves on without touching the account.
LEMMA MoveIInv ==
  ASSUME IInv, NEW l \in Login, NEW s \in LoginState,
         login' = [login EXCEPT ![l] = s], s.at = "ok" => row # NoRow,
         UNCHANGED <<acctVars, confirm>>, sessions' \subseteq Role,
         limit' \in [fails : 0..MaxFails - 1, window : {"open", "over"}, locked : BOOLEAN]
  PROVE  IInv'
<1>1. \A k \in Login : login'[k] = IF k = l THEN s ELSE login[k]
  BY DEF IInv, AccTypeOK
<1>2. AccTypeOK'
  <2>1. login' \in [Login -> LoginState]
    BY DEF IInv, AccTypeOK
  <2>. QED BY <2>1, Zenon DEF IInv, AccTypeOK, acctVars
<1>3. CheckedHasRow'
  BY <1>1 DEF IInv, CheckedHasRow, acctVars
<1>. QED
  BY <1>2, <1>3 DEF IInv, StampHasSecret, VerifiedIsProven, acctVars

LEMMA IdleSound == Idle \in LoginState /\ Idle.at # "ok"
  BY DEF Idle, LoginState

\* The limiter counts below its limit.
LEMMA LimitSound ==
  ASSUME AccTypeOK, RecordFail \/ RecordOK
  PROVE  limit' \in [fails : 0..MaxFails - 1, window : {"open", "over"}, locked : BOOLEAN]
<1>1. NoEntry \in [fails : 0..MaxFails - 1, window : {"open", "over"}, locked : BOOLEAN]
  BY AccountAssumption DEF NoEntry
<1>2. CASE RecordOK
  BY <1>1, <1>2 DEF RecordOK
<1>3. CASE RecordFail
  <2> DEFINE e == PurgeLocked(limit)
             tally == (IF e.window = "over" THEN 0 ELSE e.fails) + 1
  <2>1. e \in [fails : 0..MaxFails - 1, window : {"open", "over"}, locked : BOOLEAN]
    BY <1>1 DEF AccTypeOK, PurgeLocked
  <2>2. tally \in Nat
    BY <2>1, AccountAssumption
  <2>3. limit' = IF tally >= MaxFails THEN [fails |-> 0, window |-> "open", locked |-> TRUE]
                 ELSE [e EXCEPT !.fails = tally, !.window = "open"]
    BY <1>3 DEF RecordFail
  <2>. HIDE DEF e, tally
  <2>4. CASE tally >= MaxFails
    <3>1. 0 \in 0..MaxFails - 1
      BY AccountAssumption
    <3>. QED BY <2>3, <2>4, <3>1
  <2>5. CASE ~(tally >= MaxFails)
    <3>1. tally \in 0..MaxFails - 1
      BY <2>2, <2>5, AccountAssumption
    <3>. QED BY <2>1, <2>3, <2>5, <3>1
  <2>. QED BY <2>4, <2>5
<1>. QED BY <1>2, <1>3

\* The stamp: a code of the row's present secret proves it, any other is raced.
LEMMA StampIInv ==
  ASSUME IInv, NEW checked \in 1..MaxSecret, StampVerified(checked), row # NoRow
  PROVE  /\ row' \in Row /\ proven' \subseteq 1..MaxSecret /\ raced' \in BOOLEAN
         /\ StampHasSecret' /\ VerifiedIsProven' /\ row' # NoRow
<1>1. row \in Row
  BY DEF IInv, AccTypeOK
<1>2. row' \in Row /\ row'.totp = row.totp
  BY <1>1 DEF StampVerified, Row
<1>3. raced' \in BOOLEAN
  BY Zenon DEF StampVerified, IInv, AccTypeOK
<1>4. proven' = proven \cup {checked} /\ proven' \subseteq 1..MaxSecret
  BY DEF StampVerified, IInv, AccTypeOK
<1>5. StampHasSecret'
  BY <1>1, <1>2 DEF StampVerified, StampHasSecret, IInv, Row
<1>6. checked # row.totp => raced'
  BY Zenon DEF StampVerified
<1>7. row'.totp \in proven' \/ raced'
  BY <1>2, <1>4, <1>6
<1>. QED
  BY <1>2, <1>3, <1>4, <1>5, <1>7, NoRowAssumption DEF VerifiedIsProven

LEMMA LoginIInv ==
  ASSUME IInv, NEW l \in Login,
         \/ LoginArrives(l) \/ Lookup(l) \/ Authenticate(l) \/ LoginFails(l)
         \/ LoginStamps(l) \/ MintSession(l)
  PROVE  IInv'
<1> DEFINE me == login[l]
<1>0. me \in LoginState /\ AccTypeOK
  BY DEF IInv, AccTypeOK
<1>1. CASE LoginArrives(l)
  <2>1. ASSUME NEW code \in 0..secrets
        PROVE  /\ [at |-> "allowed", code |-> code] \in LoginState
               /\ [at |-> "allowed", code |-> code].at # "ok"
    <3>1. code \in 0..MaxSecret
      BY <1>0, AccountAssumption DEF AccTypeOK
    <3>. QED BY <3>1 DEF LoginState
  <2>2. PICK code \in 0..secrets : login' = [login EXCEPT ![l] = [at |-> "allowed", code |-> code]]
    BY <1>1 DEF LoginArrives
  <2>3. UNCHANGED <<acctVars, sessions, confirm, limit>>
    BY <1>1 DEF LoginArrives
  <2> DEFINE s == [at |-> "allowed", code |-> code]
  <2>4. s \in LoginState /\ s.at # "ok" /\ login' = [login EXCEPT ![l] = s]
    BY <2>1, <2>2
  <2>. HIDE DEF s
  <2>. QED BY <1>0, <2>3, <2>4, MoveIInv DEF AccTypeOK
<1>2. CASE Lookup(l)
  <2>1. PICK right \in VerifyPassword :
          login' = [login EXCEPT ![l] =
            IF row = NoRow THEN [at |-> "legacy"]
            ELSE IF ~row.enabled \/ ~right THEN [at |-> "invalid"]
            ELSE IF row.totp # 0 /\ me.code = 0 THEN Idle
            ELSE IF row.totp # 0 /\ ~VerifyTotp(row.totp, me.code) THEN [at |-> "invalid"]
            ELSE [at |-> "ok", role |-> row.role, totp |-> row.totp]]
    BY <1>2 DEF Lookup
  <2> DEFINE s == IF row = NoRow THEN [at |-> "legacy"]
            ELSE IF ~row.enabled \/ ~right THEN [at |-> "invalid"]
            ELSE IF row.totp # 0 /\ me.code = 0 THEN Idle
            ELSE IF row.totp # 0 /\ ~VerifyTotp(row.totp, me.code) THEN [at |-> "invalid"]
            ELSE [at |-> "ok", role |-> row.role, totp |-> row.totp]
  <2>2. /\ [at |-> "legacy"] \in LoginState /\ [at |-> "invalid"] \in LoginState
        /\ row # NoRow => [at |-> "ok", role |-> row.role, totp |-> row.totp] \in LoginState
    BY <1>0 DEF AccTypeOK, LoginState, Row
  <2>3. s \in LoginState
    BY <2>2, IdleSound
  <2>4. s.at = "ok" => row # NoRow
    OBVIOUS
  <2>5. login' = [login EXCEPT ![l] = s]
    BY <2>1
  <2>6. UNCHANGED <<acctVars, sessions, confirm, limit>>
    BY <1>2 DEF Lookup
  <2>. HIDE DEF s
  <2>. QED BY <1>0, <2>3, <2>4, <2>5, <2>6, MoveIInv DEF AccTypeOK
<1>3. CASE Authenticate(l)
  <2>1. /\ [at |-> "stamped", role |-> "admin"] \in LoginState /\ [at |-> "invalid"] \in LoginState
        /\ [at |-> "stamped", role |-> "admin"].at # "ok" /\ [at |-> "invalid"].at # "ok"
    BY DEF LoginState, Role
  <2>2. \/ login' = [login EXCEPT ![l] = [at |-> "stamped", role |-> "admin"]]
        \/ login' = [login EXCEPT ![l] = [at |-> "invalid"]]
    BY <1>3 DEF Authenticate
  <2>. QED BY <1>0, <1>3, <2>1, <2>2, MoveIInv DEF Authenticate, AccTypeOK
<1>4. CASE LoginFails(l)
  BY <1>0, <1>4, IdleSound, LimitSound, MoveIInv DEF LoginFails, AccTypeOK
<1>5. CASE LoginStamps(l)
  <2>1. me.at = "ok" /\ me.totp \in 0..MaxSecret /\ me.role \in Role /\ row # NoRow
    BY <1>0, <1>5 DEF LoginStamps, LoginState, IInv, CheckedHasRow
  <2> DEFINE s == [at |-> "stamped", role |-> me.role]
  <2>2. s \in LoginState /\ s.at # "ok" /\ login' = [login EXCEPT ![l] = s]
    BY <1>5, <2>1 DEF LoginStamps, LoginState
  <2>3. CASE me.totp = 0
    BY <1>0, <1>5, <2>2, <2>3, MoveIInv DEF LoginStamps, AccTypeOK, acctVars
  <2>4. CASE me.totp # 0
    <3>1. me.totp \in 1..MaxSecret /\ StampVerified(me.totp)
      BY <1>5, <2>1, <2>4, AccountAssumption DEF LoginStamps
    <3>2. /\ row' \in Row /\ proven' \subseteq 1..MaxSecret /\ raced' \in BOOLEAN
          /\ StampHasSecret' /\ VerifiedIsProven' /\ row' # NoRow
      BY <2>1, <3>1, StampIInv
    <3>3. UNCHANGED <<sessions, token, secrets, confirm, limit>>
      BY <1>5 DEF LoginStamps
    <3>. HIDE DEF s
    <3>4. AccTypeOK'
      BY <1>0, <2>2, <3>2, <3>3 DEF AccTypeOK
    <3>. QED BY <3>2, <3>4 DEF IInv, CheckedHasRow
  <2>. QED BY <2>3, <2>4
<1>6. CASE MintSession(l)
  <2>1. me.role \in Role
    BY <1>0, <1>6 DEF MintSession, LoginState
  <2>. QED
    BY <1>0, <1>6, <2>1, IdleSound, LimitSound, MoveIInv
    DEF MintSession, AccTypeOK, acctVars
<1>. QED BY <1>1, <1>2, <1>3, <1>4, <1>5, <1>6

-----------------------------------------------------------------------------
(* The handlers of the account, and the clock.                             *)

\* A step that leaves the logins and the stamps' history alone, and writes
\* the row only with the stamp it had for the same secret, or without.
LEMMA RowIInv ==
  ASSUME IInv, UNCHANGED <<login, proven, raced>>,
         row' \in Row \cup {NoRow}, row # NoRow => row' # NoRow,
         row' # NoRow /\ row'.verified =>
           row # NoRow /\ row.verified /\ row'.totp = row.totp,
         sessions' \subseteq Role, token' \in BOOLEAN, secrets' \in 0..MaxSecret,
         confirm' \in 0..MaxSecret, confirm' # 0 => row # NoRow,
         limit' \in [fails : 0..MaxFails - 1, window : {"open", "over"}, locked : BOOLEAN]
  PROVE  IInv'
<1>1. AccTypeOK'
  BY DEF IInv, AccTypeOK
<1>2. CheckedHasRow'
  BY DEF IInv, CheckedHasRow
<1>. QED
  BY <1>1, <1>2 DEF IInv, StampHasSecret, VerifiedIsProven

LEMMA UserHandlerIInv ==
  ASSUME IInv, UserHandlers
  PROVE  IInv'
<1>0. AccTypeOK
  BY DEF IInv
<1>1. CASE CreateUser
  <2>1. PICK role \in Role : row = NoRow /\
          row' = [role |-> role, enabled |-> TRUE, totp |-> 0, verified |-> FALSE]
    BY <1>1 DEF CreateUser, Create
  <2>2. row' \in Row /\ ~row'.verified
    BY <2>1, AccountAssumption DEF Row
  <2>. QED BY <1>0, <1>1, <2>1, <2>2, RowIInv DEF CreateUser, AccTypeOK, IInv, CheckedHasRow
<1>2. CASE PatchUser
  <2>1. PICK role \in Role, enabled \in BOOLEAN :
          row' = [row EXCEPT !.role = role, !.enabled = enabled]
    BY <1>2 DEF PatchUser, Update
  <2>2. row \in Row /\ row # NoRow
    BY <1>0, <1>2 DEF PatchUser, AccTypeOK
  <2>3. row' \in Row /\ row'.verified = row.verified /\ row'.totp = row.totp
    BY <2>1, <2>2 DEF Row
  <2>. QED
    BY <1>0, <1>2, <2>2, <2>3, NoRowAssumption, RowIInv DEF PatchUser, AccTypeOK
<1>3. CASE TotpStart
  <2>1. secrets' \in 0..MaxSecret /\ row \in Row /\ row # NoRow
    BY <1>0, <1>3, AccountAssumption DEF TotpStart, AccTypeOK
  <2>2. row' \in Row /\ ~row'.verified
    BY <1>3, <2>1 DEF TotpStart, SetTotpSecret, Row
  <2>. QED
    BY <1>0, <1>3, <2>1, <2>2, NoRowAssumption, RowIInv DEF TotpStart, AccTypeOK
<1>4. CASE TotpConfirm
  <2>1. confirm' \in 0..MaxSecret /\ row # NoRow
    BY <1>0, <1>4, AccountAssumption DEF TotpConfirm, AccTypeOK
  <2>. QED
    BY <1>0, <1>4, <2>1, RowIInv DEF TotpConfirm, AccTypeOK, acctVars
<1>5. CASE TotpConfirmed
  <2>1. confirm \in 1..MaxSecret /\ row # NoRow /\ StampVerified(confirm) /\ confirm' = 0
    BY <1>0, <1>5, AccountAssumption
    DEF TotpConfirmed, AccTypeOK, IInv, CheckedHasRow
  <2>2. /\ row' \in Row /\ proven' \subseteq 1..MaxSecret /\ raced' \in BOOLEAN
        /\ StampHasSecret' /\ VerifiedIsProven' /\ row' # NoRow
    BY <2>1, StampIInv
  <2>3. UNCHANGED <<sessions, token, secrets, login, limit>> /\ 0 \in 0..MaxSecret
    BY <1>5, AccountAssumption DEF TotpConfirmed
  <2>4. AccTypeOK'
    BY <1>0, <2>1, <2>2, <2>3 DEF AccTypeOK
  <2>. QED BY <2>2, <2>4 DEF IInv, CheckedHasRow
<1>6. CASE ClearTotp
  <2>1. row \in Row /\ row # NoRow
    BY <1>0, <1>6 DEF ClearTotp, AccTypeOK
  <2>2. row' \in Row /\ ~row'.verified
    <3>1. 0 \in 0..MaxSecret /\ row' = [row EXCEPT !.totp = 0, !.verified = FALSE]
      BY <1>6, AccountAssumption DEF ClearTotp
    <3>. QED BY <2>1, <3>1 DEF Row
  <2>. QED
    BY <1>0, <1>6, <2>1, <2>2, NoRowAssumption, RowIInv DEF ClearTotp, AccTypeOK
<1>7. CASE CreateToken \/ RevokeToken
  BY <1>0, <1>7, RowIInv
  DEF CreateToken, InsertToken, RevokeToken, AccTypeOK, IInv, CheckedHasRow
<1>. QED BY <1>1, <1>2, <1>3, <1>4, <1>5, <1>6, <1>7 DEF UserHandlers

LEMMA ClockIInv ==
  ASSUME IInv, Clock \/ UNCHANGED accVars
  PROVE  IInv'
<1>0. AccTypeOK
  BY DEF IInv
<1>1. NoEntry \in [fails : 0..MaxFails - 1, window : {"open", "over"}, locked : BOOLEAN]
  BY AccountAssumption DEF NoEntry
<1>2. CASE WindowPasses \/ LockoutEnds
  <2>1. limit' \in [fails : 0..MaxFails - 1, window : {"open", "over"}, locked : BOOLEAN]
    BY <1>0, <1>1, <1>2 DEF WindowPasses, LockoutEnds, AccTypeOK
  <2>. QED
    BY <1>0, <1>2, <2>1, RowIInv
    DEF WindowPasses, LockoutEnds, acctVars, AccTypeOK, IInv, CheckedHasRow
<1>3. CASE TokenExpires \/ \E r \in Role : SessionExpires(r)
  BY <1>0, <1>3, RowIInv
  DEF TokenExpires, SessionExpires, AccTypeOK, IInv, CheckedHasRow
<1>4. CASE UNCHANGED accVars
  BY <1>0, <1>4, RowIInv
  DEF accVars, acctVars, AccTypeOK, IInv, CheckedHasRow
<1>. QED BY <1>2, <1>3, <1>4 DEF Clock

LEMMA NextIInv == IInv /\ [AccNext]_accVars => IInv'
  BY LoginIInv, UserHandlerIInv, ClockIInv DEF AccNext, Logins

-----------------------------------------------------------------------------
\* The accounts, logins and the limiter are well typed: the limiter never
\* counts up to its limit without locking (recordFail).
THEOREM AccountsTypeCorrect == AccSpec => []AccTypeOK
<1>1. IInv => AccTypeOK
  BY DEF IInv
<1>. QED BY <1>1, InitIInv, NextIInv, PTL DEF AccSpec

\* UserStore.VerifyTotp and TotpConfirm: whoever logs in, enrols, confirms or
\* edits at the same time, an account is verified only by a code of its
\* current secret, or by the race the history names.
THEOREM VerifiedProven == AccSpec => []VerifiedIsProven
<1>1. IInv => VerifiedIsProven
  BY DEF IInv
<1>. QED BY <1>1, InitIInv, NextIInv, PTL DEF AccSpec

-----------------------------------------------------------------------------
(* WebhookDelivery.  The cursor moves over an event only on the strength   *)
(* of what the sweep read; that is sound because everything that changes   *)
(* the cursor or the row in the meantime marks the sweep.  The stream has  *)
(* no gap because an event that the viewer still waits for is in exactly   *)
(* one of four places: the queue, the lost ones, the handler's hand, or    *)
(* the future.                                                             *)

-----------------------------------------------------------------------------
(* The sweep and the cursor.                                               *)

\* While nobody has touched the row the sweep knows the cursor, and it may move
\* it to the event it holds: what lies between was unwanted, and at the end the
\* event itself was accepted.
SweepSound ==
  sweep # None =>
    /\ sweep.row # "gone" => endpoint # None
    /\ sweep.row = "same" /\ sweep.at # "record" => endpoint.cursor = sweep.cursor
    /\ sweep.row = "same" /\ sweep.at \in {"post", "advance"} =>
         \A t \in sweep.cursor + 1 .. sweep.seq - 1 : t \in received \cup excused
    /\ sweep.row = "same" /\ sweep.at = "advance" => sweep.seq \in received

CursorInv == WhkTypeOK /\ SweepSound /\ NoneSkipped

\* A step that leaves the endpoint's side alone.
LEMMA AsideCursor ==
  ASSUME CursorInv, WhkTypeOK', UNCHANGED <<endpoint, received, excused>>,
         sweep' \in {sweep, None}
  PROVE  CursorInv'
  BY DEF CursorInv, SweepSound, NoneSkipped

LEMMA OperatorCursor ==
  ASSUME CursorInv, Operator
  PROVE  CursorInv'
<1>0. WhkTypeOK /\ SweepSound /\ NoneSkipped
  BY DEF CursorInv
<1>1. Len(journal) \in Nat
  BY <1>0 DEF WhkTypeOK
<1>2. ASSUME sweep # None, NEW what \in {"gone", "replayed"}, Meanwhile(what)
      PROVE  /\ sweep' \in SweepState /\ sweep'.row # "same"
             /\ sweep'.row # "gone" => sweep.row # "gone" /\ what # "gone"
  BY <1>0, <1>2 DEF Meanwhile, WhkTypeOK, SweepState
<1>3. ASSUME NEW what \in {"gone", "replayed"}, Meanwhile(what), sweep = None
      PROVE  sweep' = None
  BY <1>3 DEF Meanwhile
<1>4. ASSUME NEW cats \in SUBSET Category
      PROVE  NormalizeCategories(cats) \in SUBSET Category
  BY DEF NormalizeCategories
<1>5. CASE HandleWebhooks
  <2>1. PICK cats \in SUBSET Category : CreateEndpoint(cats)
    BY <1>4, <1>5 DEF HandleWebhooks
  <2>2. /\ endpoint' \in Endpoint /\ endpoint'.cursor = Len(journal)
        /\ excused' = 1..Len(journal)
    BY <1>1, <2>1 DEF CreateEndpoint, Endpoint, Seq1
  <2>3. UNCHANGED <<journal, handler, viewer, sweep>> /\ endpoint = None
    BY <1>5 DEF HandleWebhooks
  <2>4. WhkTypeOK'
    BY <1>0, <2>2, <2>3 DEF WhkTypeOK
  <2>5. sweep # None => sweep.row = "gone"
    BY <1>0, <2>3 DEF SweepSound
  <2>. QED
    BY <2>2, <2>3, <2>4, <2>5 DEF CursorInv, SweepSound, NoneSkipped
<1>6. CASE HandleWebhookSub
  <2>0. endpoint \in Endpoint /\ UNCHANGED <<journal, handler, viewer, received, excused>>
    BY <1>0, <1>6 DEF HandleWebhookSub, Edit, WhkTypeOK
  <2>1. CASE DeleteEndpoint
    <3>1. WhkTypeOK'
      BY <1>0, <1>2, <1>3, <2>0, <2>1 DEF WhkTypeOK, DeleteEndpoint
    <3>. QED
      BY <1>2, <1>3, <2>1, <3>1 DEF DeleteEndpoint, CursorInv, SweepSound, NoneSkipped
  <2>2. ASSUME NEW cats \in SUBSET Category, UpdateEndpoint(cats)
        PROVE  CursorInv'
    <3>1. endpoint' \in Endpoint /\ endpoint'.cursor = endpoint.cursor
      <4>1. CASE endpoint' = [endpoint EXCEPT !.cats = cats]
        BY <2>0, <4>1 DEF Endpoint
      <4>2. CASE endpoint' = [endpoint EXCEPT !.enabled = FALSE]
        BY <2>0, <4>2 DEF Endpoint
      <4>3. CASE endpoint' = [endpoint EXCEPT !.enabled = TRUE, !.attempts = 0, !.status = "ok", !.due = TRUE]
        BY <2>0, <4>3 DEF Endpoint
      <4>. QED BY <2>2, <4>1, <4>2, <4>3 DEF UpdateEndpoint
    <3>2. sweep' = sweep
      BY <2>2 DEF UpdateEndpoint
    <3>3. WhkTypeOK'
      BY <1>0, <2>0, <3>1, <3>2 DEF WhkTypeOK
    <3>4. endpoint # None /\ endpoint' # None
      BY <2>0, <3>1, NoneAssumption
    <3>. QED
      BY <1>0, <2>0, <3>1, <3>2, <3>3, <3>4 DEF CursorInv, SweepSound, NoneSkipped
  <2>. QED BY <1>4, <1>6, <2>1, <2>2 DEF HandleWebhookSub
<1>7. CASE HandleWebhookReplay
  <2>1. PICK n \in 0..Len(journal) : SetCursor(n)
    BY <1>7 DEF HandleWebhookReplay
  <2>2. endpoint \in Endpoint /\ n \in Nat
    BY <1>0, <1>1, <1>7 DEF HandleWebhookReplay, Edit, WhkTypeOK
  <2>3. endpoint' \in Endpoint /\ endpoint'.cursor = n
    BY <2>1, <2>2 DEF SetCursor, Endpoint
  <2>4. endpoint # None /\ endpoint' # None
    BY <2>2, <2>3, NoneAssumption
  <2>5. NoneSkipped'
    <3>1. endpoint.cursor \in Nat
      BY <2>2 DEF Endpoint
    <3>. QED
      BY <1>0, <2>1, <2>2, <2>3, <2>4, <3>1 DEF SetCursor, NoneSkipped
  <2>6. WhkTypeOK' /\ SweepSound'
    BY <1>0, <1>2, <1>3, <1>7, <2>3, <2>4
    DEF HandleWebhookReplay, WhkTypeOK, SweepSound
  <2>. QED BY <2>5, <2>6 DEF CursorInv
<1>. QED BY <1>5, <1>6, <1>7 DEF Operator

LEMMA SweeperCursor ==
  ASSUME CursorInv, Sweeper \/ BackoffEnds
  PROVE  CursorInv'
<1>0. WhkTypeOK /\ SweepSound /\ NoneSkipped
  BY DEF CursorInv
<1>1. UNCHANGED <<journal, handler, viewer>>
  BY DEF Sweeper, BackoffEnds, Sweep, SweepEndpoint, Deliver, Advance, RecordAttempt
<1>2. Len(journal) \in Nat
  BY <1>0 DEF WhkTypeOK
<1>3. CASE Sweep
  <2>1. endpoint \in Endpoint
    BY <1>0, <1>3 DEF Sweep, WhkTypeOK
  <2>2. /\ sweep' \in SweepState /\ sweep'.at = "read" /\ sweep'.row = "same"
        /\ sweep'.cursor = endpoint.cursor
    BY <1>3, <2>1 DEF Sweep, SweepState, Endpoint
  <2>3. UNCHANGED <<endpoint, received, excused>> /\ endpoint # None
    BY <1>3 DEF Sweep
  <2>. QED
    BY <1>0, <1>1, <2>2, <2>3 DEF CursorInv, WhkTypeOK, SweepSound, NoneSkipped
<1>4. CASE SweepEndpoint
  <2>0. sweep \in SweepState /\ sweep.at = "read" /\ UNCHANGED <<endpoint, received>>
    BY <1>0, <1>4 DEF SweepEndpoint, WhkTypeOK
  <2>1. CASE PendingEvents = {}
    BY <1>0, <1>1, <1>4, <2>0, <2>1, AsideCursor DEF SweepEndpoint, WhkTypeOK
  <2>2. CASE PendingEvents # {}
    <3>1. PICK s \in PendingEvents :
            /\ sweep' = [sweep EXCEPT !.at = "post", !.seq = s]
            /\ excused' = excused \cup
                 {t \in sweep.cursor + 1 .. s - 1 : journal[t] \notin endpoint.cats}
      BY <1>4, <2>2 DEF SweepEndpoint
    <3>2. /\ s \in Nat /\ s <= Len(journal) /\ sweep.row # "gone"
          /\ \A t \in Seq1 : t > sweep.cursor /\ journal[t] \in endpoint.cats => s <= t
      BY <1>2, <3>1 DEF PendingEvents, Seq1
    <3>3. \A t \in sweep.cursor + 1 .. s - 1 : t \in excused'
      <4>1. sweep.cursor \in Nat
        BY <2>0 DEF SweepState
      <4>. SUFFICES ASSUME NEW t \in sweep.cursor + 1 .. s - 1
           PROVE  t \in excused'
        OBVIOUS
      <4>2. t \in Seq1 /\ t > sweep.cursor /\ ~(s <= t)
        BY <1>2, <3>2, <4>1 DEF Seq1
      <4>. QED BY <3>1, <3>2, <4>2
    <3>4. /\ sweep' \in SweepState /\ sweep'.at = "post" /\ sweep'.row = sweep.row
          /\ sweep'.cursor = sweep.cursor /\ sweep'.seq = s
      BY <2>0, <3>1, <3>2 DEF SweepState
    <3>5. sweep # None /\ sweep' # None /\ excused \subseteq excused'
      BY <2>0, <3>1, <3>4, NoneAssumption
    <3>6. WhkTypeOK'
      BY <1>0, <1>1, <2>0, <3>4 DEF WhkTypeOK
    <3>. QED
      BY <1>0, <2>0, <3>3, <3>4, <3>5, <3>6 DEF CursorInv, SweepSound, NoneSkipped
  <2>. QED BY <2>1, <2>2
<1>5. CASE Deliver
  <2>0. /\ sweep \in SweepState /\ sweep # None /\ sweep.at = "post"
        /\ UNCHANGED <<endpoint, excused>>
    BY <1>0, <1>5 DEF Deliver, WhkTypeOK
  <2>1. CASE received' = received \cup {sweep.seq} /\ sweep' = [sweep EXCEPT !.at = "advance"]
    <3>1. /\ sweep' \in SweepState /\ sweep'.at = "advance" /\ sweep'.row = sweep.row
          /\ sweep'.cursor = sweep.cursor /\ sweep'.seq = sweep.seq
      BY <2>0, <2>1 DEF SweepState
    <3>. QED
      BY <1>0, <1>1, <2>0, <2>1, <3>1 DEF CursorInv, WhkTypeOK, SweepSound, NoneSkipped
  <2>2. CASE received' = received /\ sweep' = [sweep EXCEPT !.at = "record", !.attempts = sweep.attempts + 1]
    <3>1. sweep' \in SweepState /\ sweep'.at = "record" /\ sweep'.row = sweep.row
      <4>1. sweep.attempts + 1 \in Nat
        BY <2>0 DEF SweepState
      <4>. QED BY <2>0, <2>2, <4>1 DEF SweepState
    <3>. QED
      BY <1>0, <1>1, <2>0, <2>2, <3>1 DEF CursorInv, WhkTypeOK, SweepSound, NoneSkipped
  <2>. QED BY <1>5, <2>1, <2>2 DEF Deliver
<1>6. CASE Advance
  <2>0. /\ sweep \in SweepState /\ sweep # None /\ sweep.at = "advance" /\ received' = received
        /\ sweep' = [sweep EXCEPT !.at = "record", !.attempts = 0]
    BY <1>0, <1>6 DEF Advance, WhkTypeOK
  <2>1. sweep' \in SweepState /\ sweep'.at = "record" /\ sweep'.row = sweep.row /\ sweep' # None
    <3>1. sweep' \in SweepState /\ sweep'.at = "record" /\ sweep'.row = sweep.row
      BY <2>0 DEF SweepState
    <3>. QED BY <3>1, NoneAssumption
  <2>2. CASE UNCHANGED <<endpoint, excused>>
    BY <1>0, <1>1, <2>0, <2>1, <2>2 DEF CursorInv, WhkTypeOK, SweepSound, NoneSkipped
  <2>3. CASE /\ sweep.row # "gone" /\ endpoint.cursor < sweep.seq
             /\ endpoint' = [endpoint EXCEPT !.cursor = sweep.seq]
             /\ excused' = IF sweep.row = "same" THEN excused
                           ELSE excused \cup (endpoint.cursor + 1 .. sweep.seq)
    <3>1. endpoint \in Endpoint /\ endpoint # None
      BY <1>0, <2>0, <2>3 DEF SweepSound, WhkTypeOK
    <3>2. /\ endpoint' \in Endpoint /\ endpoint'.cursor = sweep.seq /\ endpoint' # None
          /\ sweep.seq \in Nat /\ endpoint.cursor \in Nat
      BY <2>0, <2>3, <3>1, NoneAssumption DEF Endpoint, SweepState
    <3>3. NoneSkipped'
      <4>. SUFFICES ASSUME NEW s \in 1..sweep.seq
           PROVE  s \in received \cup excused'
        BY <2>0, <3>2 DEF NoneSkipped
      <4>1. CASE s <= endpoint.cursor
        BY <1>0, <2>3, <3>1, <3>2, <4>1 DEF NoneSkipped
      <4>2. CASE ~(s <= endpoint.cursor) /\ sweep.row # "same"
        BY <2>3, <3>2, <4>2
      <4>3. CASE ~(s <= endpoint.cursor) /\ sweep.row = "same"
        <5>1. endpoint.cursor = sweep.cursor /\ sweep.seq \in received
          BY <1>0, <2>0, <4>3 DEF SweepSound
        <5>2. s = sweep.seq \/ s \in sweep.cursor + 1 .. sweep.seq - 1
          BY <3>2, <4>3, <5>1
        <5>. QED BY <1>0, <2>0, <2>3, <4>3, <5>1, <5>2 DEF SweepSound
      <4>. QED BY <4>1, <4>2, <4>3
    <3>. QED
      BY <1>0, <1>1, <2>1, <3>2, <3>3 DEF CursorInv, WhkTypeOK, SweepSound
  <2>. QED BY <1>6, <2>2, <2>3 DEF Advance, AdvanceCursor
<1>7. CASE RecordAttempt \/ BackoffEnds
  <2>1. UNCHANGED <<received, excused>>
    BY <1>7 DEF RecordAttempt, BackoffEnds
  <2>2. sweep' \in {sweep, None}
    BY <1>7 DEF RecordAttempt, BackoffEnds
  <2>3. CASE UNCHANGED endpoint
    BY <1>0, <1>1, <2>1, <2>2, <2>3, AsideCursor DEF WhkTypeOK
  <2>4. CASE endpoint' # endpoint
    <3>1. endpoint \in Endpoint
      BY <1>0, <1>7, <2>4 DEF RecordAttempt, BackoffEnds, SweepSound, WhkTypeOK
    <3>2. CASE RecordAttempt
      <4>1. sweep \in SweepState
        BY <1>0, <3>2 DEF RecordAttempt, WhkTypeOK
      <4>2. endpoint' \in Endpoint /\ endpoint'.cursor = endpoint.cursor /\ sweep' = None
        BY <2>4, <3>1, <3>2, <4>1 DEF RecordAttempt, Endpoint, SweepState
      <4>. QED
        BY <1>0, <1>1, <2>1, <3>1, <4>2, NoneAssumption
        DEF CursorInv, WhkTypeOK, SweepSound, NoneSkipped
    <3>3. CASE BackoffEnds
      <4>1. endpoint' \in Endpoint /\ endpoint'.cursor = endpoint.cursor /\ sweep' = sweep
        BY <3>1, <3>3 DEF BackoffEnds, Endpoint
      <4>. QED
        BY <1>0, <1>1, <2>1, <3>1, <4>1, NoneAssumption
        DEF CursorInv, WhkTypeOK, SweepSound, NoneSkipped
    <3>. QED BY <1>7, <3>2, <3>3
  <2>. QED BY <2>3, <2>4
<1>. QED BY <1>3, <1>4, <1>5, <1>6, <1>7 DEF Sweeper

-----------------------------------------------------------------------------
(* The viewer's stream.                                                    *)

\* The handler still has the event for this viewer.
InHand(t) ==
  handler # None /\ handler.seq = t /\ handler.chan \in {"unknown", "open"}

InQueue(t) == \E i \in DOMAIN viewer.queue : viewer.queue[i] = t

\* The handler holds the newest event, and an open channel only of a viewer
\* that is there and asked for it.
HandlerSound ==
  handler # None =>
    /\ handler.seq = Len(journal)
    /\ handler.chan = "open" => viewer # Off /\ Matches(viewer.filter, handler.seq)

\* What is queued is in the order of the journal, and not in hand any more.
QueueSound ==
  viewer # Off =>
    /\ \A i \in DOMAIN viewer.queue :
         /\ viewer.queue[i] <= Len(journal) /\ ~InHand(viewer.queue[i])
         /\ \A j \in DOMAIN viewer.queue : i < j => viewer.queue[i] < viewer.queue[j]
    /\ ~viewer.gap

\* An event that the live viewer is to see and has not seen is somewhere.
NothingForgotten ==
  viewer # Off /\ viewer.at = "live" =>
    \A t \in Seq1 : t > viewer.last /\ Matches(viewer.filter, t) =>
      InQueue(t) \/ t \in viewer.lost \/ InHand(t)

StreamInv == WhkTypeOK /\ HandlerSound /\ QueueSound /\ NothingForgotten

LEMMA OffIsNoViewer == Off \notin ViewerState
  BY DEF Off, ViewerState

\* A step that leaves the journal, the handler and the viewer alone.
LEMMA AsideStream ==
  ASSUME StreamInv, WhkTypeOK', UNCHANGED <<journal, handler, viewer>>
  PROVE  StreamInv'
  BY DEF StreamInv, HandlerSound, QueueSound, NothingForgotten, InHand, InQueue,
         Seq1, Matches

\* The process forgets the handler and the viewer.
LEMMA CrashStream ==
  ASSUME StreamInv, Crash, journal' = journal, endpoint' = endpoint
  PROVE  StreamInv'
  BY DEF StreamInv, WhkTypeOK, Crash, HandlerSound, QueueSound, NothingForgotten, Off

LEMMA HandlerStream ==
  ASSUME StreamInv, (\E c \in Category : AppendEvent(c)) \/ Broadcast \/ Send
  PROVE  StreamInv'
<1>0. WhkTypeOK /\ HandlerSound /\ QueueSound /\ NothingForgotten
  BY DEF StreamInv
<1>1. /\ journal \in Seq(Category) /\ Len(journal) \in Nat
      /\ viewer # Off => viewer \in ViewerState
      /\ handler # None => handler \in HandlerState
  BY <1>0 DEF WhkTypeOK
<1>2. viewer # Off => viewer.queue \in Seq(Nat) /\ viewer.last \in Nat /\ viewer.lost \in SUBSET Nat
  BY <1>1 DEF ViewerState
<1>3. viewer # Off => \A i \in DOMAIN viewer.queue : viewer.queue[i] \in Nat
  BY <1>2
<1>4. ASSUME NEW c \in Category, AppendEvent(c)
      PROVE  StreamInv'
  <2> DEFINE n == Len(journal) + 1
  <2>1. /\ handler = None /\ viewer' = viewer /\ journal' = Append(journal, c)
        /\ handler' = [seq |-> n, chan |-> "unknown"] /\ Len(journal) < MaxSeq
        /\ UNCHANGED <<endpoint, sweep>>
    BY <1>4 DEF AppendEvent, sinkVars
  <2>2. /\ journal' \in Seq(Category) /\ Len(journal') = n /\ Len(journal') <= MaxSeq
        /\ \A t \in Seq1 : journal'[t] = journal[t]
    BY <1>1, <2>1, DeliveryAssumption DEF Seq1
  <2>3. handler' \in HandlerState /\ handler' # None /\ handler'.seq = n /\ handler'.chan = "unknown"
    <3>1. handler' \in HandlerState /\ handler'.seq = n /\ handler'.chan = "unknown"
      BY <1>1, <2>1 DEF HandlerState
    <3>. QED BY <3>1, NoneAssumption
  <2>4. WhkTypeOK' /\ HandlerSound'
    BY <1>0, <2>1, <2>2, <2>3 DEF WhkTypeOK, HandlerSound
  <2>5. \A t : InHand(t)' <=> t = n
    BY <2>3 DEF InHand
  <2>6. \A t : ~InHand(t)
    BY <2>1 DEF InHand
  <2>7. QueueSound'
    BY <1>0, <1>1, <1>3, <2>1, <2>2, <2>5 DEF QueueSound
  <2>8. NothingForgotten'
    <3>. SUFFICES ASSUME viewer # Off, viewer.at = "live", NEW t \in Seq1',
                         t > viewer.last, Matches(viewer.filter, t)'
         PROVE  InQueue(t) \/ t \in viewer.lost \/ InHand(t)'
      BY <2>1 DEF NothingForgotten, InQueue
    <3>1. CASE t = n
      BY <2>5, <3>1
    <3>2. CASE t # n
      <4>1. t \in Seq1
        BY <1>1, <2>2, <3>2 DEF Seq1
      <4>2. Matches(viewer.filter, t)
        BY <2>1, <2>2, <4>1 DEF Matches
      <4>. QED BY <1>0, <2>6, <4>1, <4>2 DEF NothingForgotten
    <3>. QED BY <3>1, <3>2
  <2>. QED BY <2>4, <2>7, <2>8 DEF StreamInv
<1>5. CASE Broadcast
  <2>1. /\ handler # None /\ handler.chan = "unknown" /\ handler \in HandlerState
        /\ UNCHANGED <<journal, viewer, endpoint, sweep>>
    BY <1>1, <1>5 DEF Broadcast, sinkVars
  <2>2. CASE Subscribed /\ Matches(viewer.filter, handler.seq)
    <3>1. handler' = [handler EXCEPT !.chan = "open"]
      BY <1>5, <2>2 DEF Broadcast
    <3>2. /\ handler' \in HandlerState /\ handler'.seq = handler.seq /\ handler'.chan = "open"
      BY <2>1, <3>1 DEF HandlerState
    <3>3. handler' # None /\ viewer # Off
      BY <2>2, <3>2, NoneAssumption DEF Subscribed, Off
    <3>4. \A t : InHand(t)' <=> InHand(t)
      BY <2>1, <3>2, <3>3 DEF InHand
    <3>. QED
      BY <1>0, <2>1, <2>2, <3>2, <3>3, <3>4
      DEF StreamInv, WhkTypeOK, HandlerSound, QueueSound, NothingForgotten, InQueue,
          Seq1, Matches
  <2>3. CASE ~(Subscribed /\ Matches(viewer.filter, handler.seq))
    <3>1. handler' = None
      BY <1>5, <2>3 DEF Broadcast
    <3>2. \A t : ~InHand(t)'
      BY <3>1 DEF InHand
    <3>3. viewer # Off => Subscribed
      BY <1>1 DEF Subscribed, ViewerState
    <3>4. NothingForgotten'
      BY <1>0, <2>1, <2>3, <3>3 DEF NothingForgotten, InQueue, InHand, Seq1, Matches
    <3>. QED
      BY <1>0, <2>1, <3>1, <3>2, <3>4 DEF StreamInv, WhkTypeOK, HandlerSound, QueueSound
  <2>. QED BY <2>2, <2>3
<1>6. CASE Send
  <2> DEFINE n == handler.seq
  <2>1. /\ handler # None /\ handler.chan = "open" /\ handler' = None
        /\ n = Len(journal) /\ n \in Nat /\ viewer # Off /\ InHand(n)
        /\ UNCHANGED <<journal, endpoint, sweep>>
    BY <1>0, <1>1, <1>6 DEF Send, HandlerSound, InHand, sinkVars
  <2>2. \A t : ~InHand(t)' /\ (InHand(t) => t = n)
    BY <2>1 DEF InHand
  <2>3. viewer \in ViewerState /\ viewer.queue \in Seq(Nat)
    BY <1>1, <1>2, <2>1
  <2>4. CASE viewer' = [viewer EXCEPT !.queue = Append(viewer.queue, n)]
    <3>1. /\ viewer' \in ViewerState /\ viewer'.queue = Append(viewer.queue, n)
          /\ viewer'.at = viewer.at /\ viewer'.last = viewer.last /\ viewer'.lost = viewer.lost
          /\ viewer'.filter = viewer.filter /\ viewer'.gap = viewer.gap
      <4>1. Append(viewer.queue, n) \in Seq(Nat)
        BY <2>1, <2>3
      <4>. HIDE DEF n
      <4>. QED BY <2>3, <2>4, <4>1 DEF ViewerState
    <3>2. \A i \in DOMAIN viewer'.queue :
            \/ i \in DOMAIN viewer.queue /\ viewer'.queue[i] = viewer.queue[i]
            \/ i = Len(viewer.queue) + 1 /\ viewer'.queue[i] = n
      BY <2>1, <2>3, <3>1
    <3>3. /\ DOMAIN viewer.queue \subseteq DOMAIN viewer'.queue
          /\ \A i \in DOMAIN viewer.queue : viewer'.queue[i] = viewer.queue[i]
          /\ Len(viewer.queue) + 1 \in DOMAIN viewer'.queue
          /\ viewer'.queue[Len(viewer.queue) + 1] = n
      BY <2>1, <2>3, <3>1
    <3>4. \A i \in DOMAIN viewer.queue :
            /\ i \in 1..Len(viewer.queue) /\ viewer.queue[i] \in Nat
            /\ viewer.queue[i] # n /\ viewer.queue[i] <= n
      BY <1>0, <1>3, <2>1, <2>3 DEF QueueSound
    <3>5. QueueSound'
      <4>. SUFFICES ASSUME NEW i \in DOMAIN viewer'.queue
           PROVE  /\ viewer'.queue[i] <= Len(journal)
                  /\ \A j \in DOMAIN viewer'.queue : i < j => viewer'.queue[i] < viewer'.queue[j]
        BY <1>0, <2>1, <2>2, <3>1 DEF QueueSound
      <4>1. CASE i \in DOMAIN viewer.queue
        BY <1>0, <2>1, <3>2, <3>4, <4>1 DEF QueueSound
      <4>2. CASE i = Len(viewer.queue) + 1
        BY <2>1, <2>3, <3>2, <3>3, <3>4, <4>2
      <4>. QED BY <3>2, <4>1, <4>2
    <3>6. NothingForgotten'
      <4>1. \A t : InQueue(t) \/ t = n => InQueue(t)'
        BY <3>3 DEF InQueue
      <4>. QED
        BY <1>0, <2>1, <2>2, <3>1, <4>1 DEF NothingForgotten, Seq1, Matches
    <3>7. WhkTypeOK' /\ HandlerSound'
      BY <1>0, <2>1, <3>1 DEF WhkTypeOK, HandlerSound
    <3>. QED BY <3>5, <3>6, <3>7 DEF StreamInv
  <2>5. CASE viewer' = [viewer EXCEPT !.lost = viewer.lost \cup {n}]
    <3>1. /\ viewer' \in ViewerState /\ viewer'.queue = viewer.queue
          /\ viewer'.at = viewer.at /\ viewer'.last = viewer.last
          /\ viewer'.lost = viewer.lost \cup {n}
          /\ viewer'.filter = viewer.filter /\ viewer'.gap = viewer.gap
      BY <2>1, <2>3, <2>5 DEF ViewerState
    <3>2. NothingForgotten'
      BY <1>0, <2>1, <2>2, <3>1 DEF NothingForgotten, InQueue, Seq1, Matches
    <3>. QED
      BY <1>0, <2>1, <2>2, <3>1, <3>2
      DEF StreamInv, WhkTypeOK, HandlerSound, QueueSound
  <2>. QED BY <1>6, <2>4, <2>5 DEF Send
<1>. QED BY <1>4, <1>5, <1>6

\* Of a finite set of naturals there is a greatest.
LEMMA MaxExists ==
  ASSUME NEW n \in Nat, NEW S \in SUBSET (0..n), S # {}
  PROVE  \E m \in S : \A t \in S : t <= m
<1> DEFINE T == {n - t : t \in S}
<1>1. T \subseteq Nat /\ T # {}
  <2>1. \A t \in S : n - t \in Nat
    OBVIOUS
  <2>2. PICK t \in S : n - t \in T
    OBVIOUS
  <2>. QED BY <2>1, <2>2
<1>. HIDE DEF T
<1>2. PICK x \in T : \A y \in T : ~(<<y, x>> \in OpToRel(<, Nat))
  BY <1>1, NatLessThanWellFounded, WFMin, Zenon
<1>3. \A y \in T : y < x => <<y, x>> \in OpToRel(<, Nat)
  <2>. SUFFICES ASSUME NEW y \in T, y < x
       PROVE  <<y, x>> \in {ss \in Nat \X Nat : ss[1] < ss[2]}
    BY Zenon DEF OpToRel
  <2>. QED BY <1>1
<1>4. \A y \in T : ~(y < x)
  BY <1>2, <1>3, Zenon
<1>5. PICK m \in S : x = n - m
  BY DEF T
<1>6. \A t \in S : ~(n - t < n - m)
  BY <1>4, <1>5 DEF T
<1>7. \A t \in S : t \in Int /\ m \in Int
  OBVIOUS
<1>. QED BY <1>6, <1>7

LEMMA MaxOfSound ==
  ASSUME NEW n \in Nat, NEW S \in SUBSET (0..n), NEW d \in 0..n
  PROVE  /\ MaxOf(S, d) \in S \cup {d}
         /\ \A t \in S \cup {d} : t <= MaxOf(S, d)
<1>1. \E m \in S \cup {d} : \A t \in S \cup {d} : t <= m
  <2>1. S \cup {d} \in SUBSET (0..n) /\ S \cup {d} # {}
    OBVIOUS
  <2>. QED BY <2>1, MaxExists
<1>. QED BY <1>1 DEF MaxOf

\* The catch-up takes a prefix of what there is, and all of it when the limit is
\* no smaller than the journal.
LEMMA CatchUpSound ==
  ASSUME WhkTypeOK, NEW last, NEW filter, NEW most \in Nat
  PROVE  LET found == {s \in Seq1 : s > last /\ Matches(filter, s)}
             taken == EventsAfterFilter(last, filter, most)
         IN  /\ taken \subseteq found
             /\ \A m \in taken : \A t \in found : t <= m => t \in taken
             /\ most >= Len(journal) => taken = found
<1> DEFINE found == {s \in Seq1 : s > last /\ Matches(filter, s)}
           taken == EventsAfterFilter(last, filter, most)
           upto(s) == {t \in found : t <= s}
<1>0. Len(journal) \in Nat /\ found \subseteq 1..Len(journal)
  BY DEF WhkTypeOK, Seq1
<1>1. taken = {s \in found : Cardinality(upto(s)) <= most}
  BY DEF EventsAfterFilter
<1>2. IsFiniteSet(1..Len(journal)) /\ Cardinality(1..Len(journal)) = Len(journal)
  <2>1. 1 \in Int /\ Len(journal) \in Int
    BY <1>0
  <2>2. Cardinality(1..Len(journal)) = IF 1 > Len(journal) THEN 0 ELSE Len(journal) - 1 + 1
    BY <2>1, FS_Interval
  <2>3. IsFiniteSet(1..Len(journal))
    BY <2>1, FS_Interval
  <2>4. Cardinality(1..Len(journal)) = Len(journal)
    BY <1>0, <2>2
  <2>. QED BY <2>3, <2>4
<1>. HIDE DEF found, taken
<1>3. ASSUME NEW s
      PROVE  IsFiniteSet(upto(s)) /\ Cardinality(upto(s)) \in Nat /\ Cardinality(upto(s)) <= Len(journal)
  <2>1. upto(s) \in SUBSET (1..Len(journal))
    BY <1>0
  <2>. HIDE DEF upto
  <2>2. IsFiniteSet(upto(s)) /\ Cardinality(upto(s)) <= Cardinality(1..Len(journal))
    BY <1>2, <2>1, FS_Subset
  <2>. QED BY <1>2, <2>2, FS_CardinalityType
<1>4. ASSUME NEW m \in taken, NEW t \in found, t <= m
      PROVE  t \in taken
  <2>1. upto(t) \in SUBSET upto(m)
    <3>1. m \in Int /\ t \in Int /\ \A x \in found : x \in Int
      BY <1>0, <1>1
    <3>2. \A x \in found : x <= t => x <= m
      BY <1>4, <3>1
    <3>. QED BY <3>2
  <2>2. Cardinality(upto(m)) <= most
    BY <1>1
  <2>3. /\ IsFiniteSet(upto(m)) /\ Cardinality(upto(m)) \in Nat
        /\ Cardinality(upto(t)) \in Nat
    BY <1>3
  <2>4. Cardinality(upto(t)) <= Cardinality(upto(m))
    <3>. HIDE DEF upto
    <3>. QED BY <2>1, <2>3, FS_Subset
  <2>5. Cardinality(upto(t)) <= most
    <3>. HIDE DEF upto
    <3>. QED BY <2>2, <2>3, <2>4
  <2>. QED BY <1>1, <2>5
<1>5. ASSUME most >= Len(journal), NEW s \in found
      PROVE  s \in taken
  <2>1. Cardinality(upto(s)) <= most
    <3>1. Cardinality(upto(s)) \in Nat /\ Cardinality(upto(s)) <= Len(journal)
      BY <1>3
    <3>. HIDE DEF upto
    <3>. QED BY <1>0, <1>5, <3>1
  <2>. QED BY <1>1, <2>1
<1>6. taken \subseteq found
  BY <1>1
<1>. QED BY <1>4, <1>5, <1>6 DEF found, taken

LEMMA ViewerStream ==
  ASSUME StreamInv, Viewer
  PROVE  StreamInv'
<1>0. WhkTypeOK /\ HandlerSound /\ QueueSound /\ NothingForgotten
  BY DEF StreamInv
<1>1. /\ Len(journal) \in Nat /\ Len(journal) <= MaxSeq
      /\ viewer # Off => viewer \in ViewerState
  BY <1>0 DEF WhkTypeOK
<1>2. UNCHANGED <<journal, endpoint, sweep>>
  BY DEF Viewer, AddLiveFilter, StreamStarts, HandleEventStream, FollowLive,
         CancelLive, sinkVars
<1>3. CASE AddLiveFilter
  <2>1. PICK filter \in Category \cup {None} :
          viewer' = [at |-> "subscribed", filter |-> filter, queue |-> <<>>, last |-> 0,
                     lost |-> {}, gap |-> FALSE]
    BY <1>3 DEF AddLiveFilter
  <2>2. /\ viewer' \in ViewerState /\ viewer'.at = "subscribed" /\ viewer'.queue = <<>>
        /\ viewer'.gap = FALSE
    BY <2>1 DEF ViewerState
  <2>3. viewer = Off /\ handler' = handler
    BY <1>1, <1>3 DEF AddLiveFilter, ViewerState
  <2>4. handler # None => handler.chan # "open"
    BY <1>0, <2>3 DEF HandlerSound
  <2>. QED
    BY <1>0, <1>2, <2>2, <2>3, <2>4
    DEF StreamInv, WhkTypeOK, HandlerSound, QueueSound, NothingForgotten
<1>4. CASE StreamStarts
  <2>1. PICK last \in Seq1 \cup {0, IF Len(journal) > CatchUp THEN Len(journal) - CatchUp ELSE 0} :
          viewer' = [viewer EXCEPT !.at = "started", !.last = last]
    BY <1>4 DEF StreamStarts
  <2>2. last \in Nat
    BY <1>1, DeliveryAssumption DEF Seq1
  <2>3. viewer \in ViewerState /\ viewer # Off /\ handler' = handler
    BY <1>1, <1>4, OffIsNoViewer DEF StreamStarts, Off
  <2>4. /\ viewer' \in ViewerState /\ viewer'.at = "started" /\ viewer'.queue = viewer.queue
        /\ viewer'.gap = viewer.gap /\ viewer'.filter = viewer.filter
    BY <2>1, <2>2, <2>3 DEF ViewerState
  <2>. QED
    BY <1>0, <1>2, <2>3, <2>4, OffIsNoViewer
    DEF StreamInv, WhkTypeOK, HandlerSound, QueueSound, NothingForgotten, InHand, Matches
<1>5. CASE HandleEventStream
  <2>0. PICK caught \in {EventsAfterFilter(viewer.last, viewer.filter, CatchUp), {}} :
          LET beyond == EventsAfterFilter(viewer.last, viewer.filter, MaxSeq) \ caught
              queued == {viewer.queue[i] : i \in DOMAIN viewer.queue}
          IN  viewer' = [viewer EXCEPT !.at = "live", !.last = MaxOf(caught, viewer.last),
                           !.lost = viewer.lost \cup (beyond \ queued),
                           !.gap = Skips(viewer, MaxOf(caught, viewer.last), caught)]
    BY <1>5 DEF HandleEventStream
  <2> DEFINE found == {s \in Seq1 : s > viewer.last /\ Matches(viewer.filter, s)}
             all == EventsAfterFilter(viewer.last, viewer.filter, MaxSeq)
             queued == {viewer.queue[i] : i \in DOMAIN viewer.queue}
             m == MaxOf(caught, viewer.last)
             skips == Skips(viewer, m, caught)
  <2>1. viewer \in ViewerState /\ viewer # Off /\ handler' = handler
    BY <1>1, <1>5, OffIsNoViewer DEF HandleEventStream, Off
  <2>2. viewer.last \in Nat /\ viewer.lost \in SUBSET Nat
    BY <2>1 DEF ViewerState
  <2>3. /\ caught \subseteq found
        /\ \A x \in caught : \A t \in found : t <= x => t \in caught
    BY <1>0, CatchUpSound, DeliveryAssumption
  <2>4. all = found
    BY <1>0, <1>1, CatchUpSound, DeliveryAssumption
  <2>5. viewer' = [viewer EXCEPT !.at = "live", !.last = m,
                     !.lost = viewer.lost \cup ((all \ caught) \ queued), !.gap = skips]
    BY <2>0
  <2>6. PICK n \in Nat : found \subseteq 0..n /\ viewer.last \in 0..n
    <3>1. \E n \in Nat : Len(journal) <= n /\ viewer.last <= n
      BY <1>1, <2>2
    <3>. QED BY <1>1, <2>2, <3>1 DEF Seq1
  <2>7. m \in caught \cup {viewer.last} /\ m \in Nat /\ \A t \in caught \cup {viewer.last} : t <= m
    <3>1. caught \in SUBSET (0..n)
      <4>. HIDE DEF found
      <4>. QED BY <2>3, <2>6, Zenon
    <3>2. viewer.last \in 0..n
      BY <2>6
    <3>3. m \in caught \cup {viewer.last} /\ \A t \in caught \cup {viewer.last} : t <= m
      BY <3>1, <3>2, MaxOfSound
    <3>4. caught \cup {viewer.last} \subseteq Nat
      <4>1. 0..n \subseteq Nat
        OBVIOUS
      <4>. HIDE DEF found, all, queued, skips, m
      <4>. QED BY <3>1, <2>2, <4>1, Zenon
    <3>. HIDE DEF m
    <3>. QED BY <3>3, <3>4
  <2>8. found \subseteq Nat
    BY <1>1 DEF Seq1
  <2>. HIDE DEF found, all, m, skips
  <2>9. skips = FALSE
    <3>1. ASSUME NEW t \in viewer.last + 1 .. m - 1, Matches(viewer.filter, t), t \notin caught
          PROVE  FALSE
      <4>1. m \in caught /\ m \in found
        BY <2>2, <2>3, <2>7
      <4>2. t \in found
        BY <1>1, <2>2, <2>7, <3>1, <4>1 DEF found, Seq1
      <4>. QED BY <2>2, <2>3, <2>7, <3>1, <4>1, <4>2
    <3>. QED BY <3>1 DEF skips, Skips
  <2>10. viewer.lost \cup ((all \ caught) \ queued) \in SUBSET Nat
    BY <2>2, <2>4, <2>8
  <2>11. /\ viewer' \in ViewerState /\ viewer'.at = "live" /\ viewer'.queue = viewer.queue
         /\ viewer'.last = m /\ viewer'.filter = viewer.filter /\ viewer'.gap = FALSE
         /\ viewer'.lost = viewer.lost \cup ((all \ caught) \ queued)
    <3>. HIDE DEF queued
    <3>. QED BY <2>1, <2>5, <2>7, <2>9, <2>10 DEF ViewerState
  <2>12. NothingForgotten'
    <3>. SUFFICES ASSUME NEW t \in Seq1, t > m, Matches(viewer.filter, t)
         PROVE  InQueue(t) \/ t \in viewer'.lost
      BY <1>2, <2>11 DEF NothingForgotten, InQueue, Seq1, Matches
    <3>1. t \in found
      <4>1. viewer.last <= m
        BY <2>7
      <4>2. t \in Nat
        BY <1>1 DEF Seq1
      <4>3. t > viewer.last
        BY <2>2, <2>7, <4>1, <4>2
      <4>. QED BY <4>3 DEF found
    <3>2. t \notin caught
      BY <1>1, <2>7 DEF Seq1
    <3>3. t \in queued => InQueue(t)
      BY DEF InQueue
    <3>. QED BY <2>4, <2>11, <3>1, <3>2, <3>3
  <2>. QED
    BY <1>0, <1>2, <2>1, <2>11, <2>12, OffIsNoViewer
    DEF StreamInv, WhkTypeOK, HandlerSound, QueueSound, InHand, Matches
<1>6. CASE FollowLive
  <2> DEFINE s == Head(viewer.queue)
             v == WriteSSE(viewer, s)
  <2>1. viewer \in ViewerState /\ viewer # Off /\ handler' = handler /\ viewer.at = "live"
    BY <1>1, <1>6, OffIsNoViewer DEF FollowLive, Off
  <2>2. viewer.queue \in Seq(Nat) /\ viewer.last \in Nat /\ viewer.queue # <<>>
    BY <1>6, <2>1 DEF FollowLive, ViewerState
  <2>3. /\ s \in Nat /\ s = viewer.queue[1] /\ 1 \in DOMAIN viewer.queue
        /\ Tail(viewer.queue) \in Seq(Nat)
        /\ \A i \in DOMAIN Tail(viewer.queue) :
             i \in Nat /\ i + 1 \in DOMAIN viewer.queue /\ Tail(viewer.queue)[i] = viewer.queue[i + 1]
        /\ \A i \in DOMAIN viewer.queue : i \in Nat /\ i >= 1 /\
             (i # 1 => i - 1 \in DOMAIN Tail(viewer.queue) /\ Tail(viewer.queue)[i - 1] = viewer.queue[i])
    <3>1. Len(viewer.queue) \in Nat \ {0} /\ DOMAIN viewer.queue = 1..Len(viewer.queue)
      BY <2>2
    <3>2. /\ Tail(viewer.queue) \in Seq(Nat) /\ Len(Tail(viewer.queue)) = Len(viewer.queue) - 1
          /\ DOMAIN Tail(viewer.queue) = 1..(Len(viewer.queue) - 1)
      BY <2>2, <3>1
    <3>3. \A i \in 1..(Len(viewer.queue) - 1) : Tail(viewer.queue)[i] = viewer.queue[i + 1]
      BY <2>2, <3>1
    <3>4. s = viewer.queue[1] /\ s \in Nat
      BY <2>2, <3>1
    <3>5. ASSUME NEW i \in DOMAIN viewer.queue, i # 1
          PROVE  i - 1 \in DOMAIN Tail(viewer.queue) /\ Tail(viewer.queue)[i - 1] = viewer.queue[i]
      <4>1. i - 1 \in 1..(Len(viewer.queue) - 1) /\ (i - 1) + 1 = i
        BY <3>1, <3>5
      <4>. QED BY <3>2, <3>3, <4>1
    <3>6. \A i \in DOMAIN Tail(viewer.queue) :
            i \in Nat /\ i + 1 \in DOMAIN viewer.queue /\ Tail(viewer.queue)[i] = viewer.queue[i + 1]
      <4>1. \A i \in 1..(Len(viewer.queue) - 1) : i \in Nat /\ i + 1 \in 1..Len(viewer.queue)
        BY <3>1
      <4>. QED BY <3>1, <3>2, <3>3, <4>1
    <3>7. 1 \in DOMAIN viewer.queue /\ \A i \in DOMAIN viewer.queue : i \in Nat /\ i >= 1
      BY <3>1
    <3>. QED BY <3>2, <3>4, <3>5, <3>6, <3>7
  <2>. HIDE DEF s
  <2>4. \A i \in DOMAIN viewer.queue : viewer.queue[i] \in Nat /\ viewer.queue[i] >= s
    <3>. SUFFICES ASSUME NEW i \in DOMAIN viewer.queue
         PROVE  viewer.queue[i] \in Nat /\ viewer.queue[i] >= s
      OBVIOUS
    <3>1. viewer.queue[i] \in Nat
      BY <2>2
    <3>2. i # 1 => 1 < i
      BY <2>3
    <3>. QED BY <1>0, <2>1, <2>3, <3>1, <3>2 DEF QueueSound
  <2>5. s <= Len(journal)
    BY <1>0, <2>1, <2>3 DEF QueueSound
  <2>6. ASSUME s > viewer.last
        PROVE  ~Skips(viewer, s, {})
    <3>. SUFFICES ASSUME NEW t \in viewer.last + 1 .. s - 1, Matches(viewer.filter, t), t \notin viewer.lost
         PROVE  FALSE
      BY DEF Skips
    <3>1. t \in Seq1 /\ t > viewer.last /\ t < s
      BY <1>1, <2>2, <2>3, <2>5 DEF Seq1
    <3>2. InQueue(t) \/ InHand(t)
      BY <1>0, <2>1, <3>1 DEF NothingForgotten
    <3>3. ~InQueue(t)
      BY <1>1, <2>3, <2>4, <3>1 DEF InQueue, Seq1
    <3>4. ~InHand(t)
      BY <1>0, <1>1, <2>3, <2>5, <3>1 DEF InHand, HandlerSound, Seq1
    <3>. QED BY <3>2, <3>3, <3>4
  <2>7. /\ v \in ViewerState /\ v.at = "live" /\ v.filter = viewer.filter /\ v.lost = viewer.lost
        /\ v.queue = viewer.queue /\ v.gap = viewer.gap
        /\ v.last = IF s <= viewer.last THEN viewer.last ELSE s
    <3>1. CASE s <= viewer.last
      BY <2>1, <3>1 DEF WriteSSE
    <3>2. CASE ~(s <= viewer.last)
      <4>1. ~Skips(viewer, s, {}) /\ viewer.gap = FALSE
        BY <1>0, <2>1, <2>2, <2>3, <2>6, <3>2 DEF QueueSound
      <4>2. v = [viewer EXCEPT !.last = s, !.gap = FALSE]
        BY <3>2, <4>1 DEF WriteSSE
      <4>. HIDE DEF v
      <4>. QED BY <2>1, <2>3, <3>2, <4>1, <4>2 DEF ViewerState
    <3>. QED BY <3>1, <3>2
  <2>8. viewer' = [v EXCEPT !.queue = Tail(v.queue)]
    BY <1>6 DEF FollowLive, s
  <2>. HIDE DEF v
  <2>9. /\ viewer' \in ViewerState /\ viewer'.at = "live" /\ viewer'.filter = viewer.filter
        /\ viewer'.lost = viewer.lost /\ viewer'.queue = Tail(viewer.queue) /\ viewer'.gap = viewer.gap
        /\ viewer'.last = v.last
    BY <2>3, <2>7, <2>8 DEF ViewerState
  <2>10. QueueSound'
    <3>. SUFFICES ASSUME NEW i \in DOMAIN viewer'.queue
         PROVE  /\ viewer'.queue[i] <= Len(journal) /\ ~InHand(viewer'.queue[i])
                /\ \A j \in DOMAIN viewer'.queue : i < j => viewer'.queue[i] < viewer'.queue[j]
      BY <1>0, <1>2, <2>1, <2>9 DEF QueueSound, InHand
    <3>. QED BY <1>0, <2>1, <2>3, <2>9 DEF QueueSound
  <2>11. NothingForgotten'
    <3>. SUFFICES ASSUME NEW t \in Seq1, t > viewer'.last, Matches(viewer.filter, t)
         PROVE  InQueue(t)' \/ t \in viewer.lost \/ InHand(t)
      BY <1>2, <2>1, <2>9 DEF NothingForgotten, InHand, Seq1, Matches
    <3>1. t > viewer.last /\ t # s /\ t \in Nat
      BY <1>1, <2>2, <2>3, <2>7, <2>9 DEF Seq1
    <3>2. ASSUME InQueue(t)
          PROVE  InQueue(t)'
      <4>1. PICK i \in DOMAIN viewer.queue : viewer.queue[i] = t
        BY <3>2 DEF InQueue
      <4>2. i # 1
        BY <2>3, <3>1, <4>1
      <4>3. i - 1 \in DOMAIN viewer'.queue /\ viewer'.queue[i - 1] = t
        BY <2>3, <2>9, <4>1, <4>2
      <4>. QED BY <4>3 DEF InQueue
    <3>. QED BY <1>0, <2>1, <3>1, <3>2 DEF NothingForgotten
  <2>. QED
    BY <1>0, <1>2, <2>1, <2>9, <2>10, <2>11, OffIsNoViewer
    DEF StreamInv, WhkTypeOK, HandlerSound, Matches
<1>7. CASE CancelLive
  <2>1. viewer' = Off
    BY <1>7 DEF CancelLive
  <2>2. CASE handler # None /\ handler.chan = "open"
    <3>1. handler' = [handler EXCEPT !.chan = "closed"] /\ handler \in HandlerState
      BY <1>0, <1>7, <2>2 DEF CancelLive, WhkTypeOK
    <3>2. handler' \in HandlerState /\ handler'.seq = handler.seq /\ handler'.chan = "closed"
      BY <3>1 DEF HandlerState
    <3>. QED
      BY <1>0, <1>2, <2>1, <2>2, <3>2
      DEF StreamInv, WhkTypeOK, HandlerSound, QueueSound, NothingForgotten
  <2>3. CASE ~(handler # None /\ handler.chan = "open")
    BY <1>0, <1>2, <1>7, <2>1, <2>3
    DEF CancelLive, StreamInv, WhkTypeOK, HandlerSound, QueueSound, NothingForgotten
  <2>. QED BY <2>2, <2>3
<1>. QED BY <1>3, <1>4, <1>5, <1>6, <1>7 DEF Viewer

-----------------------------------------------------------------------------
(* Together.                                                               *)

WhkInv == CursorInv /\ StreamInv

LEMMA InitInv ==
  ASSUME WhkInit
  PROVE  WhkInv
<1>1. WhkTypeOK
  BY DeliveryAssumption DEF WhkInit, WhkTypeOK
<1>2. SweepSound /\ NoneSkipped
  BY DEF WhkInit, SweepSound, NoneSkipped
<1>3. HandlerSound /\ QueueSound /\ NothingForgotten
  BY DEF WhkInit, HandlerSound, QueueSound, NothingForgotten
<1>. QED BY <1>1, <1>2, <1>3 DEF WhkInv, CursorInv, StreamInv

\* Each side of the invariant is kept by its own actors, and the other side's
\* leave it alone.
LEMMA NextInv ==
  ASSUME WhkInv, [WhkNext]_whkVars
  PROVE  WhkInv'
<1>0. CursorInv /\ StreamInv
  BY DEF WhkInv
<1>1. ASSUME StreamInv', UNCHANGED <<endpoint, received, excused>>, sweep' \in {sweep, None}
      PROVE  WhkInv'
  BY <1>0, <1>1, AsideCursor DEF WhkInv, StreamInv
<1>2. ASSUME CursorInv', UNCHANGED <<journal, handler, viewer>>
      PROVE  WhkInv'
  BY <1>0, <1>2, AsideStream DEF WhkInv, CursorInv
<1>3. CASE (\E c \in Category : AppendEvent(c)) \/ Broadcast \/ Send
  <2>1. StreamInv'
    BY <1>0, <1>3, HandlerStream
  <2>2. UNCHANGED <<endpoint, received, excused, sweep>>
    BY <1>3 DEF AppendEvent, Broadcast, Send, sinkVars
  <2>. QED BY <1>1, <2>1, <2>2
<1>4. CASE SendPanics \/ Restart
  <2>1. Crash /\ UNCHANGED <<journal, endpoint, received, excused>>
    BY <1>4 DEF SendPanics, Restart
  <2>2. StreamInv'
    BY <1>0, <2>1, CrashStream
  <2>3. sweep' = None
    BY <2>1 DEF Crash
  <2>. QED BY <1>1, <2>1, <2>2, <2>3
<1>5. CASE Operator
  <2>1. CursorInv'
    BY <1>0, <1>5, OperatorCursor
  <2>2. UNCHANGED <<journal, handler, viewer>>
    BY <1>5 DEF Operator, HandleWebhooks, HandleWebhookSub, HandleWebhookReplay
  <2>. QED BY <1>2, <2>1, <2>2
<1>6. CASE Sweeper \/ BackoffEnds
  <2>1. CursorInv'
    BY <1>0, <1>6, SweeperCursor
  <2>2. UNCHANGED <<journal, handler, viewer>>
    BY <1>6 DEF Sweeper, Sweep, SweepEndpoint, Deliver, Advance, RecordAttempt, BackoffEnds
  <2>. QED BY <1>2, <2>1, <2>2
<1>7. CASE Viewer
  <2>1. StreamInv'
    BY <1>0, <1>7, ViewerStream
  <2>2. UNCHANGED <<endpoint, received, excused, sweep>>
    BY <1>7 DEF Viewer, AddLiveFilter, StreamStarts, HandleEventStream, FollowLive,
                CancelLive, sinkVars
  <2>. QED BY <1>1, <2>1, <2>2
<1>8. CASE UNCHANGED whkVars
  <2>1. UNCHANGED <<journal, handler, viewer, endpoint, sweep, received, excused>>
    BY <1>8 DEF whkVars, sinkVars
  <2>2. WhkTypeOK'
    BY <1>0, <2>1 DEF CursorInv, WhkTypeOK
  <2>3. StreamInv'
    BY <1>0, <2>1, <2>2, AsideStream
  <2>. QED BY <1>1, <2>1, <2>3
<1>. QED
  BY <1>3, <1>4, <1>5, <1>6, <1>7, <1>8 DEF WhkNext, BusHandler

LEMMA InvHolds == WhkSpec => []WhkInv
<1>1. WhkInit => WhkInv
  BY InitInv
<1>2. WhkInv /\ [WhkNext]_whkVars => WhkInv'
  BY NextInv
<1>. QED BY <1>1, <1>2, PTL DEF WhkSpec

\* The types of the journal, the row, the sweep, the handler and the viewer,
\* whatever the operator, the receiver and the restarts do.
THEOREM WebhookTypeCorrect == WhkSpec => []WhkTypeOK
<1>1. WhkInv => WhkTypeOK
  BY DEF WhkInv, CursorInv
<1>. QED BY <1>1, InvHolds, PTL

\* sweepEndpoint, AdvanceCursor and SetCursor: no event is passed over unsent,
\* for any interleaving of the sweep with edits, replays, deletions and crashes.
THEOREM NothingSkipped == WhkSpec => []NoneSkipped
<1>1. WhkInv => NoneSkipped
  BY DEF WhkInv, CursorInv
<1>. QED BY <1>1, InvHolds, PTL

\* handleEventStream and Broadcast: going over from the journal to the channel
\* reorders nothing and loses only what was dropped at a full channel, lay beyond
\* the catch-up limit or was not read by a failing query, whatever the sizes are.
THEOREM StreamIsWhole == WhkSpec => []StreamHasNoGap
<1>1. WhkInv => StreamHasNoGap
  BY DEF WhkInv, StreamInv, QueueSound, WhkTypeOK, StreamHasNoGap, Subscribed, Off
<1>. QED BY <1>1, InvHolds, PTL

-----------------------------------------------------------------------------
(* FirstRun.                                                               *)

MailRow == [host : BOOLEAN, port : Int, password : Req \cup {NoReq}]
JobAt == {"idle", "over", "check", "count", "reissue", "refresh", "persist", "complete",
          "save", "verify", "update", "send"}
JobRow == [at : JobAt, admin : Admin, smtp : MailRow, said : Int]
SetupRow == [done : BOOLEAN, org : Req \cup {NoReq}, smtp : MailRow,
             admins : [Admin -> Req \cup {NoReq}]]

FirstTypeOK ==
  /\ stored \in SetupRow
  /\ root \in Req \cup {NoReq} /\ issuer \in Req \cup {NoReq}
  /\ job \in [Req -> JobRow] /\ overlapped \in BOOLEAN

\* The issuer signs under the current root, but for the moment before the refresh.
IssuerFollows == (\A r \in Req : job[r].at # "refresh") => issuer = root

\* One wizard at a time, and none once setup is done.
WizardAlone ==
  /\ \A r, s \in Req : InWizard(r) /\ InWizard(s) => r = s
  /\ stored.done => \A r \in Req : ~InWizard(r)

\* The wizard that has re-issued the root finds its own.
RootIsOwn == \A r \in Req : job[r].at \in {"refresh", "persist"} => root = r

\* What is done is whole.
DoneIsWhole ==
  /\ stored.done => root = stored.org
  /\ \A r \in Req : job[r].at = "complete" =>
       stored.done /\ stored.org = r /\ stored.admins[job[r].admin] # NoReq

FirstInv ==
  /\ FirstTypeOK /\ IssuerFollows
  /\ ~overlapped => WizardAlone /\ RootIsOwn /\ DoneIsWhole

LEMMA FirstInvInit == FirstInit => FirstInv
<1> SUFFICES ASSUME FirstInit PROVE FirstInv
  OBVIOUS
<1>1. Unconfigured \in MailRow
  BY DEF Unconfigured, MailRow
<1>2. job = [r \in Req |-> [at |-> "idle", admin |-> EnvAdmin, smtp |-> Unconfigured, said |-> 0]]
  BY DEF FirstInit
<1>3. [at |-> "idle", admin |-> EnvAdmin, smtp |-> Unconfigured, said |-> 0] \in JobRow
  BY <1>1, FirstRunAssumption DEF JobRow, JobAt
<1>4. job \in [Req -> JobRow] /\ \A r \in Req : job[r].at = "idle"
  BY <1>2, <1>3
<1>5. [a \in Admin |-> NoReq] \in [Admin -> Req \cup {NoReq}]
  OBVIOUS
<1>6. stored \in SetupRow /\ ~stored.done
  BY <1>1, <1>5 DEF FirstInit, SetupRow
<1>7. FirstTypeOK
  BY <1>4, <1>6 DEF FirstInit, FirstTypeOK
<1>. QED
  BY <1>4, <1>6, <1>7
  DEF FirstInit, FirstInv, IssuerFollows, WizardAlone, RootIsOwn, DoneIsWhole, InWizard

\* The first administrator is one.
LEMMA CurrentIsAdmin == FirstTypeOK => CurrentUsername \in Admin
<1>1. AdminUsernames \subseteq Admin
  BY DEF AdminUsernames
<1>2. CASE stored.done /\ AdminUsernames # {}
  <2>1. \E a \in AdminUsernames : \A b \in AdminUsernames : a <= b
    BY <1>1, <1>2, FirstRunAssumption
  <2>2. CurrentUsername \in AdminUsernames
    BY <1>2, <2>1 DEF CurrentUsername
  <2>. QED BY <1>1, <2>2
<1>3. CASE ~(stored.done /\ AdminUsernames # {})
  BY <1>3, FirstRunAssumption DEF CurrentUsername
<1>. QED BY <1>2, <1>3

\* A handler that moves on outside the wizard, or leaves it, and at most
\* stores settings or a password.
LEMMA OutsideStep ==
  ASSUME FirstInv, NEW r \in Req, NEW j \in JobRow,
         job' = [job EXCEPT ![r] = j],
         j.at \notin {"count", "reissue", "refresh", "persist", "complete"},
         job[r].at \notin {"refresh", "complete"},
         stored' \in SetupRow, stored'.done = stored.done, stored'.org = stored.org,
         \A a \in Admin : stored.admins[a] # NoReq => stored'.admins[a] # NoReq,
         UNCHANGED <<root, issuer, overlapped>>
  PROVE  FirstInv'
<1>1. job' \in [Req -> JobRow] /\ \A s \in Req : job'[s] = IF s = r THEN j ELSE job[s]
  BY DEF FirstInv, FirstTypeOK
<1>2. FirstTypeOK'
  BY <1>1 DEF FirstInv, FirstTypeOK
<1>3. IssuerFollows'
  BY <1>1 DEF FirstInv, IssuerFollows
<1>4. \A s \in Req : job[s].admin \in Admin
  BY DEF FirstInv, FirstTypeOK, JobRow
<1>5. ASSUME ~overlapped PROVE WizardAlone' /\ RootIsOwn' /\ DoneIsWhole'
  <2>1. WizardAlone'
    BY <1>1, <1>5 DEF FirstInv, WizardAlone, InWizard
  <2>2. RootIsOwn'
    BY <1>1, <1>5 DEF FirstInv, RootIsOwn
  <2>3. DoneIsWhole'
    BY <1>1, <1>4, <1>5 DEF FirstInv, DoneIsWhole
  <2>. QED BY <2>1, <2>2, <2>3
<1>. QED BY <1>2, <1>3, <1>5 DEF FirstInv

\* A handler that goes from p to q, as a record.
LEMMA ReachStep ==
  ASSUME FirstTypeOK, NEW r \in Req, NEW p, NEW q \in JobAt, Reach(r, p, q)
  PROVE  /\ job[r].at = p
         /\ \E j \in JobRow : /\ job' = [job EXCEPT ![r] = j] /\ j.at = q
                              /\ j.admin = job[r].admin
<1>1. job[r] \in JobRow
  BY DEF FirstTypeOK
<1>2. [job[r] EXCEPT !.at = q] \in JobRow
  BY <1>1 DEF JobRow
<1>. QED BY <1>1, <1>2 DEF Reach, JobRow

\* Mail settings stay settings.
LEMMA NormalSound == \A c \in MailRow : Normalize(c) \in MailRow
BY DEF Normalize, MailRow

LEMMA StartWizardInv ==
  ASSUME FirstInv, NEW r \in Req, StartWizard(r)
  PROVE  FirstInv'
<1>1. PICK a \in Admin, c \in Mail :
        job' = [job EXCEPT ![r] = [@ EXCEPT !.admin = a, !.smtp = Normalize(c),
                                            !.at = IF ValidMail(c) THEN "check" ELSE "over"]]
  BY DEF StartWizard
<1> DEFINE j == [job[r] EXCEPT !.admin = a, !.smtp = Normalize(c),
                               !.at = IF ValidMail(c) THEN "check" ELSE "over"]
<1>2. job[r] \in JobRow /\ stored \in SetupRow
  BY DEF FirstInv, FirstTypeOK
<1>3. Normalize(c) \in MailRow
  BY NormalSound, FirstRunAssumption DEF MailRow
<1>4. j \in JobRow /\ j.at \in {"check", "over"}
  BY <1>2, <1>3 DEF JobRow, JobAt
<1>5. job' = [job EXCEPT ![r] = j]
  BY <1>1
<1> HIDE DEF j
<1>6. job[r].at = "idle" /\ stored' = stored /\ UNCHANGED <<root, issuer, overlapped>>
  BY DEF StartWizard, tables
<1>. QED BY <1>2, <1>4, <1>5, <1>6, OutsideStep

\* The check of done: whoever passes it is alone, or overlaps.
LEMMA CheckDoneInv ==
  ASSUME FirstInv, NEW r \in Req, CheckDone(r)
  PROVE  FirstInv'
<1>1. UNCHANGED <<stored, root, issuer>> /\ stored \in SetupRow
  BY DEF CheckDone, tables, FirstInv, FirstTypeOK
<1>2. CASE Reach(r, "check", "over")
  <2>1. "over" \in JobAt
    BY DEF JobAt
  <2>2. PICK j \in JobRow : job' = [job EXCEPT ![r] = j] /\ j.at = "over"
    BY <1>2, <2>1, ReachStep DEF FirstInv
  <2>3. job[r].at = "check" /\ job'[r].at = "over"
    BY <1>2, <2>2 DEF Reach, FirstInv, FirstTypeOK
  <2>4. overlapped' = overlapped
    BY <2>3, Zenon DEF CheckDone, FirstInv, FirstTypeOK
  <2>. QED BY <1>1, <2>2, <2>3, <2>4, OutsideStep
<1>3. CASE ~stored.done /\ Reach(r, "check", "count")
  <2>1. "count" \in JobAt
    BY DEF JobAt
  <2>2. PICK j \in JobRow : job' = [job EXCEPT ![r] = j] /\ j.at = "count"
    BY <1>3, <2>1, ReachStep DEF FirstInv
  <2>3. job' \in [Req -> JobRow] /\ \A s \in Req : job'[s] = IF s = r THEN j ELSE job[s]
    BY <2>2 DEF FirstInv, FirstTypeOK
  <2>4. overlapped' <=> overlapped \/ \E s \in Req \ {r} : InWizard(s)
    BY <2>2, <2>3, Zenon DEF CheckDone
  <2>5. overlapped' \in BOOLEAN
    BY Zenon DEF CheckDone
  <2>6. FirstTypeOK'
    BY <1>1, <2>3, <2>5, Zenon DEF FirstInv, FirstTypeOK
  <2>7. job[r].at = "check"
    BY <1>3 DEF Reach
  <2>8. IssuerFollows'
    BY <1>1, <2>2, <2>3, <2>7 DEF FirstInv, IssuerFollows
  <2>9. ASSUME ~overlapped' PROVE WizardAlone' /\ RootIsOwn' /\ DoneIsWhole'
    <3>1. ~overlapped /\ \A s \in Req \ {r} : ~InWizard(s)
      BY <2>4, <2>9
    <3>2. \A s \in Req \ {r} : ~InWizard(s)'
      BY <2>3, <3>1 DEF InWizard
    <3>3. WizardAlone'
      BY <1>1, <1>3, <3>2 DEF WizardAlone
    <3>4. RootIsOwn' /\ DoneIsWhole'
      BY <1>1, <2>2, <2>3, <2>7, <3>1 DEF FirstInv, RootIsOwn, DoneIsWhole
    <3>. QED BY <3>3, <3>4
  <2>. QED BY <2>6, <2>8, <2>9 DEF FirstInv
<1>. QED BY <1>2, <1>3 DEF CheckDone

LEMMA CheckDevicesInv ==
  ASSUME FirstInv, NEW r \in Req, CheckDevices(r)
  PROVE  FirstInv'
<1>1. UNCHANGED <<stored, root, issuer, overlapped>> /\ stored \in SetupRow
  BY DEF CheckDevices, tables, FirstInv, FirstTypeOK
<1>2. CASE Reach(r, "count", "over")
  <2>1. "over" \in JobAt
    BY DEF JobAt
  <2>2. PICK j \in JobRow : job' = [job EXCEPT ![r] = j] /\ j.at = "over"
    BY <1>2, <2>1, ReachStep DEF FirstInv
  <2>. QED BY <1>1, <1>2, <2>2, OutsideStep DEF Reach
<1>3. CASE Reach(r, "count", "reissue")
  <2>1. "reissue" \in JobAt
    BY DEF JobAt
  <2>2. PICK j \in JobRow : job' = [job EXCEPT ![r] = j] /\ j.at = "reissue"
    BY <1>3, <2>1, ReachStep DEF FirstInv
  <2>3. job' \in [Req -> JobRow] /\ \A s \in Req : job'[s] = IF s = r THEN j ELSE job[s]
    BY <2>2 DEF FirstInv, FirstTypeOK
  <2>4. job[r].at = "count"
    BY <1>3 DEF Reach
  <2>5. FirstTypeOK'
    BY <1>1, <2>3 DEF FirstInv, FirstTypeOK
  <2>6. IssuerFollows'
    BY <1>1, <2>2, <2>3, <2>4 DEF FirstInv, IssuerFollows
  <2>7. \A s \in Req : InWizard(s)' <=> InWizard(s)
    BY <2>2, <2>3, <2>4 DEF InWizard
  <2>8. ~overlapped => WizardAlone'
    BY <1>1, <2>7 DEF FirstInv, WizardAlone
  <2>9. ~overlapped => RootIsOwn' /\ DoneIsWhole'
    BY <1>1, <2>2, <2>3, <2>4 DEF FirstInv, RootIsOwn, DoneIsWhole
  <2>. QED BY <1>1, <2>5, <2>6, <2>8, <2>9 DEF FirstInv
<1>. QED BY <1>2, <1>3 DEF CheckDevices

\* The root is replaced by the one wizard there is.
LEMMA CompleteReissueInv ==
  ASSUME FirstInv, NEW r \in Req, CompleteReissue(r)
  PROVE  FirstInv'
<1>1. UNCHANGED <<stored, issuer, overlapped>> /\ stored \in SetupRow
  BY DEF CompleteReissue, FirstInv, FirstTypeOK
<1>2. CASE Reach(r, "reissue", "over") /\ UNCHANGED root
  <2>1. "over" \in JobAt
    BY DEF JobAt
  <2>2. PICK j \in JobRow : job' = [job EXCEPT ![r] = j] /\ j.at = "over"
    BY <1>2, <2>1, ReachStep DEF FirstInv
  <2>. QED BY <1>1, <1>2, <2>2, OutsideStep DEF Reach
<1>3. CASE Reach(r, "reissue", "refresh") /\ root' = r
  <2>1. "refresh" \in JobAt
    BY DEF JobAt
  <2>2. PICK j \in JobRow : job' = [job EXCEPT ![r] = j] /\ j.at = "refresh"
    BY <1>3, <2>1, ReachStep DEF FirstInv
  <2>3. job' \in [Req -> JobRow] /\ \A s \in Req : job'[s] = IF s = r THEN j ELSE job[s]
    BY <2>2 DEF FirstInv, FirstTypeOK
  <2>4. job[r].at = "reissue" /\ root' = r
    BY <1>3 DEF Reach
  <2>5. FirstTypeOK'
    BY <1>1, <2>3, <2>4 DEF FirstInv, FirstTypeOK
  <2>6. IssuerFollows'
    BY <2>2, <2>3 DEF IssuerFollows
  <2>7. \A s \in Req : InWizard(s)' <=> InWizard(s)
    BY <2>2, <2>3, <2>4 DEF InWizard
  <2>8. ASSUME ~overlapped PROVE WizardAlone' /\ RootIsOwn' /\ DoneIsWhole'
    <3>1. WizardAlone /\ InWizard(r)
      BY <2>4, <2>8 DEF FirstInv, InWizard
    <3>2. ~stored.done
      BY <3>1 DEF WizardAlone
    <3>3. WizardAlone'
      BY <1>1, <2>7, <3>1 DEF WizardAlone
    <3>4. RootIsOwn'
      BY <2>3, <2>4, <3>1 DEF RootIsOwn, WizardAlone, InWizard
    <3>5. DoneIsWhole'
      BY <1>1, <2>2, <2>3, <2>8, <3>2 DEF FirstInv, DoneIsWhole
    <3>. QED BY <3>3, <3>4, <3>5
  <2>. QED BY <1>1, <2>5, <2>6, <2>8 DEF FirstInv
<1>. QED BY <1>2, <1>3 DEF CompleteReissue

LEMMA RefreshIssuerInv ==
  ASSUME FirstInv, NEW r \in Req, RefreshIssuer(r)
  PROVE  FirstInv'
<1>1. UNCHANGED <<stored, root, overlapped>> /\ stored \in SetupRow /\ issuer' = root
      /\ Reach(r, "refresh", "persist")
  BY DEF RefreshIssuer, FirstInv, FirstTypeOK
<1>2. "persist" \in JobAt
  BY DEF JobAt
<1>3. PICK j \in JobRow : job' = [job EXCEPT ![r] = j] /\ j.at = "persist"
  BY <1>1, <1>2, ReachStep DEF FirstInv
<1>4. job' \in [Req -> JobRow] /\ \A s \in Req : job'[s] = IF s = r THEN j ELSE job[s]
  BY <1>3 DEF FirstInv, FirstTypeOK
<1>5. job[r].at = "refresh"
  BY <1>1 DEF Reach
<1>6. FirstTypeOK'
  BY <1>1, <1>4 DEF FirstInv, FirstTypeOK
<1>7. IssuerFollows'
  BY <1>1 DEF IssuerFollows
<1>8. \A s \in Req : InWizard(s)' <=> InWizard(s)
  BY <1>3, <1>4, <1>5 DEF InWizard
<1>9. ~overlapped => WizardAlone'
  BY <1>1, <1>8 DEF FirstInv, WizardAlone
<1>10. ~overlapped => RootIsOwn' /\ DoneIsWhole'
  BY <1>1, <1>3, <1>4, <1>5 DEF FirstInv, RootIsOwn, DoneIsWhole
<1>. QED BY <1>1, <1>6, <1>7, <1>9, <1>10 DEF FirstInv

\* The rest is stored by the wizard whose root it is.
LEMMA CompleteStoreInv ==
  ASSUME FirstInv, NEW r \in Req, CompleteStore(r)
  PROVE  FirstInv'
<1>1. UNCHANGED <<root, issuer, overlapped>> /\ stored \in SetupRow
  BY DEF CompleteStore, FirstInv, FirstTypeOK
<1>2. CASE Reach(r, "persist", "over") /\ UNCHANGED stored
  <2>1. "over" \in JobAt
    BY DEF JobAt
  <2>2. PICK j \in JobRow : job' = [job EXCEPT ![r] = j] /\ j.at = "over"
    BY <1>2, <2>1, ReachStep DEF FirstInv
  <2>. QED BY <1>1, <1>2, <2>2, OutsideStep DEF Reach
<1>3. CASE /\ Reach(r, "persist", "complete")
           /\ stored' = [done |-> TRUE, org |-> r, smtp |-> job[r].smtp,
                         admins |-> [stored.admins EXCEPT ![job[r].admin] = r]]
  <2>1. "complete" \in JobAt
    BY DEF JobAt
  <2>2. PICK j \in JobRow :
          job' = [job EXCEPT ![r] = j] /\ j.at = "complete" /\ j.admin = job[r].admin
    BY <1>3, <2>1, ReachStep DEF FirstInv
  <2>3. job' \in [Req -> JobRow] /\ \A s \in Req : job'[s] = IF s = r THEN j ELSE job[s]
    BY <2>2 DEF FirstInv, FirstTypeOK
  <2>4. job[r].at = "persist" /\ job[r] \in JobRow
    BY <1>3 DEF Reach, FirstInv, FirstTypeOK
  <2>5. job[r].smtp \in MailRow /\ job[r].admin \in Admin
    BY <2>4 DEF JobRow
  <2>6. stored.admins \in [Admin -> Req \cup {NoReq}]
    BY <1>1 DEF SetupRow
  <2>7. [stored.admins EXCEPT ![job[r].admin] = r] \in [Admin -> Req \cup {NoReq}]
    BY <2>6
  <2>8. stored' \in SetupRow /\ stored'.org = r /\ stored'.admins[job[r].admin] = r
    BY <1>3, <2>5, <2>6, <2>7 DEF SetupRow
  <2>9. FirstTypeOK'
    BY <1>1, <2>3, <2>8 DEF FirstInv, FirstTypeOK
  <2>10. IssuerFollows'
    BY <1>1, <2>2, <2>3, <2>4 DEF FirstInv, IssuerFollows
  <2>11. ASSUME ~overlapped PROVE WizardAlone' /\ RootIsOwn' /\ DoneIsWhole'
    <3>1. WizardAlone /\ InWizard(r) /\ RootIsOwn /\ DoneIsWhole
      BY <2>4, <2>11 DEF FirstInv, InWizard
    <3>2. \A s \in Req : ~InWizard(s)'
      BY <2>2, <2>3, <3>1 DEF WizardAlone, InWizard
    <3>3. root = r
      BY <2>4, <3>1 DEF RootIsOwn
    <3>4. ~stored.done
      BY <3>1 DEF WizardAlone
    <3>5. WizardAlone' /\ RootIsOwn'
      BY <3>2 DEF WizardAlone, RootIsOwn, InWizard
    <3>6. \A s \in Req : job'[s].at = "complete" => s = r
      BY <2>3, <3>1, <3>4 DEF DoneIsWhole
    <3>7. DoneIsWhole'
      BY <1>1, <1>3, <2>2, <2>3, <2>8, <3>3, <3>6, FirstRunAssumption DEF DoneIsWhole
    <3>. QED BY <3>5, <3>7
  <2>. QED BY <1>1, <2>9, <2>10, <2>11 DEF FirstInv
<1>. QED BY <1>2, <1>3 DEF CompleteStore

\* What the settings page reads is a setting.
LEMMA LoadSound == FirstTypeOK => Load \in MailRow
<1>1. Unconfigured \in MailRow
  BY DEF Unconfigured, MailRow
<1>. QED BY <1>1 DEF FirstTypeOK, SetupRow, Load

\* A handler that begins with a record of its own and stores nothing.
LEMMA BeginStep ==
  ASSUME FirstInv, NEW r \in Req, NEW j \in JobRow, job[r].at \in {"idle", "verify", "send"},
         job' = [job EXCEPT ![r] = j], j.at \in {"over", "save", "verify", "update", "send"},
         UNCHANGED <<stored, root, issuer, overlapped>>
  PROVE  FirstInv'
<1>1. stored' \in SetupRow
  BY DEF FirstInv, FirstTypeOK
<1>. QED BY <1>1, OutsideStep

\* A handler that ends.
LEMMA EndStep ==
  ASSUME FirstInv, NEW r \in Req, NEW p \in {"save", "update", "send"}, Reach(r, p, "over"),
         stored' \in SetupRow, stored'.done = stored.done, stored'.org = stored.org,
         \A a \in Admin : stored.admins[a] # NoReq => stored'.admins[a] # NoReq,
         UNCHANGED <<root, issuer, overlapped>>
  PROVE  FirstInv'
<1>1. "over" \in JobAt
  BY DEF JobAt
<1>2. PICK j \in JobRow : job' = [job EXCEPT ![r] = j] /\ j.at = "over"
  BY <1>1, ReachStep DEF FirstInv
<1>3. job[r].at = p
  BY DEF Reach
<1>. QED BY <1>2, <1>3, OutsideStep

LEMMA StartSettingsInv ==
  ASSUME FirstInv, NEW r \in Req, StartSettings(r)
  PROVE  FirstInv'
<1>1. job[r] \in JobRow /\ Load \in MailRow
  BY LoadSound DEF FirstInv, FirstTypeOK
<1>2. PICK c \in Mail, kept \in MailRow :
        job' = [job EXCEPT ![r] = [@ EXCEPT !.smtp = Normalize(kept),
                                            !.at = IF ValidMail(c) THEN "save" ELSE "over"]]
  <2>1. PICK c \in Mail, found \in BOOLEAN :
          job' = [job EXCEPT ![r] = [@ EXCEPT
                    !.smtp = Normalize(IF c.host /\ c.password = NoReq /\ found
                                       THEN [c EXCEPT !.password = Load.password] ELSE c),
                    !.at = IF ValidMail(c) THEN "save" ELSE "over"]]
    BY DEF StartSettings
  <2>2. c \in MailRow
    BY FirstRunAssumption DEF MailRow
  <2>3. [c EXCEPT !.password = Load.password] \in MailRow
    BY <1>1, <2>2 DEF MailRow
  <2>4. (IF c.host /\ c.password = NoReq /\ found
         THEN [c EXCEPT !.password = Load.password] ELSE c) \in MailRow
    BY <2>2, <2>3
  <2>. QED BY <2>1, <2>4
<1> DEFINE j == [job[r] EXCEPT !.smtp = Normalize(kept),
                               !.at = IF ValidMail(c) THEN "save" ELSE "over"]
<1>3. j \in JobRow /\ j.at \in {"save", "over"}
  BY <1>1, NormalSound DEF JobRow, JobAt
<1>4. job' = [job EXCEPT ![r] = j]
  BY <1>2
<1> HIDE DEF j
<1>. QED BY <1>3, <1>4, BeginStep DEF StartSettings, tables

LEMMA StartPasswordInv ==
  ASSUME FirstInv, NEW r \in Req, StartPassword(r)
  PROVE  FirstInv'
<1> DEFINE j == [job[r] EXCEPT !.admin = CurrentUsername,
                               !.at = IF stored.done THEN "verify" ELSE "update"]
<1>1. job[r] \in JobRow /\ CurrentUsername \in Admin
  BY CurrentIsAdmin DEF FirstInv, FirstTypeOK
<1>2. j \in JobRow /\ j.at \in {"verify", "update"}
  BY <1>1 DEF JobRow, JobAt
<1>3. job' = [job EXCEPT ![r] = j] /\ job[r].at = "idle"
  BY DEF StartPassword
<1> HIDE DEF j
<1>. QED BY <1>2, <1>3, BeginStep DEF StartPassword, tables

LEMMA StartTestInv ==
  ASSUME FirstInv, NEW r \in Req, StartSetupTest(r) \/ StartSettingsTest(r)
  PROVE  FirstInv'
<1>1. job[r] \in JobRow /\ Load \in MailRow
  BY LoadSound DEF FirstInv, FirstTypeOK
<1>2. PICK c \in MailRow, q \in {"send", "over"} :
        job' = [job EXCEPT ![r] = [@ EXCEPT !.smtp = c, !.at = q]]
  <2>1. CASE StartSetupTest(r)
    <3>1. PICK m \in Mail :
            job' = [job EXCEPT ![r] = [@ EXCEPT !.smtp = Normalize(m),
                      !.at = IF ValidMail(m) /\ IsConfigured(m) THEN "send" ELSE "over"]]
      BY <2>1 DEF StartSetupTest
    <3>2. Normalize(m) \in MailRow
      BY NormalSound, FirstRunAssumption DEF MailRow
    <3>. QED BY <3>1, <3>2
  <2>2. CASE StartSettingsTest(r)
    BY <1>1, <2>2 DEF StartSettingsTest
  <2>. QED BY <2>1, <2>2
<1> DEFINE j == [job[r] EXCEPT !.smtp = c, !.at = q]
<1>3. j \in JobRow /\ j.at \in {"send", "over"}
  BY <1>1 DEF JobRow, JobAt
<1>4. job' = [job EXCEPT ![r] = j]
  BY <1>2
<1>5. job[r].at = "idle" /\ UNCHANGED <<stored, root, issuer, overlapped>>
  BY DEF StartSetupTest, StartSettingsTest, tables
<1> HIDE DEF j
<1>. QED BY <1>3, <1>4, <1>5, BeginStep

LEMMA SayInv ==
  ASSUME FirstInv, NEW r \in Req, Say(r)
  PROVE  FirstInv'
<1>1. PICK n \in {"send", "over"} :
        job' = [job EXCEPT ![r] = [job[r] EXCEPT !.said = job[r].said + 1, !.at = n]]
  BY DEF Say
<1> DEFINE k == job[r].said + 1
           j == [job[r] EXCEPT !.said = k, !.at = n]
<1>2. job[r] \in JobRow /\ k \in Int
  BY DEF FirstInv, FirstTypeOK, JobRow
<1> HIDE DEF k
<1>3. j \in JobRow /\ j.at \in {"send", "over"}
  BY <1>2 DEF JobRow, JobAt
<1>4. job' = [job EXCEPT ![r] = j] /\ job[r].at = "send"
  BY <1>1 DEF Say, k
<1> HIDE DEF j
<1>. QED BY <1>3, <1>4, BeginStep DEF Say, tables

\* A password is never taken from a row.
LEMMA StoreInv ==
  ASSUME FirstInv, NEW r \in Req, SaveSMTP(r) \/ UpdatePassword(r)
  PROVE  FirstInv'
<1>1. job[r] \in JobRow /\ stored \in SetupRow
  BY DEF FirstInv, FirstTypeOK
<1>2. job[r].smtp \in MailRow /\ job[r].admin \in Admin /\ stored.admins \in [Admin -> Req \cup {NoReq}]
  BY <1>1 DEF JobRow, SetupRow
<1>3. [stored.admins EXCEPT ![job[r].admin] = r] \in [Admin -> Req \cup {NoReq}]
  BY <1>2
<1>4. UNCHANGED <<root, issuer, overlapped>>
  BY DEF SaveSMTP, UpdatePassword
<1>5. \/ Reach(r, "save", "over") \/ Reach(r, "update", "over")
  BY DEF SaveSMTP, UpdatePassword
<1>6. /\ stored' \in SetupRow /\ stored'.done = stored.done /\ stored'.org = stored.org
      /\ \A a \in Admin : stored.admins[a] # NoReq => stored'.admins[a] # NoReq
  <2>1. CASE stored' = stored
    BY <1>1, <2>1
  <2>2. CASE stored' = [stored EXCEPT !.smtp = job[r].smtp]
    BY <1>1, <1>2, <2>2 DEF SetupRow
  <2>3. CASE stored' = [stored EXCEPT !.admins[job[r].admin] = r]
    <3>1. stored' = [stored EXCEPT !.admins = [stored.admins EXCEPT ![job[r].admin] = r]]
      BY <1>1, <2>3 DEF SetupRow
    <3>2. stored' \in SetupRow /\ stored'.done = stored.done /\ stored'.org = stored.org
          /\ stored'.admins = [stored.admins EXCEPT ![job[r].admin] = r]
      BY <1>1, <1>3, <3>1 DEF SetupRow
    <3>. QED BY <1>2, <3>2, FirstRunAssumption
  <2>. QED BY <2>1, <2>2, <2>3 DEF SaveSMTP, UpdatePassword
<1>. QED BY <1>4, <1>5, <1>6, EndStep

LEMMA SettingsInv ==
  ASSUME FirstInv, NEW r \in Req, HandleSettings(r)
  PROVE  FirstInv'
<1>1. stored \in SetupRow
  BY DEF FirstInv, FirstTypeOK
<1>2. CASE CheckCurrent(r)
  <2>1. PICK q \in {"update", "over"} : Reach(r, "verify", q)
    BY <1>2 DEF CheckCurrent
  <2>2. q \in JobAt
    BY DEF JobAt
  <2>3. PICK j \in JobRow : job' = [job EXCEPT ![r] = j] /\ j.at = q
    BY <2>1, <2>2, ReachStep DEF FirstInv
  <2>4. job[r].at = "verify" /\ UNCHANGED <<stored, root, issuer, overlapped>>
    BY <1>2, <2>1 DEF Reach, CheckCurrent, tables
  <2>. QED BY <2>3, <2>4, BeginStep
<1>3. CASE SayFails(r)
  <2>1. Reach(r, "send", "over") /\ UNCHANGED <<stored, root, issuer, overlapped>>
    BY <1>3 DEF SayFails, tables
  <2>. QED BY <1>1, <2>1, EndStep
<1>. QED
  BY <1>2, <1>3, StartSettingsInv, StoreInv, StartPasswordInv, StartTestInv, SayInv
  DEF HandleSettings

\* A stop takes the handlers, and the issuer is made from the root.
LEMMA RestartServerInv ==
  ASSUME FirstInv, RestartServer
  PROVE  FirstInv'
<1>1. UNCHANGED <<stored, root, overlapped>> /\ issuer' = root
  BY DEF RestartServer
<1>2. /\ job' \in [Req -> JobRow]
      /\ \A s \in Req : /\ job'[s].at \in {"idle", "complete", "over"}
                        /\ job'[s].at = "complete" => job'[s] = job[s]
  <2>1. job' = [s \in Req |-> IF job[s].at \in {"idle", "complete"} THEN job[s]
                              ELSE [job[s] EXCEPT !.at = "over"]]
    BY DEF RestartServer
  <2>2. ASSUME NEW s \in Req
        PROVE  /\ job'[s] \in JobRow /\ job'[s].at \in {"idle", "complete", "over"}
               /\ job'[s].at = "complete" => job'[s] = job[s]
    <3>1. job[s] \in JobRow
      BY DEF FirstInv, FirstTypeOK
    <3>2. [job[s] EXCEPT !.at = "over"] \in JobRow /\ [job[s] EXCEPT !.at = "over"].at = "over"
      BY <3>1 DEF JobRow, JobAt
    <3>. QED BY <2>1, <3>1, <3>2
  <2>. QED BY <2>1, <2>2
<1>3. FirstTypeOK'
  BY <1>1, <1>2 DEF FirstInv, FirstTypeOK
<1>4. IssuerFollows'
  BY <1>1 DEF IssuerFollows
<1>5. \A s \in Req : ~InWizard(s)' /\ job'[s].at \notin {"refresh", "persist"}
  BY <1>2 DEF InWizard
<1>6. WizardAlone' /\ RootIsOwn'
  BY <1>5 DEF WizardAlone, RootIsOwn
<1>7. ~overlapped => DoneIsWhole'
  BY <1>1, <1>2 DEF FirstInv, DoneIsWhole
<1>. QED BY <1>1, <1>3, <1>4, <1>6, <1>7 DEF FirstInv

LEMMA FirstInvNext == FirstInv /\ [FirstNext]_firstVars => FirstInv'
<1> SUFFICES ASSUME FirstInv, [FirstNext]_firstVars PROVE FirstInv'
  OBVIOUS
<1>1. CASE FirstDevice \/ UNCHANGED firstVars
  <2>1. UNCHANGED <<stored, root, issuer, job, overlapped>>
    BY <1>1 DEF FirstDevice, firstVars
  <2>. QED
    BY <2>1
    DEF FirstInv, FirstTypeOK, IssuerFollows, WizardAlone, RootIsOwn, DoneIsWhole, InWizard
<1>2. ASSUME NEW r \in Req, HandleSetupComplete(r) PROVE FirstInv'
  BY <1>2, StartWizardInv, CheckDoneInv, CheckDevicesInv, CompleteReissueInv, RefreshIssuerInv,
     CompleteStoreInv DEF HandleSetupComplete
<1>. QED
  BY <1>1, <1>2, SettingsInv, RestartServerInv DEF FirstNext

\* Service.Complete runs in steps that others come between and that fail one by
\* one.  For any number of requests, names and settings: unless two wizards
\* passed the check of done together, what is stored names the root that is in
\* use and has the administrator of the wizard that stored it; and the issuer
\* never signs under a replaced root, but for the moment before the refresh.
THEOREM SetupStaysWhole == FirstSpec => []SetupIsWhole
<1>1. FirstInv => SetupIsWhole
  BY DEF FirstInv, IssuerFollows, DoneIsWhole, SetupIsWhole
<1>. QED
  BY <1>1, FirstInvInit, FirstInvNext, PTL DEF FirstSpec

-----------------------------------------------------------------------------
(* Notices.                                                                *)

NoticeRow == [table : {"none", "channel", "policy"}, type : ChannelType,
              by : [Field -> Call \cup {NoCall}]]
Editing == {"edit", "load", "store"}
NoticeAt == Editing \cup {"idle", "ok", "refused", "missing", "send", "failed", "get", "lost"}
NoticeCall == [kind : {"none", "create", "update", "test", "window", "delete", "snooze"},
               at : NoticeAt, on : Call \cup {NoCall}, given : SUBSET Field, next : Nat,
               holds : Call \cup {NoCall}]

NoteTypeOK == rows \in [Call -> NoticeRow] /\ call \in [Call -> NoticeCall]

\* w wrote field f of row t: it made the row, or is an update that asked to.
Author(w, t, f) ==
  w \notin {t, NoCall} =>
    /\ call[w].at # "idle" /\ call[w].on = t
    /\ f \in call[w].given \/ (f = "scope" /\ rows[t].table = "policy")

RowOK(t) ==
  There(t) => /\ call[t].kind = "create" /\ call[t].at # "idle"
              /\ \A f \in Field : Author(rows[t].by[f], t, f)

\* The fields an update has come past are set by it or by another update.
Passed(u) ==
  \A i \in DOMAIN Fields(rows[call[u].on].table) :
    /\ call[u].at # "edit" \/ i < call[u].next
    /\ Fields(rows[call[u].on].table)[i] \in Written(u)
    => \/ rows[call[u].on].by[Fields(rows[call[u].on].table)[i]] \notin {call[u].on, NoCall}
       \/ <<call[u].on, Fields(rows[call[u].on].table)[i]>> \in undone

UpdateOK(u) ==
  /\ call[u].on \in Call /\ call[call[u].on].at # "idle"
  /\ call[u].at \in Editing => There(call[u].on)
  /\ There(call[u].on) => call[u].given \subseteq FieldsOf(rows[call[u].on].table) /\ Passed(u)

\* What UpdatePolicy read is what the field still holds, or it was written since.
HoldsOK(c) ==
  LET t == call[c].on
      f == Fields("policy")[call[c].next]
  IN  /\ call[c].next \in 1..4 /\ call[c].holds # NoCall /\ Author(call[c].holds, t, f)
      /\ rows[t].by[f] = call[c].holds \/ <<t, f>> \in undone

\* What a request does is told by where its handler stands.
CallOK(c) ==
  /\ call[c].at = "idle" => call[c].next = 1
  /\ call[c].at \in Editing => call[c].kind = "update"
  /\ call[c].at = "send" => call[c].kind = "test"
  /\ call[c].at = "get" => call[c].kind = "window"
  /\ call[c].at \in {"load", "store"} => rows[call[c].on].table = "policy" /\ call[c].next \in 1..5
  /\ call[c].kind = "update" /\ call[c].at \in Editing \cup {"ok"} => UpdateOK(c)
  /\ call[c].at = "store" => HoldsOK(c)

NoteInv == NoteTypeOK /\ \A c \in Call : RowOK(c) /\ CallOK(c)

LEMMA FieldsOfTables ==
  /\ DOMAIN Fields("channel") = 1..3 /\ DOMAIN Fields("policy") = 1..4
  /\ \A i \in 1..3 : Fields("channel")[i] \in Field
  /\ \A i \in 1..4 : Fields("policy")[i] \in Field
  /\ FieldsOf("channel") \subseteq Field /\ FieldsOf("policy") \subseteq Field
  /\ "scope" \in FieldsOf("policy")
<1>1. Fields("channel") = <<"name", "config", "enabled">>
      /\ Fields("policy") = <<"category", "scope", "channels", "enabled">>
  BY DEF Fields
<1>2. DOMAIN Fields("channel") = 1..3 /\ DOMAIN Fields("policy") = 1..4 /\ Fields("policy")[2] = "scope"
  BY <1>1
<1>. QED BY <1>2 DEF FieldsOf, Field

LEMMA NoteInvInit == NoteInit => NoteInv
<1> SUFFICES ASSUME NoteInit PROVE NoteInv
  OBVIOUS
<1> DEFINE c0 == [kind |-> "none", at |-> "idle", on |-> NoCall, given |-> {}, next |-> 1, holds |-> NoCall]
<1>1. rows = [c \in Call |-> Absent] /\ call = [c \in Call |-> c0]
  BY DEF NoteInit
<1>2. [f \in Field |-> NoCall] \in [Field -> Call \cup {NoCall}]
  OBVIOUS
<1>3. Absent \in NoticeRow /\ Absent.table = "none"
  BY <1>2 DEF Absent, NoticeRow, ChannelType
<1>4. c0 \in NoticeCall /\ c0.at = "idle" /\ c0.kind = "none" /\ c0.next = 1
  BY DEF NoticeCall, NoticeAt
<1> HIDE DEF c0
<1>5. \A c \in Call : rows[c] = Absent /\ call[c] = c0
  BY <1>1
<1>6. NoteTypeOK
  BY <1>1, <1>3, <1>4 DEF NoteTypeOK
<1>. QED
  BY <1>3, <1>4, <1>5, <1>6 DEF NoteInv, RowOK, CallOK, There, Editing

\* What every step but a restart leaves of rows and requests: a row stays, a
\* request that began keeps what it asks for, and a field that changes is
\* written by an update, or was written over.
Later ==
  /\ undone \subseteq undone'
  /\ \A d \in Call : call[d].at # "idle" =>
       /\ call'[d].at # "idle" /\ call'[d].on = call[d].on
       /\ call'[d].given = call[d].given /\ call'[d].kind = call[d].kind
       /\ There(d)' => There(d)
  /\ \A t \in Call : There(t) =>
       /\ rows'[t].table = rows[t].table
       /\ \A f \in Field :
            \/ rows'[t].by[f] = rows[t].by[f]
            \/ <<t, f>> \in undone'
            \/ /\ rows'[t].by[f] \notin {t, NoCall}
               /\ ~ \E d \in Call : call[d].at = "store" /\ call[d].on = t
                                    /\ Fields("policy")[call[d].next] = f

LEMMA AuthorKept ==
  ASSUME NoteInv, Later, NEW t \in Call, There(t), NEW f \in Field,
         NEW w \in Call \cup {NoCall}, Author(w, t, f)
  PROVE  Author(w, t, f)'
<1>1. rows'[t].table = rows[t].table
  BY DEF Later
<1>. QED BY <1>1 DEF Author, Later

\* A request that takes no step stays as sound as it was.
LEMMA CallKept ==
  ASSUME NoteInv, Later, NEW d \in Call, call'[d] = call[d]
  PROVE  CallOK(d)'
<1> DEFINE t == call[d].on
<1>1. CallOK(d) /\ call[d] \in NoticeCall
  BY DEF NoteInv, NoteTypeOK
<1>2. ASSUME call[d].kind = "update", call[d].at \in Editing \cup {"ok"}
      PROVE  /\ UpdateOK(d)'
             /\ call[d].at \in Editing => rows'[t].table = rows[t].table
  <2>1. UpdateOK(d)
    BY <1>1, <1>2 DEF CallOK
  <2>2. t \in Call /\ call[t].at # "idle" /\ call'[t].at # "idle"
    BY <2>1 DEF UpdateOK, Later
  <2>3. There(t)' => There(t)
    BY <2>2 DEF Later
  <2>4. There(t) => There(t)' /\ rows'[t].table = rows[t].table
    BY <2>2 DEF Later, There
  <2>5. ASSUME There(t) PROVE Passed(d)'
    <3>1. rows'[t].table = rows[t].table /\ Passed(d)
      BY <2>1, <2>4, <2>5 DEF UpdateOK
    <3>2. Written(d)' = Written(d)
      BY <3>1 DEF Written
    <3>3. rows[t].table \in {"channel", "policy"}
      BY <2>2, <2>5 DEF There, NoteInv, NoteTypeOK, NoticeRow
    <3>4. ASSUME NEW f \in Field, rows[t].by[f] \notin {t, NoCall} \/ <<t, f>> \in undone
          PROVE  rows'[t].by[f] \notin {t, NoCall} \/ <<t, f>> \in undone'
      BY <2>2, <2>5, <3>4 DEF Later
    <3>5. \A i \in DOMAIN Fields(rows[t].table) : Fields(rows[t].table)[i] \in Field
      BY <3>3, FieldsOfTables
    <3>. QED BY <3>1, <3>2, <3>4, <3>5 DEF Passed
  <2>6. call[d].at \in Editing => There(t)
    BY <2>1 DEF UpdateOK
  <2>. QED BY <2>1, <2>2, <2>3, <2>4, <2>5, <2>6 DEF UpdateOK
<1>3. ASSUME call[d].at = "store" PROVE HoldsOK(d)'
  <2>1. HoldsOK(d) /\ UpdateOK(d) /\ call[d].kind = "update"
    BY <1>1, <1>3 DEF CallOK, Editing
  <2>2. t \in Call /\ There(t)
    BY <1>3, <2>1 DEF UpdateOK, Editing
  <2> DEFINE f == Fields("policy")[call[d].next]
  <2>3. f \in Field /\ call[d].holds \in Call \cup {NoCall}
    BY <1>1, <2>1, FieldsOfTables DEF HoldsOK, NoticeCall
  <2>4. PICK w \in Call \cup {NoCall}, g \in Field, n \in Call : w = call[d].holds /\ g = f /\ n = t
    BY <2>2, <2>3
  <2>5. Author(w, n, g)'
    BY <2>1, <2>2, <2>4, AuthorKept DEF HoldsOK
  <2>6. rows'[n].by[g] = w \/ <<n, g>> \in undone'
    BY <1>3, <2>1, <2>2, <2>4 DEF HoldsOK, Later
  <2>7. call'[d].next \in 1..4 /\ call'[d].holds = w /\ w # NoCall /\ call'[d].on = n
        /\ Fields("policy")[call'[d].next] = g
    BY <2>1, <2>4 DEF HoldsOK
  <2>8. Author(call[d].holds, call[d].on, Fields("policy")[call[d].next])'
    BY <2>5, <2>7 DEF Author
  <2>. QED BY <2>6, <2>7, <2>8 DEF HoldsOK
<1>4. call[d].at \in {"load", "store"} => rows'[t].table = "policy"
  BY <1>1, <1>2 DEF CallOK, Editing
<1>. QED BY <1>1, <1>2, <1>3, <1>4 DEF CallOK

\* A request takes a step and touches no row.
LEMMA CallMoves ==
  ASSUME NoteInv, NEW c \in Call, NEW k \in NoticeCall,
         call' = [call EXCEPT ![c] = k], UNCHANGED <<rows, undone>>,
         k.at # "idle",
         call[c].at # "idle" => k.on = call[c].on /\ k.given = call[c].given /\ k.kind = call[c].kind
  PROVE  Later /\ NoteTypeOK' /\ call'[c] = k /\ \A t \in Call : RowOK(t)'
<1>1. call' \in [Call -> NoticeCall] /\ \A d \in Call : call'[d] = IF d = c THEN k ELSE call[d]
  BY DEF NoteInv, NoteTypeOK
<1>2. NoteTypeOK' /\ call'[c] = k
  BY <1>1 DEF NoteInv, NoteTypeOK
<1>3. Later
  BY <1>1 DEF Later, There
<1>4. ASSUME NEW t \in Call PROVE RowOK(t)'
  <2>1. ASSUME There(t)
        PROVE  /\ call'[t].kind = "create" /\ call'[t].at # "idle"
               /\ \A f \in Field : Author(rows[t].by[f], t, f)'
    <3>1. call[t].kind = "create" /\ call[t].at # "idle"
      BY <2>1 DEF NoteInv, RowOK
    <3>2. call'[t].kind = "create" /\ call'[t].at # "idle"
      BY <1>3, <3>1 DEF Later
    <3>3. ASSUME NEW f \in Field PROVE Author(rows[t].by[f], t, f)'
      <4>1. PICK w \in Call \cup {NoCall} : w = rows[t].by[f]
        BY DEF NoteInv, NoteTypeOK, NoticeRow
      <4>2. Author(w, t, f)
        BY <2>1, <4>1 DEF NoteInv, RowOK
      <4>3. Author(w, t, f)'
        BY <1>3, <2>1, <4>2, AuthorKept
      <4>. QED BY <4>1, <4>3 DEF Author
    <3>. QED BY <3>2, <3>3
  <2>. QED BY <2>1 DEF RowOK, There, Author
<1>. QED BY <1>2, <1>3, <1>4

\* It suffices that the request itself is sound where it goes.
LEMMA MovesInv ==
  ASSUME NoteInv, NEW c \in Call, NEW k \in NoticeCall,
         call' = [call EXCEPT ![c] = k], UNCHANGED <<rows, undone>>,
         k.at # "idle",
         call[c].at # "idle" => k.on = call[c].on /\ k.given = call[c].given /\ k.kind = call[c].kind,
         CallOK(c)'
  PROVE  NoteInv'
<1>1. Later /\ NoteTypeOK' /\ \A t \in Call : RowOK(t)'
  BY CallMoves
<1>2. \A d \in Call : d # c => call'[d] = call[d]
  BY DEF NoteInv, NoteTypeOK
<1>3. \A d \in Call : CallOK(d)'
  BY <1>1, <1>2, CallKept
<1>. QED BY <1>1, <1>3 DEF NoteInv

\* A request that begins, or ends, without an update.
LEMMA AsideStep ==
  ASSUME NoteInv, NEW c \in Call, NEW k \in NoticeCall,
         call' = [call EXCEPT ![c] = k], UNCHANGED <<rows, undone>>,
         \/ call[c].at = "idle"
         \/ (call[c].at \in {"send", "get"} /\ k.on = call[c].on /\ k.given = call[c].given /\ k.kind = call[c].kind),
         k.at \notin Editing \cup {"idle"}, ~(k.kind = "update" /\ k.at = "ok"),
         k.at = "send" => k.kind = "test", k.at = "get" => k.kind = "window"
  PROVE  NoteInv'
<1>1. call'[c] = k
  BY DEF NoteInv, NoteTypeOK
<1>2. CallOK(c)'
  BY <1>1 DEF CallOK, Editing
<1>. QED BY <1>2, MovesInv DEF Editing

\* A row is made by a request that nothing else refers to yet.
LEMMA CreateRow ==
  ASSUME NoteInv, NEW c \in Call, NEW k \in NoticeCall, NEW made \in NoticeRow,
         call[c].at = "idle", call' = [call EXCEPT ![c] = k], rows' = [rows EXCEPT ![c] = made],
         UNCHANGED undone, k.kind = "create", k.at \in {"ok", "refused"},
         \A f \in Field : made.by[f] \in {c, NoCall}
  PROVE  NoteInv'
<1>1. call' \in [Call -> NoticeCall] /\ \A d \in Call : call'[d] = IF d = c THEN k ELSE call[d]
  BY DEF NoteInv, NoteTypeOK
<1>2. rows' \in [Call -> NoticeRow] /\ \A d \in Call : rows'[d] = IF d = c THEN made ELSE rows[d]
  BY DEF NoteInv, NoteTypeOK
<1>3. ~There(c)
  BY DEF NoteInv, RowOK
<1>4. Later
  BY <1>1, <1>2, <1>3 DEF Later, There
<1>5. ASSUME NEW d \in Call PROVE CallOK(d)'
  <2>1. CASE d = c
    BY <1>1, <2>1 DEF CallOK, Editing
  <2>2. CASE d # c
    BY <1>1, <1>4, <2>2, CallKept
  <2>. QED BY <2>1, <2>2
<1>6. ASSUME NEW t \in Call PROVE RowOK(t)'
  <2>1. CASE t = c
    BY <1>1, <1>2, <2>1 DEF RowOK, Author
  <2>2. CASE t # c
    <3>1. There(t)' <=> There(t)
      BY <1>2, <2>2 DEF There
    <3>2. ASSUME There(t), NEW f \in Field PROVE Author(rows[t].by[f], t, f)'
      <4>1. PICK w \in Call \cup {NoCall} : w = rows[t].by[f] /\ w = rows'[t].by[f]
        BY <1>2, <2>2 DEF NoteInv, NoteTypeOK, NoticeRow
      <4>2. Author(w, t, f)
        BY <3>2, <4>1 DEF NoteInv, RowOK
      <4>3. Author(w, t, f)'
        BY <1>4, <3>2, <4>2, AuthorKept
      <4>. QED BY <4>1, <4>3 DEF Author
    <3>3. RowOK(t)
      BY DEF NoteInv
    <3>. QED BY <1>1, <2>2, <3>1, <3>2, <3>3 DEF RowOK
  <2>. QED BY <2>1, <2>2
<1>. QED BY <1>1, <1>2, <1>5, <1>6 DEF NoteInv, NoteTypeOK

LEMMA CreateInv ==
  ASSUME NoteInv, NEW c \in Call, CreateChannel(c) \/ CreatePolicy(c)
  PROVE  NoteInv'
<1>1. call[c].at = "idle" /\ call[c] \in NoticeCall /\ UNCHANGED undone
  BY DEF CreateChannel, CreatePolicy, NoteInv, NoteTypeOK
<1>2. PICK table \in {"channel", "policy"}, type \in ChannelType,
           by \in [Field -> {c, NoCall}], a \in {"ok", "refused"} :
        /\ rows' = [rows EXCEPT ![c] = [table |-> table, type |-> type, by |-> by]]
        /\ call' = [call EXCEPT ![c] = [@ EXCEPT !.kind = "create", !.at = a]]
  <2>1. CASE CreateChannel(c)
    <3>1. PICK t \in ChannelType, named \in BOOLEAN :
            /\ rows' = [rows EXCEPT ![c] = [table |-> "channel", type |-> t,
                          by |-> [f \in Field |-> IF f = "name" /\ ~named THEN NoCall ELSE c]]]
            /\ call' = [call EXCEPT ![c] = [@ EXCEPT !.kind = "create", !.at = IF named THEN "ok" ELSE "refused"]]
      BY <2>1 DEF CreateChannel
    <3>2. [f \in Field |-> IF f = "name" /\ ~named THEN NoCall ELSE c] \in [Field -> {c, NoCall}]
      OBVIOUS
    <3>. QED BY <3>1, <3>2
  <2>2. CASE CreatePolicy(c)
    <3>1. PICK empty \in SUBSET {"category", "channels"} :
            /\ rows' = [rows EXCEPT ![c] = [table |-> "policy", type |-> "unknown",
                          by |-> [f \in Field |-> IF f \in empty THEN NoCall ELSE c]]]
            /\ call' = [call EXCEPT ![c] = [@ EXCEPT !.kind = "create", !.at = IF "category" \in empty THEN "refused" ELSE "ok"]]
      BY <2>2 DEF CreatePolicy
    <3>2. [f \in Field |-> IF f \in empty THEN NoCall ELSE c] \in [Field -> {c, NoCall}]
      OBVIOUS
    <3>. QED BY <3>1, <3>2 DEF ChannelType
  <2>. QED BY <2>1, <2>2
<1> DEFINE made == [table |-> table, type |-> type, by |-> by]
           k == [call[c] EXCEPT !.kind = "create", !.at = a]
<1>3. by \in [Field -> Call \cup {NoCall}] /\ \A f \in Field : by[f] \in {c, NoCall}
  OBVIOUS
<1>4. made \in NoticeRow /\ made.by = by
  BY <1>3 DEF NoticeRow
<1>5. k \in NoticeCall /\ k.kind = "create" /\ k.at \in {"ok", "refused"}
  BY <1>1 DEF NoticeCall, NoticeAt
<1>6. rows' = [rows EXCEPT ![c] = made] /\ call' = [call EXCEPT ![c] = k]
  BY <1>2
<1> HIDE DEF made, k
<1>. QED BY <1>1, <1>3, <1>4, <1>5, <1>6, CreateRow

\* An update that finds its row begins at the first field.
LEMMA StartUpdateInv ==
  ASSUME NoteInv, NEW c \in Call, NEW table \in {"channel", "policy"}, StartUpdate(c, table)
  PROVE  NoteInv'
<1>1. PICK t \in Call, given \in SUBSET FieldsOf(table) :
        /\ There(t) => rows[t].table = table
        /\ call' = [call EXCEPT ![c] = [@ EXCEPT !.kind = "update", !.on = t, !.given = given,
                                                 !.at = IF There(t) THEN "edit" ELSE "missing"]]
  BY DEF StartUpdate
<1> DEFINE k == [call[c] EXCEPT !.kind = "update", !.on = t, !.given = given,
                                !.at = IF There(t) THEN "edit" ELSE "missing"]
<1>2. /\ call[c].at = "idle" /\ call[c] \in NoticeCall /\ UNCHANGED <<rows, undone>>
      /\ call[c].next = 1
  BY DEF StartUpdate, NoteInv, NoteTypeOK, CallOK
<1>3. given \in SUBSET Field
  BY FieldsOfTables
<1>4. /\ k \in NoticeCall /\ k.kind = "update" /\ k.on = t /\ k.given = given /\ k.next = 1
      /\ k.at = IF There(t) THEN "edit" ELSE "missing"
  BY <1>2, <1>3 DEF NoticeCall, NoticeAt, Editing
<1>5. call' = [call EXCEPT ![c] = k]
  BY <1>1
<1> HIDE DEF k
<1>6. CASE ~There(t)
  <2>1. k.at = "missing"
    BY <1>4, <1>6
  <2>. QED BY <1>2, <1>4, <1>5, <2>1, AsideStep DEF Editing
<1>7. CASE There(t)
  <2>1. k.at = "edit"
    BY <1>4, <1>7
  <2>2. call'[c] = k /\ \A d \in Call : d # c => call'[d] = call[d]
    BY <1>4, <1>5 DEF NoteInv, NoteTypeOK
  <2>3. t # c /\ call'[t].at # "idle" /\ rows'[t].table = table /\ There(t)'
    BY <1>1, <1>2, <1>7, <2>2 DEF NoteInv, RowOK, There
  <2>4. DOMAIN Fields(table) \subseteq Nat \ {0}
    BY FieldsOfTables
  <2>5. Passed(c)'
    BY <1>4, <2>1, <2>2, <2>3, <2>4 DEF Passed
  <2>6. UpdateOK(c)'
    BY <1>4, <2>2, <2>3, <2>5 DEF UpdateOK
  <2>7. CallOK(c)'
    BY <1>4, <2>1, <2>2, <2>6 DEF CallOK, Editing
  <2>. QED BY <1>2, <1>4, <1>5, <2>1, <2>7, MovesInv
<1>. QED BY <1>6, <1>7

Wrote(t, g, w) == rows' = [rows EXCEPT ![t].by[g] = w]
Awaited(t, g) ==
  \E d \in Call : call[d].at = "store" /\ call[d].on = t /\ Fields("policy")[call[d].next] = g

\* One field of one row is written, by an update on its way.
FieldStep(c, k, t, g, w) ==
  /\ There(t) /\ call[c].on = t /\ call[c].at \in Editing
  /\ Wrote(t, g, w) /\ call' = [call EXCEPT ![c] = k]
  /\ undone \subseteq undone' /\ Author(w, t, g)
  /\ k.kind = call[c].kind /\ k.on = t /\ k.given = call[c].given /\ k.at \in Editing
  /\ \/ w = rows[t].by[g]
     \/ <<t, g>> \in undone'
     \/ w \notin {t, NoCall} /\ ~Awaited(t, g)

LEMMA FieldWritten ==
  ASSUME NoteInv, NEW c \in Call, NEW k \in NoticeCall, NEW t \in Call, NEW g \in Field,
         NEW w \in Call \cup {NoCall}, FieldStep(c, k, t, g, w)
  PROVE  /\ NoteTypeOK' /\ Later /\ call'[c] = k
         /\ \A d \in Call : rows'[d].table = rows[d].table
                            /\ \A f \in Field : rows'[d].by[f] = IF d = t /\ f = g THEN w ELSE rows[d].by[f]
         /\ CallOK(c)' => NoteInv'
<1> USE DEF FieldStep
<1>1. /\ rows' \in [Call -> NoticeRow]
      /\ \A d \in Call : rows'[d].table = rows[d].table
                         /\ \A f \in Field : rows'[d].by[f] = IF d = t /\ f = g THEN w ELSE rows[d].by[f]
  <2> DEFINE b == [rows[t].by EXCEPT ![g] = w]
             made == [rows[t] EXCEPT !.by = b]
  <2>1. rows \in [Call -> NoticeRow] /\ \A d \in Call : rows[d].by \in [Field -> Call \cup {NoCall}]
    BY DEF NoteInv, NoteTypeOK, NoticeRow
  <2>2. b \in [Field -> Call \cup {NoCall}] /\ \A f \in Field : b[f] = IF f = g THEN w ELSE rows[t].by[f]
    BY <2>1
  <2>3. rows' = [rows EXCEPT ![t] = made]
    BY <2>1 DEF NoticeRow, Wrote
  <2> HIDE DEF b
  <2>4. made \in NoticeRow /\ made.by = b /\ made.table = rows[t].table
    BY <2>1, <2>2 DEF NoticeRow
  <2> HIDE DEF made
  <2>5. rows' \in [Call -> NoticeRow] /\ \A d \in Call : rows'[d] = IF d = t THEN made ELSE rows[d]
    BY <2>1, <2>3, <2>4
  <2>. QED BY <2>2, <2>4, <2>5
<1>2. call' \in [Call -> NoticeCall] /\ \A d \in Call : call'[d] = IF d = c THEN k ELSE call[d]
  BY DEF NoteInv, NoteTypeOK
<1>3. \A d : There(d)' <=> There(d)
  BY <1>1 DEF There
<1>4. Later
  BY <1>1, <1>2, <1>3 DEF Later, Editing, Awaited
<1>5. ASSUME NEW d \in Call PROVE RowOK(d)'
  <2>1. ASSUME There(d), NEW f \in Field PROVE Author(rows[d].by[f], d, f)'
    <3>1. PICK v \in Call \cup {NoCall} : v = rows'[d].by[f]
      BY <1>1 DEF NoticeRow
    <3>2. Author(v, d, f)
      BY <1>1, <2>1, <3>1 DEF NoteInv, RowOK
    <3>3. Author(v, d, f)'
      BY <1>4, <2>1, <3>2, AuthorKept
    <3>. QED BY <3>1, <3>3 DEF Author
  <2>2. There(d) => call'[d].kind = "create" /\ call'[d].at # "idle"
    BY <1>4 DEF NoteInv, RowOK, Later
  <2>. QED BY <1>3, <2>1, <2>2 DEF RowOK
<1>6. ASSUME CallOK(c)' PROVE NoteInv'
  <2>1. \A d \in Call : CallOK(d)'
    BY <1>2, <1>4, <1>6, CallKept
  <2>. QED BY <1>1, <1>2, <1>5, <2>1 DEF NoteInv, NoteTypeOK
<1>. QED BY <1>1, <1>2, <1>4, <1>6 DEF NoteTypeOK

\* An update sets the field it has come to; if the store was about to put back
\* what the field held, that is remembered.
LEMMA EditFieldInv ==
  ASSUME NoteInv, NEW c \in Call, EditField(c)
  PROVE  NoteInv'
<1> DEFINE t == call[c].on
           i == call[c].next
           g == Fields(rows[t].table)[i]
           k == [call[c] EXCEPT !.next = i + 1]
<1>1. /\ call[c] \in NoticeCall /\ call[c].at = "edit" /\ call[c].kind = "update"
      /\ i \in Nat /\ UpdateOK(c)
  BY DEF EditField, NoteInv, NoteTypeOK, CallOK, NoticeCall, Editing
<1>2. t \in Call /\ There(t) /\ call[c].given \subseteq FieldsOf(rows[t].table) /\ Passed(c)
  BY <1>1 DEF UpdateOK, Editing
<1>3. t # c /\ c # NoCall
  BY <1>1, <1>2, NoticesAssumption DEF NoteInv, RowOK
<1>4. i \in DOMAIN Fields(rows[t].table)
  BY DEF EditField
<1>5. rows[t].table \in {"channel", "policy"}
  BY <1>2 DEF NoteInv, NoteTypeOK, NoticeRow, There
<1>6. g \in Field
  BY <1>4, <1>5, FieldsOfTables
<1>7. /\ rows' = IF g \in Written(c) THEN [rows EXCEPT ![t].by[g] = c] ELSE rows
      /\ call' = [call EXCEPT ![c] = k] /\ undone \subseteq undone'
      /\ g \in Written(c) /\ (\E d \in Call : call[d].at = "store" /\ call[d].on = t /\ call[d].next = i)
         => <<t, g>> \in undone'
      /\ g \notin Written(c) => undone' = undone
  BY DEF EditField
<1>8. \A f \in Written(c) : f \in call[c].given \/ (f = "scope" /\ rows[t].table = "policy")
  BY DEF Written
<1>9. /\ k \in NoticeCall /\ k.kind = "update" /\ k.at = "edit" /\ k.on = t
      /\ k.given = call[c].given /\ k.next = i + 1
  BY <1>1 DEF NoticeCall
<1>10. PICK h \in Field, n \in Call, j \in Nat : h = g /\ n = t /\ j = i
  BY <1>1, <1>2, <1>6
<1>11. ASSUME call'[c] = k, rows'[n].table = rows[n].table, There(n)',
              h \in Written(c) => rows'[n].by[h] \notin {n, NoCall},
              \A f \in Field : rows'[n].by[f] = rows[n].by[f] \/ f = h,
              h \notin Written(c) => rows' = rows,
              call'[n].at # "idle"
       PROVE  CallOK(c)'
  <2>1. Written(c)' = Written(c)
    BY <1>9, <1>10, <1>11 DEF Written
  <2>2. ASSUME NEW m \in DOMAIN Fields(rows[n].table), m < j + 1, Fields(rows[n].table)[m] \in Written(c)
        PROVE  rows'[n].by[Fields(rows[n].table)[m]] \notin {n, NoCall} \/ <<n, Fields(rows[n].table)[m]>> \in undone'
    <3>1. m \in Nat /\ Fields(rows[n].table)[m] \in Field
      BY <1>5, <1>10, <2>2, FieldsOfTables
    <3>2. CASE m = j
      BY <1>10, <1>11, <2>2, <3>2
    <3>3. CASE m # j
      <4>1. m < call[c].next
        BY <1>10, <2>2, <3>1, <3>3
      <4>2. \/ rows[n].by[Fields(rows[n].table)[m]] \notin {n, NoCall}
            \/ <<n, Fields(rows[n].table)[m]>> \in undone
        BY <1>2, <1>10, <2>2, <4>1 DEF Passed
      <4>. QED BY <1>7, <1>10, <1>11, <2>2, <3>1, <4>2
    <3>. QED BY <3>2, <3>3
  <2>3. Passed(c)'
    BY <1>9, <1>10, <1>11, <2>1, <2>2 DEF Passed
  <2>4. UpdateOK(c)'
    BY <1>2, <1>9, <1>10, <1>11, <2>3 DEF UpdateOK
  <2>. QED BY <1>9, <1>11, <2>4 DEF CallOK, Editing
<1>12. There(n) /\ call[n].at # "idle" /\ n # c
  BY <1>2, <1>3, <1>10 DEF NoteInv, RowOK
<1>13. CASE g \in Written(c)
  <2>1. Wrote(n, h, c)
    BY <1>7, <1>10, <1>13 DEF Wrote
  <2>2. Author(c, n, h)
    BY <1>1, <1>8, <1>10, <1>13 DEF Author
  <2>3. \/ <<n, h>> \in undone'
        \/ ~Awaited(n, h)
    <3>1. ASSUME NEW d \in Call, call[d].at = "store", call[d].on = n, Fields("policy")[call[d].next] = h
          PROVE  call[d].next = i
      <4>1. rows[n].table = "policy" /\ call[d].next \in 1..4
        BY <3>1 DEF NoteInv, CallOK, HoldsOK
      <4>2. Fields("policy")[j] = Fields("policy")[call[d].next] /\ j \in 1..4
        BY <1>4, <1>10, <3>1, <4>1, FieldsOfTables
      <4>. QED BY <1>10, <4>1, <4>2 DEF Fields
    <3>. QED BY <1>7, <1>10, <1>13, <3>1 DEF Awaited
  <2>4. call[c].on = n /\ call[c].at \in Editing /\ k.at \in Editing
    BY <1>1, <1>9, <1>10 DEF Editing
  <2> HIDE DEF k
  <2>5. /\ call'[c] = k
        /\ rows'[n].table = rows[n].table
        /\ \A f \in Field : rows'[n].by[f] = IF f = h THEN c ELSE rows[n].by[f]
        /\ CallOK(c)' => NoteInv'
    <3>1. /\ call' = [call EXCEPT ![c] = k] /\ undone \subseteq undone' /\ k \in NoticeCall
          /\ k.kind = call[c].kind /\ k.on = n /\ k.given = call[c].given
      BY <1>1, <1>7, <1>9, <1>10
    <3>2. c \in Call \cup {NoCall} /\ c \notin {n, NoCall}
      BY <1>3, <1>12
    <3>3. /\ call'[c] = k
          /\ \A d \in Call : rows'[d].table = rows[d].table
                             /\ \A f \in Field : rows'[d].by[f] = IF d = n /\ f = h THEN c ELSE rows[d].by[f]
          /\ CallOK(c)' => NoteInv'
      <4>1. FieldStep(c, k, n, h, c)
        BY <1>12, <2>1, <2>2, <2>3, <2>4, <3>1, <3>2 DEF FieldStep
      <4>. QED BY <3>1, <3>2, <4>1, FieldWritten
    <3>. QED BY <3>3
  <2>6. There(n)' /\ call'[n] = call[n]
    BY <1>7, <1>12, <2>5 DEF There, NoteInv, NoteTypeOK
  <2>. QED BY <1>3, <1>10, <1>11, <1>12, <1>13, <2>5, <2>6
<1>14. CASE g \notin Written(c)
  <2>1. rows' = rows /\ undone' = undone
    BY <1>7, <1>14
  <2> HIDE DEF k
  <2>2. call'[c] = k /\ call'[n] = call[n]
    BY <1>7, <1>9, <1>12 DEF NoteInv, NoteTypeOK
  <2>3. There(n)'
    BY <1>12, <2>1 DEF There
  <2>4. CallOK(c)'
    BY <1>10, <1>11, <1>12, <1>14, <2>1, <2>2, <2>3
  <2>. QED BY <1>1, <1>7, <1>9, <2>1, <2>4, MovesInv
<1>. QED BY <1>13, <1>14

\* An update that has come past every field goes on to the store, and is
\* answered.
LEMMA UpdateMovesInv ==
  ASSUME NoteInv, NEW c \in Call, NEW k \in NoticeCall,
         call' = [call EXCEPT ![c] = k], UNCHANGED <<rows, undone>>,
         call[c].at \in Editing, k.at \in {"load", "store", "ok"},
         k.kind = call[c].kind, k.on = call[c].on, k.given = call[c].given,
         \/ call[c].at # "edit"
         \/ \A i \in DOMAIN Fields(rows[call[c].on].table) : i < call[c].next,
         k.at \in {"load", "store"} => rows[call[c].on].table = "policy" /\ k.next \in 1..5,
         k.at = "store" => /\ k.next \in 1..4 /\ k.holds # NoCall
                           /\ k.holds = rows[call[c].on].by[Fields("policy")[k.next]]
  PROVE  NoteInv'
<1>1. call[c].kind = "update" /\ UpdateOK(c) /\ k.at # "idle"
  BY DEF NoteInv, CallOK
<1>2. PICK t \in Call : t = call[c].on
  BY <1>1 DEF UpdateOK
<1>3. /\ Later /\ call'[c] = k /\ call'[t].at # "idle" /\ There(t) /\ There(t)'
      /\ call[c].given \subseteq FieldsOf(rows[t].table) /\ Passed(c)
  <2>1. Later /\ call'[c] = k
    BY <1>1, CallMoves
  <2>. QED BY <1>1, <1>2, <2>1 DEF UpdateOK, Later, There
<1>4. Written(c)' = Written(c)
  BY <1>3 DEF Written
<1>5. Passed(c)'
  BY <1>2, <1>3, <1>4 DEF Passed
<1>6. UpdateOK(c)'
  BY <1>2, <1>3, <1>5 DEF UpdateOK
<1>7. ASSUME k.at = "store" PROVE HoldsOK(c)'
  <2>1. PICK f \in Field, w \in Call \cup {NoCall} : f = Fields("policy")[k.next] /\ w = k.holds
    BY <1>7, FieldsOfTables DEF NoticeCall
  <2>2. Author(w, t, f)
    BY <1>2, <1>3, <1>7, <2>1 DEF NoteInv, RowOK
  <2>3. Author(w, t, f)'
    BY <1>3, <2>2, AuthorKept
  <2>4. Author(call[c].holds, call[c].on, Fields("policy")[call[c].next])'
    BY <1>2, <1>3, <2>1, <2>3 DEF Author
  <2>. QED BY <1>2, <1>3, <1>7, <2>1, <2>4 DEF HoldsOK
<1>8. CallOK(c)'
  BY <1>1, <1>2, <1>3, <1>6, <1>7 DEF CallOK
<1>. QED BY <1>1, <1>8, MovesInv

LEMMA UpdateDoneInv ==
  ASSUME NoteInv, NEW c \in Call,
         UpdateChannel(c) \/ UpdatePolicy(c) \/ LoadField(c) \/ PolicyStored(c)
  PROVE  NoteInv'
<1>1. call[c] \in NoticeCall /\ CallOK(c)
  BY DEF NoteInv, NoteTypeOK
<1>2. ASSUME NEW k \in NoticeCall, call' = [call EXCEPT ![c] = k], UNCHANGED <<rows, undone>>,
             call[c].at \in {"edit", "load"}, k.at \in {"load", "store", "ok"},
             k.kind = call[c].kind, k.on = call[c].on, k.given = call[c].given,
             call[c].at # "edit"
             \/ (\A i \in DOMAIN Fields(rows[call[c].on].table) : i < call[c].next),
             k.at \in {"load", "store"} => rows[call[c].on].table = "policy" /\ k.next \in 1..5,
             k.at = "store" => /\ k.next \in 1..4 /\ k.holds # NoCall
                               /\ k.holds = rows[call[c].on].by[Fields("policy")[k.next]]
      PROVE  NoteInv'
  BY <1>2, UpdateMovesInv DEF Editing
<1>3. CASE UpdateChannel(c)
  <2> DEFINE k == [call[c] EXCEPT !.at = "ok"]
  <2>1. /\ k \in NoticeCall /\ k.kind = call[c].kind /\ k.at = "ok" /\ k.on = call[c].on
        /\ k.given = call[c].given
    BY <1>1 DEF NoticeCall, NoticeAt
  <2>2. call' = [call EXCEPT ![c] = k] /\ UNCHANGED <<rows, undone>> /\ call[c].at = "edit"
        /\ rows[call[c].on].table = "channel" /\ call[c].next > 3
    BY <1>3 DEF UpdateChannel, Answer
  <2>3. \A i \in DOMAIN Fields(rows[call[c].on].table) : i < call[c].next
    BY <1>1, <2>2, FieldsOfTables DEF NoticeCall
  <2> HIDE DEF k
  <2>. QED BY <1>2, <2>1, <2>2, <2>3
<1>4. CASE UpdatePolicy(c)
  <2> DEFINE k == [call[c] EXCEPT !.at = "load", !.next = 1]
  <2>1. /\ k \in NoticeCall /\ k.kind = call[c].kind /\ k.at = "load" /\ k.on = call[c].on
        /\ k.given = call[c].given /\ k.next = 1
    BY <1>1 DEF NoticeCall, NoticeAt, Editing
  <2>2. call' = [call EXCEPT ![c] = k] /\ UNCHANGED <<rows, undone>> /\ call[c].at = "edit"
        /\ rows[call[c].on].table = "policy" /\ call[c].next > 4
    BY <1>4 DEF UpdatePolicy
  <2>3. \A i \in DOMAIN Fields(rows[call[c].on].table) : i < call[c].next
    BY <1>1, <2>2, FieldsOfTables DEF NoticeCall
  <2> HIDE DEF k
  <2>4. k.next \in 1..5
    BY <2>1
  <2>. QED BY <1>2, <2>1, <2>2, <2>3, <2>4
<1>5. CASE LoadField(c)
  <2> DEFINE held == rows[call[c].on].by[Fields("policy")[call[c].next]]
             k == IF held = NoCall THEN [call[c] EXCEPT !.next = call[c].next + 1]
                  ELSE [call[c] EXCEPT !.at = "store", !.holds = held]
  <2>1. /\ call' = [call EXCEPT ![c] = k] /\ UNCHANGED <<rows, undone>> /\ call[c].at = "load"
        /\ call[c].next <= 4
    BY <1>5, Zenon DEF LoadField
  <2>2. rows[call[c].on].table = "policy" /\ call[c].next \in 1..4 /\ call[c].on \in Call
    BY <1>1, <2>1 DEF CallOK, UpdateOK, Editing
  <2>3. held \in Call \cup {NoCall}
    BY <2>2, FieldsOfTables DEF NoteInv, NoteTypeOK, NoticeRow
  <2>4. CASE held = NoCall
    <3>1. /\ k \in NoticeCall /\ k.kind = call[c].kind /\ k.at = "load" /\ k.on = call[c].on
          /\ k.given = call[c].given /\ k.next = call[c].next + 1
      <4>1. call[c].next + 1 \in Nat
        BY <2>2
      <4>. QED BY <1>1, <2>1, <2>4, <4>1 DEF NoticeCall
    <3> HIDE DEF k
    <3>2. k.next \in 1..5
      BY <2>2, <3>1
    <3>. QED BY <1>2, <2>1, <2>2, <3>1, <3>2
  <2>5. CASE held # NoCall
    <3>1. /\ k \in NoticeCall /\ k.kind = call[c].kind /\ k.at = "store" /\ k.on = call[c].on
          /\ k.given = call[c].given /\ k.next = call[c].next /\ k.holds = held
      BY <1>1, <2>1, <2>3, <2>5 DEF NoticeCall, NoticeAt, Editing
    <3> HIDE DEF k
    <3>2. k.next \in 1..5 /\ k.next \in 1..4
      BY <2>2, <3>1
    <3>. QED BY <1>2, <2>1, <2>2, <2>5, <3>1, <3>2
  <2>. QED BY <2>4, <2>5
<1>6. CASE PolicyStored(c)
  <2> DEFINE k == [call[c] EXCEPT !.at = "ok"]
  <2>1. /\ k \in NoticeCall /\ k.kind = call[c].kind /\ k.at = "ok" /\ k.on = call[c].on
        /\ k.given = call[c].given
    BY <1>1 DEF NoticeCall, NoticeAt
  <2>2. call' = [call EXCEPT ![c] = k] /\ UNCHANGED <<rows, undone>> /\ call[c].at = "load"
    BY <1>6 DEF PolicyStored, Answer
  <2> HIDE DEF k
  <2>. QED BY <1>2, <2>1, <2>2
<1>. QED BY <1>3, <1>4, <1>5, <1>6

\* What the store puts back changes nothing, but where it was written over.
LEMMA StoreFieldInv ==
  ASSUME NoteInv, NEW c \in Call, StoreField(c)
  PROVE  NoteInv'
<1> DEFINE k == [call[c] EXCEPT !.at = "load", !.next = call[c].next + 1, !.holds = NoCall]
<1>1. /\ call[c].at = "store" /\ call[c] \in NoticeCall /\ CallOK(c) /\ HoldsOK(c) /\ UpdateOK(c)
      /\ call[c].kind = "update" /\ call[c].next \in 1..4
  BY DEF StoreField, NoteInv, NoteTypeOK, CallOK, HoldsOK, Editing
<1>2. /\ k \in NoticeCall /\ k.kind = "update" /\ k.at = "load" /\ k.on = call[c].on
      /\ k.given = call[c].given /\ k.next = call[c].next + 1
  <2>1. call[c].next + 1 \in Nat
    BY <1>1
  <2>. QED BY <1>1, <2>1 DEF NoticeCall, NoticeAt, Editing
<1>3. call' = [call EXCEPT ![c] = k] /\ undone' = undone
  BY Zenon DEF StoreField
<1>4. PICK t \in Call, g \in Field, w \in Call \cup {NoCall} :
        t = call[c].on /\ g = Fields("policy")[call[c].next] /\ w = call[c].holds
  BY <1>1, FieldsOfTables DEF UpdateOK, NoticeCall
<1>5. There(t) /\ call[c].given \subseteq FieldsOf(rows[t].table) /\ Passed(c) /\ call[t].at # "idle"
  BY <1>1, <1>4 DEF UpdateOK, Editing
<1>6. Wrote(t, g, w)
  BY <1>4 DEF StoreField, Wrote
<1>7. Author(w, t, g) /\ (w = rows[t].by[g] \/ <<t, g>> \in undone')
  BY <1>1, <1>3, <1>4 DEF HoldsOK
<1> HIDE DEF k
<1>8. /\ call'[c] = k /\ Later
      /\ rows'[t].table = rows[t].table
      /\ \A f \in Field : rows'[t].by[f] = IF f = g THEN w ELSE rows[t].by[f]
      /\ CallOK(c)' => NoteInv'
  <2>1. /\ undone \subseteq undone' /\ k.kind = call[c].kind /\ k.on = t /\ call[c].on = t
        /\ call[c].at \in Editing /\ k.at \in Editing /\ k.given = call[c].given
    BY <1>1, <1>2, <1>3, <1>4 DEF Editing
  <2>2. /\ call'[c] = k /\ Later
        /\ \A d \in Call : rows'[d].table = rows[d].table
                           /\ \A f \in Field : rows'[d].by[f] = IF d = t /\ f = g THEN w ELSE rows[d].by[f]
        /\ CallOK(c)' => NoteInv'
    <3>1. FieldStep(c, k, t, g, w)
      BY <1>2, <1>3, <1>5, <1>6, <1>7, <2>1 DEF FieldStep
    <3>. QED BY <1>2, <3>1, FieldWritten
  <2>. QED BY <2>2
<1>9. There(t)' /\ call'[t].at # "idle"
  BY <1>5, <1>8 DEF There, Later
<1>10. Written(c)' = Written(c)
  BY <1>2, <1>4, <1>8 DEF Written
<1>11. rows[t].table = "policy"
  BY <1>1, <1>4 DEF CallOK
<1>12. Passed(c)'
  <2>1. \A i \in DOMAIN Fields(rows[t].table) : Fields(rows[t].table)[i] \in Field
    BY <1>11, FieldsOfTables
  <2>2. ASSUME NEW i \in DOMAIN Fields(rows[t].table), Fields(rows[t].table)[i] \in Written(c)
        PROVE  \/ rows'[t].by[Fields(rows[t].table)[i]] \notin {t, NoCall}
               \/ <<t, Fields(rows[t].table)[i]>> \in undone'
    <3>1. PICK f \in Field : f = Fields(rows[t].table)[i]
      BY <2>1
    <3>2. rows[t].by[f] \notin {t, NoCall} \/ <<t, f>> \in undone
      BY <1>1, <1>4, <1>5, <2>2, <3>1 DEF Passed
    <3>3. rows'[t].by[f] = rows[t].by[f] \/ <<t, f>> \in undone'
      BY <1>7, <1>8
    <3>. QED BY <1>3, <3>1, <3>2, <3>3
  <2>. QED BY <1>2, <1>4, <1>8, <1>10, <2>2 DEF Passed
<1>13. UpdateOK(c)'
  BY <1>2, <1>4, <1>5, <1>8, <1>9, <1>12 DEF UpdateOK
<1>14. k.next \in 1..5
  BY <1>1, <1>2
<1>15. CallOK(c)'
  BY <1>2, <1>4, <1>8, <1>11, <1>13, <1>14 DEF CallOK
<1>. QED BY <1>8, <1>15

\* A test message, a window, a snooze: no row is written.
LEMMA AnswerInv ==
  ASSUME NoteInv, NEW c \in Call, NEW a \in {"ok", "failed"}, Answer(c, a),
         call[c].at \in {"send", "get"}, UNCHANGED <<rows, undone>>
  PROVE  NoteInv'
<1> DEFINE k == [call[c] EXCEPT !.at = a]
<1>1. call[c] \in NoticeCall /\ call[c].kind \in {"test", "window"}
  BY DEF NoteInv, NoteTypeOK, CallOK
<1>2. /\ k \in NoticeCall /\ k.kind = call[c].kind /\ k.at = a /\ k.on = call[c].on
      /\ k.given = call[c].given
  BY <1>1 DEF NoticeCall, NoticeAt, Editing
<1>3. call' = [call EXCEPT ![c] = k]
  BY DEF Answer
<1> HIDE DEF k
<1>. QED BY <1>1, <1>2, <1>3, AsideStep DEF Editing

LEMMA BeginAsideInv ==
  ASSUME NoteInv, NEW c \in Call, NEW kind \in {"test", "window", "delete", "snooze"},
         NEW on \in Call \cup {NoCall}, NEW a \in {"ok", "refused", "missing", "failed", "send", "get"},
         a = "send" => kind = "test", a = "get" => kind = "window",
         call[c].at = "idle", UNCHANGED <<rows, undone>>,
         call' = [call EXCEPT ![c] = [@ EXCEPT !.kind = kind, !.on = on, !.at = a]]
  PROVE  NoteInv'
<1> DEFINE k == [call[c] EXCEPT !.kind = kind, !.on = on, !.at = a]
<1>1. call[c] \in NoticeCall
  BY DEF NoteInv, NoteTypeOK
<1>2. k \in NoticeCall /\ k.kind = kind /\ k.at = a
  BY <1>1 DEF NoticeCall, NoticeAt, Editing
<1>3. call' = [call EXCEPT ![c] = k]
  OBVIOUS
<1> HIDE DEF k
<1>. QED BY <1>2, <1>3, AsideStep DEF Editing

LEMMA TestInv ==
  ASSUME NoteInv, NEW c \in Call,
         StartTest(c) \/ SendEmail(c) \/ SendSlack(c) \/ SendTeams(c) \/ SendPagerDuty(c) \/ SendWebhook(c)
  PROVE  NoteInv'
<1>1. CASE StartTest(c)
  <2>1. PICK t \in Call, a \in {"missing", "failed", "send"} :
          call' = [call EXCEPT ![c] = [@ EXCEPT !.kind = "test", !.on = t, !.at = a]]
    BY <1>1 DEF StartTest
  <2>2. call[c].at = "idle" /\ UNCHANGED <<rows, undone>>
    BY <1>1 DEF StartTest
  <2>. QED BY <2>1, <2>2, BeginAsideInv
<1>2. CASE ~StartTest(c)
  <2>1. call[c].at = "send" /\ UNCHANGED <<rows, undone>> /\ (Answer(c, "ok") \/ Answer(c, "failed"))
    BY <1>2 DEF SendEmail, SendSlack, SendTeams, SendPagerDuty, SendWebhook, Testing, Post
  <2>. QED BY <2>1, AnswerInv
<1>. QED BY <1>1, <1>2

LEMMA WindowInv ==
  ASSUME NoteInv, NEW c \in Call, CreateWindow(c) \/ GetWindow(c) \/ DeleteWindow(c) \/ CreateSnooze(c)
  PROVE  NoteInv'
<1>1. CASE CreateWindow(c)
  <2>1. PICK a \in {"get", "refused"} :
          call' = [call EXCEPT ![c] = [@ EXCEPT !.kind = "window", !.on = c, !.at = a]]
    BY <1>1 DEF CreateWindow
  <2>2. call[c].at = "idle" /\ UNCHANGED <<rows, undone>>
    BY <1>1 DEF CreateWindow
  <2>. QED BY <2>1, <2>2, BeginAsideInv
<1>2. CASE GetWindow(c)
  <2>1. PICK a \in {"failed", "ok"} : Answer(c, a)
    BY <1>2 DEF GetWindow
  <2>. QED BY <1>2, <2>1, AnswerInv DEF GetWindow
<1>3. CASE DeleteWindow(c)
  <2>1. PICK w \in Call, a \in {"missing", "ok"} :
          call' = [call EXCEPT ![c] = [@ EXCEPT !.kind = "delete", !.on = w, !.at = a]]
    BY <1>3 DEF DeleteWindow
  <2>2. call[c].at = "idle" /\ UNCHANGED <<rows, undone>>
    BY <1>3 DEF DeleteWindow
  <2>. QED BY <2>1, <2>2, BeginAsideInv
<1>4. CASE CreateSnooze(c)
  <2>1. call' = [call EXCEPT ![c] = [call[c] EXCEPT !.kind = "snooze", !.at = "ok"]]
        /\ call[c].at = "idle" /\ UNCHANGED <<rows, undone>> /\ call[c] \in NoticeCall
    BY <1>4 DEF CreateSnooze, NoteInv, NoteTypeOK
  <2> DEFINE k == [call[c] EXCEPT !.kind = "snooze", !.at = "ok"]
  <2>2. k \in NoticeCall /\ k.kind = "snooze" /\ k.at = "ok"
    BY <2>1 DEF NoticeCall, NoticeAt, Editing
  <2>3. call' = [call EXCEPT ![c] = k]
    BY <2>1
  <2> HIDE DEF k
  <2>. QED BY <2>1, <2>2, <2>3, AsideStep DEF Editing
<1>. QED BY <1>1, <1>2, <1>3, <1>4

\* The rows are gone, and with them what was asked of them.
LEMMA RestartNoticesInv ==
  ASSUME NoteInv, RestartNotices
  PROVE  NoteInv'
<1>1. rows' = [c \in Call |-> Absent]
      /\ call' = [c \in Call |-> IF call[c].at \in Busy
                                 THEN [call[c] EXCEPT !.at = "lost"] ELSE call[c]]
  BY DEF RestartNotices
<1>2. [f \in Field |-> NoCall] \in [Field -> Call \cup {NoCall}]
  OBVIOUS
<1>3. Absent \in NoticeRow /\ Absent.table = "none"
  BY <1>2 DEF Absent, NoticeRow, ChannelType
<1>4. rows' \in [Call -> NoticeRow] /\ \A t : ~There(t)'
  BY <1>1, <1>3 DEF There
<1>5. ASSUME NEW d \in Call
      PROVE  /\ call'[d] \in NoticeCall /\ call'[d].kind = call[d].kind /\ call'[d].on = call[d].on
             /\ call'[d].next = call[d].next
             /\ call'[d].at \notin Busy
             /\ call'[d].at \in {"idle", "ok"} => call'[d].at = call[d].at
             /\ call[d].at # "idle" => call'[d].at # "idle"
  <2>1. call[d] \in NoticeCall
    BY DEF NoteInv, NoteTypeOK
  <2>2. CASE call[d].at \in Busy
    <3> DEFINE k == [call[d] EXCEPT !.at = "lost"]
    <3>1. k \in NoticeCall /\ k.kind = call[d].kind /\ k.on = call[d].on /\ k.next = call[d].next
          /\ k.at = "lost"
      BY <2>1 DEF NoticeCall, NoticeAt, Editing
    <3>2. call'[d] = k
      BY <1>1, <2>2
    <3> HIDE DEF k
    <3>. QED BY <2>2, <3>1, <3>2 DEF Busy
  <2>3. CASE call[d].at \notin Busy
    BY <1>1, <2>1, <2>3
  <2>. QED BY <2>2, <2>3
<1>6. call' \in [Call -> NoticeCall]
  BY <1>1, <1>5
<1>7. ASSUME NEW c \in Call PROVE CallOK(c)'
  <2>1. call[c] \in NoticeCall /\ CallOK(c)
    BY DEF NoteInv, NoteTypeOK
  <2>2. ASSUME call[c].kind = "update", call'[c].at = "ok" PROVE UpdateOK(c)'
    <3>1. call[c].at = "ok" /\ UpdateOK(c)
      BY <1>5, <2>1, <2>2 DEF CallOK
    <3>2. call'[c].on \in Call /\ call'[call'[c].on].at # "idle"
      BY <1>5, <3>1 DEF UpdateOK
    <3>. QED BY <1>4, <2>2, <3>2 DEF UpdateOK, Editing
  <2>. QED BY <1>5, <2>1, <2>2 DEF CallOK, Editing, Busy
<1>8. \A t \in Call : RowOK(t)'
  BY <1>4 DEF RowOK
<1>. QED BY <1>4, <1>6, <1>7, <1>8 DEF NoteInv, NoteTypeOK

LEMMA NoteInvNext == NoteInv /\ [NoteNext]_noteVars => NoteInv'
<1> SUFFICES ASSUME NoteInv, [NoteNext]_noteVars PROVE NoteInv'
  OBVIOUS
<1>1. CASE Tick \/ UNCHANGED noteVars
  <2>1. UNCHANGED <<rows, call, undone>>
    BY <1>1 DEF Tick, noteVars
  <2>2. Later
    BY <2>1 DEF Later, There
  <2>3. \A c \in Call : CallOK(c)'
    BY <2>1, <2>2, CallKept
  <2>4. \A t \in Call : RowOK(t)'
    BY <2>1 DEF NoteInv, RowOK, There, Author
  <2>. QED BY <2>1, <2>3, <2>4 DEF NoteInv, NoteTypeOK
<1>. QED
  BY <1>1, CreateInv, StartUpdateInv, EditFieldInv, UpdateDoneInv, StoreFieldInv, TestInv, WindowInv,
     RestartNoticesInv DEF NoteNext

\* notifyChannelUpdate and notifyPolicyUpdate write the stored row itself, field
\* by field and without a lock, and UpdatePolicy puts back what it read.  For any
\* number of requests that overlap in any way: whoever set a field was asked to,
\* and an update that was answered keeps what it set until another update sets
\* that field, but for fields written between such a read and its write.
THEOREM UpdatesAreKept == NoteSpec => []NoUpdateIsLost
<1>1. NoteInv => NoUpdateIsLost
  <2> SUFFICES ASSUME NoteInv, NEW t \in Call, There(t), NEW f \in Field
        PROVE  /\ rows[t].by[f] \notin {t, NoCall} =>
                    /\ call[rows[t].by[f]].on = t
                    /\ \/ f \in call[rows[t].by[f]].given
                       \/ f = "scope" /\ rows[t].table = "policy"
               /\ \A u \in Call : /\ call[u].kind = "update" /\ call[u].at = "ok" /\ call[u].on = t
                                  /\ \/ f \in call[u].given
                                     \/ f = "scope" /\ rows[t].table = "policy"
                                  /\ <<t, f>> \notin undone
                                  => rows[t].by[f] \notin {t, NoCall}
    BY DEF NoUpdateIsLost
  <2>1. ASSUME NEW u \in Call, call[u].kind = "update", call[u].at = "ok", call[u].on = t,
               f \in call[u].given \/ (f = "scope" /\ rows[t].table = "policy"),
               <<t, f>> \notin undone
        PROVE  rows[t].by[f] \notin {t, NoCall}
    <3>1. call[u].given \subseteq FieldsOf(rows[t].table) /\ Passed(u)
      BY <2>1 DEF NoteInv, CallOK, UpdateOK
    <3>2. f \in FieldsOf(rows[t].table) /\ f \in Written(u)
      BY <2>1, <3>1, FieldsOfTables DEF Written
    <3>3. PICK i \in DOMAIN Fields(rows[t].table) : Fields(rows[t].table)[i] = f
      BY <3>2 DEF FieldsOf
    <3>. QED BY <2>1, <3>1, <3>2, <3>3 DEF Passed
  <2>2. Author(rows[t].by[f], t, f)
    BY DEF NoteInv, RowOK
  <2>. QED BY <2>1, <2>2 DEF Author
<1>. QED
  BY <1>1, NoteInvInit, NoteInvNext, PTL DEF NoteSpec

-----------------------------------------------------------------------------
(* SearchIndex.                                                            *)

Steps == {"delete", "create", "settings", "documents"}
SyncAt == {"idle", "list", "ensure", "wait", "failed", "over", "retry"} \cup Steps
SyncRow == [at : SyncAt, doing : Steps \cup {"none"}, nodes : SUBSET Device, listed : [Device -> Nat]]
TaskRow == [kind : Steps, by : Syncer, nodes : SUBSET Device, rows : [Device -> Nat]]

SearchTypeOK ==
  /\ saved \in [Device -> Nat \ {0}] /\ index \in [Device -> Nat]
  /\ tasks \in Seq(TaskRow) /\ syncer \in [Syncer -> SyncRow]
  /\ behind \subseteq Device

\* Only documents are of devices.
TasksOfKind == \A i \in DOMAIN tasks : tasks[i].kind # "documents" => tasks[i].nodes = {}

\* s will list the row of n; s has listed it and not finished with it; and of
\* these the one that has not yet posted it.
Listing(s, n) == syncer[s].at = "list" /\ n \in syncer[s].nodes
Carries(s, n) == syncer[s].at \in {"ensure", "wait", "failed"} \cup Steps /\ n \in syncer[s].nodes
Posting(s) == syncer[s].at \in {"wait", "failed"} /\ syncer[s].doing = "documents"
Holds(s, n) == Carries(s, n) /\ ~Posting(s)

\* One synchronisation at a time carries n, and a task for n is the one it waits for.
CarriedOnce(n) ==
  /\ \A s, t \in Syncer : Carries(s, n) /\ Carries(t, n) => s = t
  /\ \A i \in DOMAIN tasks : n \in tasks[i].nodes =>
       /\ Carries(tasks[i].by, n)
       /\ syncer[tasks[i].by].at = "wait" /\ syncer[tasks[i].by].doing = "documents"
  /\ \A i, j \in DOMAIN tasks : n \in tasks[i].nodes /\ n \in tasks[j].nodes => i = j

\* The row of n will be listed again.
Marked(n) == n \in touched \cup pending \cup due \/ \E s \in Syncer : Listing(s, n)

\* The row of n is on its way to the index, or there.
Fresh(n) ==
  /\ \A s \in Syncer : Holds(s, n) => syncer[s].listed[n] = saved[n]
  /\ \A i \in DOMAIN tasks : n \in tasks[i].nodes => tasks[i].rows[n] = saved[n]
  /\ (\A s \in Syncer : ~Holds(s, n)) /\ ~Queued(n) => index[n] = saved[n]

FollowsRow(n) == n \notin behind => CarriedOnce(n) /\ (~Marked(n) => Fresh(n))

\* A full synchronisation that failed holds nothing.
RetryIsEmpty == syncer["full"].at = "retry" => syncer["full"].nodes = {}

SearchInv == SearchTypeOK /\ TasksOfKind /\ RetryIsEmpty /\ \A n \in Device : FollowsRow(n)

LEMMA SyncersDiffer == "loop" \in Syncer /\ "full" \in Syncer /\ "loop" # "full" /\ "loop" \notin Patch /\ "full" \notin Patch
BY SearchAssumption DEF Syncer

LEMMA RestingSound ==
  ASSUME NEW a \in SyncAt
  PROVE  [Resting EXCEPT !.at = a] \in SyncRow /\ [Resting EXCEPT !.at = a].at = a
         /\ [Resting EXCEPT !.at = a].nodes = {}
<1>1. [n \in Device |-> 0] \in [Device -> Nat]
  OBVIOUS
<1>. QED BY <1>1 DEF Resting, SyncRow, SyncAt, Steps

LEMMA SearchInvInit == SearchInit => SearchInv
<1> SUFFICES ASSUME SearchInit PROVE SearchInv
  OBVIOUS
<1>1. ASSUME NEW s \in Syncer
      PROVE  syncer[s] \in SyncRow /\ syncer[s].at \in {"ensure", "idle"} /\ syncer[s].nodes = {}
  <2>1. CASE s = "full"
    <3>1. syncer[s] = [Resting EXCEPT !.at = "ensure"]
      BY <2>1 DEF SearchInit
    <3>2. "ensure" \in SyncAt
      BY DEF SyncAt
    <3>. QED BY <3>1, <3>2, RestingSound
  <2>2. CASE s # "full"
    <3>1. syncer[s] = [Resting EXCEPT !.at = "idle"]
      BY <2>2 DEF SearchInit
    <3>2. "idle" \in SyncAt
      BY DEF SyncAt
    <3>. QED BY <3>1, <3>2, RestingSound
  <2>. QED BY <2>1, <2>2
<1>2. syncer \in [Syncer -> SyncRow]
  BY <1>1 DEF SearchInit
<1>3. SearchTypeOK
  <2>1. [n \in Device |-> 1] \in [Device -> Nat \ {0}] /\ [n \in Device |-> 0] \in [Device -> Nat]
    OBVIOUS
  <2>2. <<>> \in Seq(TaskRow)
    OBVIOUS
  <2>3. tasks = <<>>
    BY DEF SearchInit
  <2>. QED BY <1>2, <2>1, <2>2, <2>3, Zenon DEF SearchInit, SearchTypeOK
<1>4. TasksOfKind
  <2>1. tasks = <<>>
    BY DEF SearchInit
  <2>2. DOMAIN tasks = {}
    BY <2>1
  <2>. QED BY <2>2 DEF TasksOfKind
<1>. QED BY <1>1, <1>3, <1>4, SyncersDiffer DEF SearchInit, SearchInv, FollowsRow, RetryIsEmpty

\* A row that is written anew is marked, or behind.
LEMMA StoreStep ==
  ASSUME SearchInv, NEW n \in Device, Store(n), UNCHANGED <<index, tasks>>,
         syncer' \in [Syncer -> SyncRow], behind' \subseteq Device, behind \subseteq behind',
         \A s \in Syncer : \/ syncer'[s] = syncer[s]
                           \/ /\ syncer'[s].at = "list" /\ syncer'[s].nodes = {n} /\ s # "full"
                              /\ syncer[s].at = "idle",
         touched \cup pending \cup due \subseteq touched' \cup pending' \cup due',
         n \in behind' \/ Marked(n)'
  PROVE  SearchInv'
<1>1. saved' \in [Device -> Nat \ {0}] /\ \A d \in Device \ {n} : saved'[d] = saved[d]
  BY DEF Store, SearchInv, SearchTypeOK
<1>2. SearchTypeOK'
  BY <1>1 DEF SearchInv, SearchTypeOK
<1>3. TasksOfKind'
  BY DEF SearchInv, TasksOfKind
<1>4. ASSUME NEW d \in Device, d \notin behind'
      PROVE  CarriedOnce(d)' /\ (~Marked(d)' => Fresh(d)')
  <2>1. \A s \in Syncer : /\ Carries(s, d)' <=> Carries(s, d)
                          /\ Holds(s, d)' <=> Holds(s, d)
                          /\ Carries(s, d) \/ Holds(s, d) => syncer'[s] = syncer[s]
    BY DEF Carries, Holds, Posting, Steps
  <2>2. CarriedOnce(d) /\ (~Marked(d) => Fresh(d)) /\ d \notin behind
    BY <1>4 DEF SearchInv, FollowsRow
  <2>3. tasks' = tasks /\ index' = index
    OBVIOUS
  <2>4. \A i \in DOMAIN tasks : tasks[i].by \in Syncer
    <3>1. \A i \in DOMAIN tasks : tasks[i] \in TaskRow
      BY DEF SearchInv, SearchTypeOK
    <3>. QED BY <3>1 DEF TaskRow
  <2>5. CarriedOnce(d)'
    BY <2>1, <2>2, <2>3, <2>4 DEF CarriedOnce
  <2>6. ASSUME ~Marked(d)' PROVE Fresh(d)'
    <3>1. d # n
      BY <1>4, <2>6
    <3>2. ~Marked(d)
      BY <2>6, <3>1 DEF Marked, Listing
    <3>3. saved'[d] = saved[d]
      BY <1>1, <3>1
    <3>. QED BY <2>1, <2>2, <2>3, <3>2, <3>3 DEF Fresh, Queued
  <2>. QED BY <2>5, <2>6
<1>5. RetryIsEmpty'
  BY SyncersDiffer DEF SearchInv, RetryIsEmpty
<1>. QED BY <1>2, <1>3, <1>4, <1>5 DEF SearchInv, FollowsRow

LEMMA WritesInv ==
  ASSUME SearchInv, NEW n \in Device, WriteRow(n) \/ Heartbeat(n) \/ \E p \in Patch : PatchDeviceTags(p, n)
  PROVE  SearchInv'
<1>0. behind \subseteq Device /\ syncer \in [Syncer -> SyncRow]
  BY DEF SearchInv, SearchTypeOK
<1>1. CASE WriteRow(n)
  <2>1. Store(n) /\ UNCHANGED <<index, tasks, shape, syncer, behind, pending, due>> /\ n \in touched'
        /\ touched \subseteq touched'
    BY <1>1 DEF WriteRow
  <2>2. Marked(n)'
    BY <2>1 DEF Marked
  <2>. QED BY <1>0, <2>1, <2>2, StoreStep
<1>2. CASE Heartbeat(n)
  BY <1>0, <1>2, StoreStep DEF Heartbeat
<1>3. ASSUME NEW p \in Patch, PatchDeviceTags(p, n) PROVE SearchInv'
  <2> DEFINE r == [Resting EXCEPT !.at = "list", !.nodes = {n}]
  <2>1. [d \in Device |-> 0] \in [Device -> Nat]
    OBVIOUS
  <2>2. r \in SyncRow /\ r.at = "list" /\ r.nodes = {n}
    BY <2>1 DEF Resting, SyncRow, SyncAt, Steps
  <2>3. syncer' = [syncer EXCEPT ![p] = r] /\ syncer[p].at = "idle"
    BY <1>3 DEF PatchDeviceTags
  <2> HIDE DEF r
  <2>4. p \in Syncer /\ p # "full"
    BY SearchAssumption DEF Syncer
  <2>5. syncer' \in [Syncer -> SyncRow] /\ \A s \in Syncer : syncer'[s] = IF s = p THEN r ELSE syncer[s]
    BY <1>0, <2>2, <2>3
  <2>6. Marked(n)'
    BY <2>2, <2>4, <2>5 DEF Marked, Listing
  <2>. QED BY <1>0, <1>3, <2>2, <2>3, <2>4, <2>5, <2>6, StoreStep DEF PatchDeviceTags
<1>. QED BY <1>1, <1>2, <1>3

\* Only the marks move: from a touched device to the queue, to the loop.
LEMMA MarkStep ==
  ASSUME SearchInv, UNCHANGED <<saved, index, tasks, behind>>,
         syncer' \in [Syncer -> SyncRow],
         \A s \in Syncer : \/ syncer'[s] = syncer[s]
                           \/ syncer'[s].at = "list" /\ syncer[s].at = "idle" /\ s # "full"
                           \/ syncer'[s].at = "ensure" /\ syncer'[s].nodes = {} /\ syncer[s].at = "retry",
         \A d \in Device : Marked(d) => Marked(d)'
  PROVE  SearchInv'
<1>1. SearchTypeOK'
  BY DEF SearchInv, SearchTypeOK
<1>2. TasksOfKind' /\ RetryIsEmpty'
  BY SyncersDiffer DEF SearchInv, TasksOfKind, RetryIsEmpty
<1>3. ASSUME NEW d \in Device, d \notin behind
      PROVE  CarriedOnce(d)' /\ (~Marked(d)' => Fresh(d)')
  <2>1. \A s \in Syncer : /\ Carries(s, d)' <=> Carries(s, d)
                          /\ Holds(s, d)' <=> Holds(s, d)
                          /\ Carries(s, d) \/ Holds(s, d) => syncer'[s] = syncer[s]
    BY DEF Carries, Holds, Posting, Steps
  <2>2. CarriedOnce(d) /\ (~Marked(d) => Fresh(d))
    BY <1>3 DEF SearchInv, FollowsRow
  <2>3. \A i \in DOMAIN tasks : tasks[i].by \in Syncer
    <3>1. \A i \in DOMAIN tasks : tasks[i] \in TaskRow
      BY DEF SearchInv, SearchTypeOK
    <3>. QED BY <3>1 DEF TaskRow
  <2>4. tasks' = tasks /\ index' = index /\ saved' = saved
    OBVIOUS
  <2>5. CarriedOnce(d)'
    BY <2>1, <2>2, <2>3, <2>4 DEF CarriedOnce
  <2>6. Fresh(d) => Fresh(d)'
    BY <2>1, <2>4 DEF Fresh, Queued
  <2>. QED BY <2>2, <2>5, <2>6
<1>. QED BY <1>1, <1>2, <1>3 DEF SearchInv, FollowsRow

LEMMA QueueInv ==
  ASSUME SearchInv,
         ClaimDue \/ RetryMeiliSync \/ \E n \in Device : Touch(n) \/ LoopNext(n)
  PROVE  SearchInv'
<1>0. syncer \in [Syncer -> SyncRow]
  BY DEF SearchInv, SearchTypeOK
<1>1. ASSUME NEW n \in Device, Touch(n) PROVE SearchInv'
  <2>1. UNCHANGED <<saved, index, tasks, behind, syncer>>
    BY <1>1 DEF Touch
  <2>2. \A d \in Device : Marked(d) => Marked(d)'
    BY <1>1 DEF Touch, Marked, Listing
  <2>. QED BY <1>0, <2>1, <2>2, MarkStep
<1>2. CASE ClaimDue
  <2>1. UNCHANGED <<saved, index, tasks, behind, syncer>>
    BY <1>2 DEF ClaimDue
  <2>2. \A d \in Device : Marked(d) => Marked(d)'
    BY <1>2 DEF ClaimDue, Marked, Listing
  <2>. QED BY <1>0, <2>1, <2>2, MarkStep
<1>3. ASSUME NEW n \in Device, LoopNext(n) PROVE SearchInv'
  <2> DEFINE r == [Resting EXCEPT !.at = "list", !.nodes = {n}]
  <2>1. [d \in Device |-> 0] \in [Device -> Nat]
    OBVIOUS
  <2>2. r \in SyncRow /\ r.at = "list" /\ r.nodes = {n}
    BY <2>1 DEF Resting, SyncRow, SyncAt, Steps
  <2>3. syncer' = [syncer EXCEPT !["loop"] = r] /\ syncer["loop"].at = "idle"
    BY <1>3 DEF LoopNext
  <2>4. UNCHANGED <<saved, index, tasks, behind, pending, touched>> /\ due' = due \ {n}
    BY <1>3 DEF LoopNext
  <2> HIDE DEF r
  <2>5. syncer' \in [Syncer -> SyncRow] /\ \A s \in Syncer : syncer'[s] = IF s = "loop" THEN r ELSE syncer[s]
    BY <1>0, <2>2, <2>3
  <2>6. \A d \in Device : Marked(d) => Marked(d)'
    BY <2>2, <2>3, <2>4, <2>5, SyncersDiffer DEF Marked, Listing
  <2>. QED BY <2>2, <2>3, <2>4, <2>5, <2>6, SyncersDiffer, MarkStep
<1>4. CASE RetryMeiliSync
  <2> DEFINE r == [syncer["full"] EXCEPT !.at = "ensure"]
  <2>1. UNCHANGED <<saved, index, tasks, behind, pending, due, touched>>
        /\ syncer["full"].at = "retry" /\ syncer["full"] \in SyncRow
    BY <1>0, <1>4, SyncersDiffer DEF RetryMeiliSync
  <2>2. syncer["full"].nodes = {}
    BY <2>1 DEF SearchInv, RetryIsEmpty
  <2>3. r \in SyncRow /\ r.at = "ensure" /\ r.nodes = {}
    BY <2>1, <2>2 DEF SyncRow, SyncAt
  <2>4. syncer' = [syncer EXCEPT !["full"] = r]
    BY <1>4 DEF RetryMeiliSync
  <2> HIDE DEF r
  <2>5. syncer' \in [Syncer -> SyncRow] /\ \A s \in Syncer : syncer'[s] = IF s = "full" THEN r ELSE syncer[s]
    BY <1>0, <2>3, <2>4
  <2>6. \A d \in Device : Marked(d) => Marked(d)'
    BY <2>1, <2>5 DEF Marked, Listing
  <2>. QED BY <2>1, <2>3, <2>5, <2>6, MarkStep
<1>. QED BY <1>1, <1>2, <1>3, <1>4

LEMMA TaskIsRow == SearchTypeOK => \A i \in DOMAIN tasks : tasks[i] \in TaskRow /\ tasks[i].by \in Syncer
<1> SUFFICES ASSUME SearchTypeOK PROVE \A i \in DOMAIN tasks : tasks[i] \in TaskRow /\ tasks[i].by \in Syncer
  OBVIOUS
<1>1. \A i \in DOMAIN tasks : tasks[i] \in TaskRow
  BY DEF SearchTypeOK
<1>. QED BY <1>1 DEF TaskRow

\* A row that is listed while nobody else carries it is the newest there is.
LEMMA ListRowsInv ==
  ASSUME SearchInv, NEW s \in Syncer, NEW to \in {"ensure", "documents"},
         s = "full" <=> to = "documents", ListRows(s, "list", to)
  PROVE  SearchInv'
<1> DEFINE nodes == IF s = "full" THEN Device ELSE syncer[s].nodes
           Contended(n) == Queued(n) \/ \E t \in Syncer \ {s} : Syncs(t, n) /\ syncer[t].at # "list"
           r == [at |-> to, doing |-> "none", nodes |-> nodes, listed |-> saved]
<1>1. /\ syncer[s].at = "list" /\ syncer' = [syncer EXCEPT ![s] = r]
      /\ behind' = {n \in behind : n \notin nodes} \cup {n \in nodes : Contended(n)}
      /\ UNCHANGED <<saved, index, shape, tasks, pending, due, touched>>
  BY DEF ListRows
<1>2. nodes \subseteq Device /\ (s # "full" => nodes = syncer[s].nodes) /\ (s = "full" => nodes = Device)
  BY DEF SearchInv, SearchTypeOK, SyncRow
<1>3. \A n : Contended(n) <=> Queued(n) \/ \E t \in Syncer \ {s} : Carries(t, n)
  <2>1. \A t \in Syncer : syncer[t].at \in SyncAt
    BY DEF SearchInv, SearchTypeOK, SyncRow
  <2>. QED BY <2>1 DEF Syncs, Working, Carries, SyncAt, Steps
<1> HIDE DEF nodes, Contended
<1>4. r \in SyncRow /\ r.at = to /\ r.doing = "none" /\ r.nodes = nodes /\ r.listed = saved
  BY <1>2 DEF SearchInv, SearchTypeOK, SyncRow, SyncAt, Steps
<1> HIDE DEF r
<1>5. syncer' \in [Syncer -> SyncRow] /\ \A t \in Syncer : syncer'[t] = IF t = s THEN r ELSE syncer[t]
  BY <1>1, <1>4 DEF SearchInv, SearchTypeOK
<1>6. SearchTypeOK'
  BY <1>1, <1>2, <1>5 DEF SearchInv, SearchTypeOK
<1>7. TasksOfKind'
  BY <1>1 DEF SearchInv, TasksOfKind
<1>8. RetryIsEmpty'
  BY <1>1, <1>4, <1>5, SyncersDiffer DEF SearchInv, RetryIsEmpty
<1>9. ASSUME NEW d \in Device, d \notin behind'
      PROVE  CarriedOnce(d)' /\ (~Marked(d)' => Fresh(d)')
  <2>1. CASE d \in nodes
    <3>1. ~Queued(d) /\ \A t \in Syncer \ {s} : ~Carries(t, d)
      BY <1>1, <1>3, <1>9, <2>1
    <3>2. \A t \in Syncer : Carries(t, d)' => t = s
      BY <1>5, <3>1 DEF Carries, Steps
    <3>3. \A i \in DOMAIN tasks' : d \notin tasks'[i].nodes
      BY <1>1, <3>1 DEF Queued
    <3>4. CarriedOnce(d)'
      BY <3>2, <3>3 DEF CarriedOnce
    <3>5. Holds(s, d)' /\ syncer'[s].listed[d] = saved'[d]
      BY <1>1, <1>4, <1>5, <2>1 DEF Holds, Carries, Posting, Steps
    <3>6. \A t \in Syncer : Holds(t, d)' => t = s
      BY <3>2 DEF Holds, Carries
    <3>7. Fresh(d)'
      BY <3>3, <3>5, <3>6 DEF Fresh
    <3>. QED BY <3>4, <3>7
  <2>2. CASE d \notin nodes
    <3>1. d \notin behind /\ d \notin syncer[s].nodes
      BY <1>1, <1>2, <1>9, <2>2
    <3>2. \A t \in Syncer : /\ Carries(t, d)' <=> Carries(t, d)
                            /\ Holds(t, d)' <=> Holds(t, d)
                            /\ Listing(t, d)' <=> Listing(t, d)
                            /\ Carries(t, d) \/ Holds(t, d) => syncer'[t] = syncer[t]
      BY <1>4, <1>5, <2>2, <3>1 DEF Carries, Holds, Posting, Listing, Steps
    <3>3. CarriedOnce(d) /\ (~Marked(d) => Fresh(d))
      BY <3>1 DEF SearchInv, FollowsRow
    <3>4. CarriedOnce(d)'
      BY <1>1, <3>2, <3>3, TaskIsRow DEF CarriedOnce, SearchInv
    <3>5. Marked(d)' <=> Marked(d)
      BY <1>1, <3>2 DEF Marked
    <3>6. Fresh(d) => Fresh(d)'
      BY <1>1, <3>2 DEF Fresh, Queued
    <3>. QED BY <3>3, <3>4, <3>5, <3>6
  <2>. QED BY <2>1, <2>2
<1>. QED BY <1>6, <1>7, <1>8, <1>9 DEF SearchInv, FollowsRow

\* A synchronisation goes on while it still holds its rows, or goes to list them;
\* a task of no devices may be queued on the way.
LEMMA HoldStep ==
  ASSUME SearchInv, NEW s \in Syncer, NEW r \in SyncRow, syncer' = [syncer EXCEPT ![s] = r],
         r.nodes = syncer[s].nodes, r.listed = syncer[s].listed,
         syncer[s].at \in {"ensure", "wait"} \cup Steps, ~Posting(s),
         \/ r.at = "list"
         \/ r.at \in Steps \/ (r.at = "wait" /\ r.doing # "documents"),
         UNCHANGED <<saved, index, pending, due, touched, behind>>,
         tasks' \in Seq(TaskRow), TasksOfKind', DOMAIN tasks \subseteq DOMAIN tasks',
         \A i \in DOMAIN tasks : tasks'[i] = tasks[i],
         \A i \in DOMAIN tasks' : i \in DOMAIN tasks \/ tasks'[i].nodes = {}
  PROVE  SearchInv'
<1>1. syncer' \in [Syncer -> SyncRow] /\ \A t \in Syncer : syncer'[t] = IF t = s THEN r ELSE syncer[t]
  BY DEF SearchInv, SearchTypeOK
<1>2. SearchTypeOK'
  BY <1>1 DEF SearchInv, SearchTypeOK
<1>3. RetryIsEmpty'
  BY <1>1, SyncersDiffer DEF SearchInv, RetryIsEmpty, Steps
<1>4. ASSUME NEW d \in Device, d \notin behind
      PROVE  CarriedOnce(d)' /\ (~Marked(d)' => Fresh(d)')
  <2>1. CarriedOnce(d) /\ (~Marked(d) => Fresh(d))
    BY <1>4 DEF SearchInv, FollowsRow
  <2>2. \A i \in DOMAIN tasks' : d \in tasks'[i].nodes =>
          i \in DOMAIN tasks /\ tasks'[i] = tasks[i] /\ tasks[i].by \in Syncer /\ tasks[i].by # s
    <3>1. \A i \in DOMAIN tasks : d \in tasks[i].nodes => tasks[i].by # s
      BY <2>1 DEF CarriedOnce, Posting
    <3>. QED BY <3>1, TaskIsRow DEF SearchInv
  <2>3. \A t \in Syncer : /\ Carries(t, d)' => Carries(t, d)
                          /\ t # s => syncer'[t] = syncer[t] /\ (Carries(t, d)' <=> Carries(t, d))
    BY <1>1 DEF Carries
  <2>4. CarriedOnce(d)'
    <3>1. \A t, u \in Syncer : Carries(t, d)' /\ Carries(u, d)' => t = u
      BY <2>1, <2>3 DEF CarriedOnce
    <3>2. \A i \in DOMAIN tasks' : d \in tasks'[i].nodes =>
            /\ Carries(tasks[i].by, d)'
            /\ syncer'[tasks'[i].by].at = "wait" /\ syncer'[tasks'[i].by].doing = "documents"
      BY <2>1, <2>2, <2>3 DEF CarriedOnce
    <3>3. \A i, j \in DOMAIN tasks' : d \in tasks'[i].nodes /\ d \in tasks'[j].nodes => i = j
      BY <2>1, <2>2 DEF CarriedOnce
    <3>. QED BY <3>1, <3>2, <3>3 DEF CarriedOnce
  <2>5. ASSUME ~Marked(d)' PROVE Fresh(d)'
    <3>1. ~Listing(s, d)'
      BY <2>5 DEF Marked
    <3>2. \A t \in Syncer : t # s => (Listing(t, d)' <=> Listing(t, d))
      BY <1>1 DEF Listing
    <3>3. ~Listing(s, d)
      BY DEF Listing, Steps
    <3>4. ~Marked(d)
      BY <2>5, <3>1, <3>2, <3>3 DEF Marked
    <3>5. Holds(s, d)' <=> Holds(s, d)
      BY <1>1, <3>1 DEF Holds, Carries, Posting, Listing, Steps
    <3>6. \A t \in Syncer : /\ Holds(t, d)' <=> Holds(t, d)
                            /\ syncer'[t].listed = syncer[t].listed
      BY <1>1, <3>5 DEF Holds, Carries, Posting
    <3>7. Queued(d)' <=> Queued(d)
      BY <2>2 DEF Queued
    <3>. QED BY <2>1, <2>2, <3>4, <3>6, <3>7 DEF Fresh
  <2>. QED BY <2>4, <2>5
<1>. QED BY <1>2, <1>3, <1>4 DEF SearchInv, FollowsRow

LEMMA EnsureIndexInv ==
  ASSUME SearchInv, NEW s \in Syncer, EnsureIndex(s)
  PROVE  SearchInv'
<1>1. PICK a \in {"create", "delete", "settings"} : syncer' = [syncer EXCEPT ![s].at = a]
  BY DEF EnsureIndex
<1> DEFINE r == [syncer[s] EXCEPT !.at = a]
<1>2. syncer[s] \in SyncRow /\ tasks \in Seq(TaskRow) /\ TasksOfKind
  BY DEF SearchInv, SearchTypeOK
<1>3. r \in SyncRow /\ r.at = a /\ r.nodes = syncer[s].nodes /\ r.listed = syncer[s].listed
  BY <1>2 DEF SyncRow, SyncAt, Steps
<1>4. syncer' = [syncer EXCEPT ![s] = r]
  BY <1>1
<1> HIDE DEF r
<1>5. /\ syncer[s].at = "ensure"
      /\ UNCHANGED <<saved, index, tasks, pending, due, touched, behind>>
  BY DEF EnsureIndex
<1>6. ~Posting(s) /\ TasksOfKind' /\ r.at \in Steps
  BY <1>2, <1>3, <1>5 DEF Posting, TasksOfKind, Steps
<1>. QED BY <1>2, <1>3, <1>4, <1>5, <1>6, HoldStep

\* The rows of the one that posts documents are the only ones in the queue.
LEMMA PostTaskInv ==
  ASSUME SearchInv, NEW s \in Syncer, PostTask(s)
  PROVE  SearchInv'
<1> DEFINE kind == syncer[s].at
           carried == IF kind = "documents" THEN syncer[s].nodes ELSE {}
           task == [kind |-> kind, by |-> s, nodes |-> carried, rows |-> syncer[s].listed]
           r == [syncer[s] EXCEPT !.at = "wait", !.doing = kind]
           last == Len(tasks) + 1
<1>1. /\ kind \in Steps /\ syncer' = [syncer EXCEPT ![s] = r]
      /\ tasks' = Append(tasks, task)
      /\ UNCHANGED <<saved, index, pending, due, touched, behind>>
  BY DEF PostTask, Steps
<1>2. syncer[s] \in SyncRow /\ tasks \in Seq(TaskRow) /\ TasksOfKind
  BY DEF SearchInv, SearchTypeOK
<1>3. carried \subseteq Device /\ (kind # "documents" => carried = {})
      /\ (kind = "documents" => carried = syncer[s].nodes)
  BY <1>2 DEF SyncRow
<1>. HIDE DEF carried
<1>4. /\ task \in TaskRow /\ task.by = s /\ task.nodes = carried /\ task.rows = syncer[s].listed
      /\ task.kind = kind
  BY <1>1, <1>2, <1>3 DEF SyncRow, TaskRow
<1>5. /\ r \in SyncRow /\ r.at = "wait" /\ r.doing = kind
      /\ r.nodes = syncer[s].nodes /\ r.listed = syncer[s].listed
  BY <1>1, <1>2 DEF SyncRow, SyncAt
<1>. HIDE DEF task, r
<1>6. syncer' \in [Syncer -> SyncRow] /\ \A t \in Syncer : syncer'[t] = IF t = s THEN r ELSE syncer[t]
  BY <1>1, <1>5 DEF SearchInv, SearchTypeOK
<1>7. /\ tasks' \in Seq(TaskRow)
      /\ DOMAIN tasks' = DOMAIN tasks \cup {last} /\ last \notin DOMAIN tasks
      /\ tasks'[last] = task /\ \A i \in DOMAIN tasks : tasks'[i] = tasks[i]
  BY <1>1, <1>2, <1>4
<1>. HIDE DEF last
<1>8. TasksOfKind'
  BY <1>2, <1>3, <1>4, <1>7 DEF TasksOfKind
<1>9. CASE kind # "documents"
  <2>1. \A i \in DOMAIN tasks' : i \in DOMAIN tasks \/ tasks'[i].nodes = {}
    BY <1>3, <1>4, <1>7, <1>9
  <2>2. ~Posting(s)
    BY <1>1 DEF Posting, Steps
  <2>3. DOMAIN tasks \subseteq DOMAIN tasks'
    BY <1>7
  <2>. QED BY <1>1, <1>5, <1>7, <1>8, <1>9, <2>1, <2>2, <2>3, HoldStep
<1>10. CASE kind = "documents"
  <2>1. SearchTypeOK'
    BY <1>1, <1>6, <1>7 DEF SearchInv, SearchTypeOK
  <2>2. RetryIsEmpty'
    BY <1>5, <1>6, SyncersDiffer DEF SearchInv, RetryIsEmpty
  <2>3. ASSUME NEW d \in Device, d \notin behind
        PROVE  CarriedOnce(d)' /\ (~Marked(d)' => Fresh(d)')
    <3>1. CarriedOnce(d) /\ (~Marked(d) => Fresh(d))
      BY <2>3 DEF SearchInv, FollowsRow
    <3>2. \A t \in Syncer : /\ Carries(t, d)' <=> Carries(t, d)
                            /\ Listing(t, d)' <=> Listing(t, d)
                            /\ t # s => syncer'[t] = syncer[t] /\ (Holds(t, d)' <=> Holds(t, d))
      BY <1>5, <1>6, <1>10 DEF Carries, Listing, Holds, Posting, Steps
    <3>3. Marked(d)' <=> Marked(d)
      BY <1>1, <3>2 DEF Marked
    <3>4. ~Holds(s, d)' /\ (Holds(s, d) <=> d \in syncer[s].nodes) /\ (Carries(s, d) <=> d \in syncer[s].nodes)
      BY <1>5, <1>6, <1>10 DEF Holds, Carries, Posting, Steps
    <3>5. \A i \in DOMAIN tasks : d \in tasks[i].nodes => tasks[i].by # s /\ tasks[i].by \in Syncer
      BY <1>10, <3>1, TaskIsRow DEF CarriedOnce, SearchInv
    <3>6. CASE d \notin syncer[s].nodes
      <4>1. \A i \in DOMAIN tasks' : d \in tasks'[i].nodes => i \in DOMAIN tasks /\ tasks'[i] = tasks[i]
        BY <1>3, <1>4, <1>7, <1>10, <3>6
      <4>2. CarriedOnce(d)'
        BY <3>1, <3>2, <3>5, <4>1 DEF CarriedOnce
      <4>3. Queued(d)' <=> Queued(d)
        BY <1>7, <4>1 DEF Queued
      <4>4. Fresh(d) => Fresh(d)'
        BY <1>1, <3>2, <3>4, <3>6, <4>1, <4>3 DEF Fresh
      <4>. QED BY <3>1, <3>3, <4>2, <4>4
    <3>7. CASE d \in syncer[s].nodes
      <4>1. \A t \in Syncer : Carries(t, d) => t = s
        BY <3>1, <3>4, <3>7 DEF CarriedOnce
      <4>2. \A i \in DOMAIN tasks' : d \in tasks'[i].nodes => i = last
        BY <1>7, <3>1, <3>5, <4>1 DEF CarriedOnce
      <4>3. d \in tasks'[last].nodes /\ last \in DOMAIN tasks'
        BY <1>3, <1>4, <1>7, <1>10, <3>7
      <4>4. CarriedOnce(d)'
        <5>1. \A t, u \in Syncer : Carries(t, d)' /\ Carries(u, d)' => t = u
          BY <3>1, <3>2 DEF CarriedOnce
        <5>2. tasks'[last].by = s /\ Carries(s, d)' /\ syncer'[s].at = "wait" /\ syncer'[s].doing = "documents"
          BY <1>4, <1>5, <1>6, <1>7, <1>10, <3>2, <3>4, <3>7
        <5>. QED BY <4>2, <5>1, <5>2 DEF CarriedOnce
      <4>5. Queued(d)'
        BY <4>3 DEF Queued
      <4>6. \A t \in Syncer : ~Holds(t, d)'
        BY <3>2, <3>4, <4>1 DEF Holds
      <4>7. Fresh(d) => Fresh(d)'
        BY <1>1, <1>4, <1>7, <3>4, <3>7, <4>2, <4>5, <4>6 DEF Fresh
      <4>. QED BY <3>1, <3>3, <4>4, <4>7
    <3>. QED BY <3>6, <3>7
  <2>. QED BY <1>1, <1>8, <2>1, <2>2, <2>3 DEF SearchInv, FollowsRow
<1>. QED BY <1>9, <1>10

\* The task that is done is the only one for its devices.  One that fails leaves
\* them behind, and a deleted index those whose document it had: a device that is
\* not behind has no document then, so its row is still on its way.
LEMMA DoTaskInv ==
  ASSUME SearchInv, DoTask
  PROVE  SearchInv'
<1> DEFINE h == Head(tasks)
           lost == IF h.kind = "delete" THEN {n \in Device : index[n] # 0}
                   ELSE IF Fails(h.kind) THEN h.nodes ELSE {}
           written == [n \in Device |-> IF n \in h.nodes THEN h.rows[n] ELSE index[n]]
           awaited == syncer[h.by].at = "wait" /\ \A i \in DOMAIN Tail(tasks) : Tail(tasks)[i].by # h.by
<1>1. /\ tasks # <<>> /\ tasks' = Tail(tasks)
      /\ index' = (CASE h.kind = "delete" -> [n \in Device |-> 0] [] Fails(h.kind) -> index [] OTHER -> written)
      /\ behind' = behind \cup lost
      /\ syncer' = (IF Fails(h.kind) /\ awaited THEN [syncer EXCEPT ![h.by].at = "failed"] ELSE syncer)
      /\ UNCHANGED <<saved, pending, due, touched>>
  BY DEF DoTask
<1>2. tasks \in Seq(TaskRow) /\ index \in [Device -> Nat] /\ behind \subseteq Device /\ TasksOfKind
      /\ saved \in [Device -> Nat \ {0}] /\ syncer \in [Syncer -> SyncRow]
  BY DEF SearchInv, SearchTypeOK
<1>3. /\ 1 \in DOMAIN tasks /\ h = tasks[1] /\ h \in TaskRow /\ tasks' \in Seq(TaskRow)
      /\ \A i \in DOMAIN tasks' : i + 1 \in DOMAIN tasks /\ i + 1 # 1 /\ i \in Nat /\ tasks'[i] = tasks[i + 1]
      /\ \A i \in DOMAIN tasks : i # 1 => i - 1 \in DOMAIN tasks' /\ tasks'[i - 1] = tasks[i]
  BY <1>1, <1>2
<1>4. awaited <=> syncer[h.by].at = "wait" /\ \A i \in DOMAIN tasks' : tasks'[i].by # h.by
  BY <1>1
<1>. HIDE DEF h, awaited
<1>5. h.rows \in [Device -> Nat] /\ h.nodes \subseteq Device /\ h.by \in Syncer
      /\ (h.kind # "documents" => h.nodes = {})
  BY <1>2, <1>3 DEF TaskRow, TasksOfKind
<1>6. index' \in [Device -> Nat] /\ behind' \subseteq Device /\ behind \subseteq behind'
  <2>1. written \in [Device -> Nat] /\ [n \in Device |-> 0] \in [Device -> Nat] /\ lost \subseteq Device
    BY <1>2, <1>5
  <2>. HIDE DEF written, lost
  <2>. QED BY <1>1, <1>2, <2>1
<1>7. /\ syncer' \in [Syncer -> SyncRow]
      /\ \A t \in Syncer :
           \/ syncer'[t] = syncer[t]
           \/ /\ t = h.by /\ awaited /\ syncer[t].at = "wait" /\ syncer'[t].at = "failed"
              /\ syncer'[t].doing = syncer[t].doing
              /\ syncer'[t].nodes = syncer[t].nodes /\ syncer'[t].listed = syncer[t].listed
  <2>1. CASE syncer' = syncer
    BY <1>2, <2>1
  <2>2. CASE awaited /\ syncer' = [syncer EXCEPT ![h.by].at = "failed"]
    <3>1. syncer[h.by] \in SyncRow /\ syncer[h.by].at = "wait"
      BY <1>2, <1>4, <1>5, <2>2
    <3> DEFINE r == [syncer[h.by] EXCEPT !.at = "failed"]
    <3>2. /\ r \in SyncRow /\ r.at = "failed" /\ r.doing = syncer[h.by].doing
          /\ r.nodes = syncer[h.by].nodes /\ r.listed = syncer[h.by].listed
      BY <3>1 DEF SyncRow, SyncAt
    <3>3. syncer' = [syncer EXCEPT ![h.by] = r]
      BY <2>2
    <3>. HIDE DEF r
    <3>4. \A t \in Syncer : syncer'[t] = IF t = h.by THEN r ELSE syncer[t]
      BY <1>2, <3>3
    <3>. QED BY <1>2, <1>5, <2>2, <3>1, <3>2, <3>3, <3>4
  <2>. QED BY <1>1, <2>1, <2>2
<1>8. SearchTypeOK'
  BY <1>1, <1>3, <1>6, <1>7 DEF SearchInv, SearchTypeOK
<1>9. TasksOfKind' /\ RetryIsEmpty'
  <2>1. TasksOfKind'
    BY <1>2, <1>3 DEF TasksOfKind
  <2>2. RetryIsEmpty'
    BY <1>7, SyncersDiffer DEF SearchInv, RetryIsEmpty
  <2>. QED BY <2>1, <2>2
<1>10. ASSUME NEW d \in Device, d \notin behind'
       PROVE  CarriedOnce(d)' /\ (~Marked(d)' => Fresh(d)')
  <2>1. CarriedOnce(d) /\ (~Marked(d) => Fresh(d))
    BY <1>6, <1>10 DEF SearchInv, FollowsRow
  <2>2. /\ Marked(d)' <=> Marked(d)
        /\ \A t \in Syncer : /\ (Carries(t, d)' <=> Carries(t, d)) /\ (Holds(t, d)' <=> Holds(t, d))
                             /\ syncer'[t].listed = syncer[t].listed
    <3>1. \A t \in Syncer : /\ Carries(t, d)' <=> Carries(t, d)
                            /\ Holds(t, d)' <=> Holds(t, d)
                            /\ Listing(t, d)' <=> Listing(t, d)
                            /\ syncer'[t].listed = syncer[t].listed
      BY <1>7 DEF Listing, Carries, Holds, Posting, Steps
    <3>. QED BY <1>1, <3>1 DEF Marked
  <2>3. index'[d] = IF d \in h.nodes THEN h.rows[d] ELSE index[d]
    <3>1. CASE h.kind = "delete"
      BY <1>1, <1>2, <1>5, <1>10, <3>1
    <3>2. CASE h.kind # "delete" /\ Fails(h.kind)
      BY <1>1, <1>10, <3>2
    <3>3. CASE h.kind # "delete" /\ ~Fails(h.kind)
      BY <1>1, <3>3
    <3>. QED BY <3>1, <3>2, <3>3
  <2>4. \A i, j \in DOMAIN tasks' : d \in tasks'[i].nodes /\ d \in tasks'[j].nodes => i = j
    <3>1. ASSUME NEW i \in DOMAIN tasks', NEW j \in DOMAIN tasks',
                 d \in tasks'[i].nodes, d \in tasks'[j].nodes
          PROVE  i = j
      <4>1. d \in tasks[i + 1].nodes /\ d \in tasks[j + 1].nodes /\ i + 1 \in DOMAIN tasks
            /\ j + 1 \in DOMAIN tasks
        BY <1>3, <3>1
      <4>2. i + 1 = j + 1
        BY <2>1, <4>1 DEF CarriedOnce
      <4>. QED BY <1>3, <4>2
    <3>. QED BY <3>1
  <2>5. ASSUME NEW i \in DOMAIN tasks', d \in tasks'[i].nodes
        PROVE  /\ Carries(tasks[i].by, d)'
               /\ syncer'[tasks'[i].by].at = "wait" /\ syncer'[tasks'[i].by].doing = "documents"
    <3>1. i + 1 \in DOMAIN tasks /\ tasks'[i] = tasks[i + 1]
      BY <1>3
    <3>2. /\ Carries(tasks'[i].by, d) /\ tasks'[i].by \in Syncer
          /\ syncer[tasks'[i].by].at = "wait" /\ syncer[tasks'[i].by].doing = "documents"
      BY <2>1, <2>5, <3>1, TaskIsRow DEF CarriedOnce, SearchInv
    <3>3. syncer'[tasks'[i].by] = syncer[tasks'[i].by]
      BY <1>4, <1>7, <3>2
    <3>. QED BY <2>2, <3>2, <3>3
  <2>6. CarriedOnce(d)'
    <3>1. \A t, u \in Syncer : Carries(t, d)' /\ Carries(u, d)' => t = u
      BY <2>1, <2>2 DEF CarriedOnce
    <3>. QED BY <2>4, <2>5, <3>1 DEF CarriedOnce
  <2>7. ASSUME Fresh(d) PROVE Fresh(d)'
    <3>1. \A t \in Syncer : Holds(t, d)' => syncer'[t].listed[d] = saved'[d]
      BY <1>1, <2>2, <2>7 DEF Fresh
    <3>2. \A i \in DOMAIN tasks' : d \in tasks'[i].nodes => tasks'[i].rows[d] = saved'[d]
      BY <1>1, <1>3, <2>7 DEF Fresh
    <3>3. ASSUME \A t \in Syncer : ~Holds(t, d), ~Queued(d)' PROVE index'[d] = saved[d]
      <4>1. CASE d \in h.nodes
        BY <1>3, <2>3, <2>7, <4>1 DEF Fresh
      <4>2. CASE d \notin h.nodes
        <5>1. ~Queued(d)
          BY <1>3, <3>3, <4>2 DEF Queued
        <5>. QED BY <2>3, <2>7, <3>3, <4>2, <5>1 DEF Fresh
      <4>. QED BY <4>1, <4>2
    <3>. QED BY <1>1, <2>2, <3>1, <3>2, <3>3 DEF Fresh
  <2>. QED BY <2>1, <2>2, <2>6, <2>7
<1>. QED BY <1>8, <1>9, <1>10 DEF SearchInv, FollowsRow

\* A synchronisation that ends leaves nothing queued, or leaves its devices behind.
LEMMA EndsInv ==
  ASSUME SearchInv, NEW s \in Syncer, NEW a \in {"idle", "over", "retry"},
         syncer' = [syncer EXCEPT ![s] = [Resting EXCEPT !.at = a]],
         UNCHANGED <<saved, index, shape, tasks, pending, due, touched>>,
         \/ behind' = behind \cup syncer[s].nodes
         \/ /\ syncer[s].at = "wait" /\ \A i \in DOMAIN tasks : tasks[i].by # s
            /\ syncer[s].doing = "documents" /\ behind' = behind
  PROVE  SearchInv'
<1> DEFINE r == [Resting EXCEPT !.at = a]
<1>1. r \in SyncRow /\ r.at = a /\ r.nodes = {}
  <2>1. a \in SyncAt
    BY DEF SyncAt
  <2>. QED BY <2>1, RestingSound
<1>2. syncer' = [syncer EXCEPT ![s] = r]
  OBVIOUS
<1> HIDE DEF r
<1>3. syncer' \in [Syncer -> SyncRow] /\ \A t \in Syncer : syncer'[t] = IF t = s THEN r ELSE syncer[t]
  BY <1>1, <1>2 DEF SearchInv, SearchTypeOK
<1>4. behind' \subseteq Device /\ behind \subseteq behind'
  BY DEF SearchInv, SearchTypeOK, SyncRow
<1>5. SearchTypeOK'
  BY <1>3, <1>4 DEF SearchInv, SearchTypeOK
<1>6. TasksOfKind'
  BY DEF SearchInv, TasksOfKind
<1>7. RetryIsEmpty'
  BY <1>1, <1>3, SyncersDiffer DEF SearchInv, RetryIsEmpty
<1>8. ASSUME NEW d \in Device, d \notin behind'
      PROVE  CarriedOnce(d)' /\ (~Marked(d)' => Fresh(d)')
  <2>1. CarriedOnce(d) /\ (~Marked(d) => Fresh(d)) /\ d \notin behind
    BY <1>4, <1>8 DEF SearchInv, FollowsRow
  <2>2. \A t \in Syncer : t # s => /\ syncer'[t] = syncer[t]
                                   /\ Carries(t, d)' <=> Carries(t, d)
                                   /\ Listing(t, d)' <=> Listing(t, d)
                                   /\ Holds(t, d)' <=> Holds(t, d)
    BY <1>3 DEF Carries, Listing, Holds, Posting
  <2>3. ~Carries(s, d)' /\ ~Listing(s, d)' /\ ~Holds(s, d)'
    BY <1>1, <1>3 DEF Carries, Listing, Holds, Steps
  <2>4. \A i \in DOMAIN tasks : tasks[i].by \in Syncer
    BY TaskIsRow DEF SearchInv
  <2>5. ~Listing(s, d) /\ ~Holds(s, d)
    BY <1>8 DEF Listing, Holds, Carries, Posting
  <2>6. Marked(d)' <=> Marked(d)
    BY <2>2, <2>3, <2>5 DEF Marked
  <2>7. \A i \in DOMAIN tasks : d \in tasks[i].nodes => tasks[i].by # s
    BY <1>8, <2>1 DEF CarriedOnce, Carries
  <2>8. CarriedOnce(d)'
    <3>1. \A t, u \in Syncer : Carries(t, d)' /\ Carries(u, d)' => t = u
      BY <2>1, <2>2, <2>3 DEF CarriedOnce
    <3>2. \A i \in DOMAIN tasks' : d \in tasks'[i].nodes =>
            /\ Carries(tasks[i].by, d)'
            /\ syncer'[tasks'[i].by].at = "wait" /\ syncer'[tasks'[i].by].doing = "documents"
      BY <2>1, <2>2, <2>4, <2>7 DEF CarriedOnce
    <3>3. \A i, j \in DOMAIN tasks' : d \in tasks'[i].nodes /\ d \in tasks'[j].nodes => i = j
      BY <2>1 DEF CarriedOnce
    <3>. QED BY <3>1, <3>2, <3>3 DEF CarriedOnce
  <2>9. Fresh(d) => Fresh(d)'
    BY <2>2, <2>3, <2>5 DEF Fresh, Queued
  <2>. QED BY <2>1, <2>6, <2>8, <2>9
<1>. QED BY <1>5, <1>6, <1>7, <1>8 DEF SearchInv, FollowsRow

LEMMA WaitTaskInv ==
  ASSUME SearchInv, NEW s \in Syncer, WaitTask(s)
  PROVE  SearchInv'
<1>1. /\ syncer[s].at = "wait" /\ \A i \in DOMAIN tasks : tasks[i].by # s
      /\ UNCHANGED <<saved, index, shape, tasks, pending, due, touched, behind>>
  BY DEF WaitTask
<1>2. CASE syncer[s].doing = "documents"
  <2>1. PICK a \in {"idle", "over"} : syncer' = [syncer EXCEPT ![s] = [Resting EXCEPT !.at = a]]
    BY <1>2 DEF WaitTask, Over
  <2>. QED BY <1>1, <1>2, <2>1, EndsInv
<1>3. CASE syncer[s].doing # "documents"
  <2>1. PICK a \in {"create", "documents", "list"} : syncer' = [syncer EXCEPT ![s].at = a]
    BY <1>3 DEF WaitTask
  <2> DEFINE r == [syncer[s] EXCEPT !.at = a]
  <2>2. syncer[s] \in SyncRow /\ tasks \in Seq(TaskRow) /\ TasksOfKind
    BY DEF SearchInv, SearchTypeOK
  <2>3. r \in SyncRow /\ r.at = a /\ r.nodes = syncer[s].nodes /\ r.listed = syncer[s].listed
    BY <2>2 DEF SyncRow, SyncAt, Steps
  <2>4. syncer' = [syncer EXCEPT ![s] = r]
    BY <2>1
  <2> HIDE DEF r
  <2>5. ~Posting(s) /\ TasksOfKind' /\ (r.at = "list" \/ r.at \in Steps)
    BY <1>1, <1>3, <2>2, <2>3 DEF Posting, TasksOfKind, Steps
  <2>. QED BY <1>1, <2>2, <2>3, <2>4, <2>5, HoldStep
<1>. QED BY <1>2, <1>3

LEMMA GiveUpInv ==
  ASSUME SearchInv, NEW s \in Syncer, GiveUp(s)
  PROVE  SearchInv'
<1>1. PICK a \in {"idle", "over", "retry"} : syncer' = [syncer EXCEPT ![s] = [Resting EXCEPT !.at = a]]
  BY DEF GiveUp, Over
<1>2. /\ behind' = behind \cup syncer[s].nodes
      /\ UNCHANGED <<saved, index, shape, tasks, pending, due, touched>>
  BY DEF GiveUp
<1>. QED BY <1>1, <1>2, EndsInv

LEMMA RestartIndexerInv ==
  ASSUME SearchInv, RestartIndexer
  PROVE  SearchInv'
<1>1. /\ UNCHANGED <<saved, index, shape, tasks>> /\ behind' = Device
      /\ syncer' = [s \in Syncer |-> [Resting EXCEPT !.at =
                      CASE s = "full" -> "ensure" [] s = "loop" -> "idle"
                        [] OTHER -> IF syncer[s].at = "idle" THEN "idle" ELSE "over"]]
  BY DEF RestartIndexer
<1>2. ASSUME NEW s \in Syncer
      PROVE  syncer'[s] \in SyncRow /\ syncer'[s].at \in {"idle", "over", "ensure"}
  <2>1. PICK a \in {"idle", "over", "ensure"} : syncer'[s] = [Resting EXCEPT !.at = a]
    BY <1>1
  <2>2. a \in SyncAt
    BY DEF SyncAt
  <2>. QED BY <2>1, <2>2, RestingSound
<1>3. syncer' \in [Syncer -> SyncRow]
  BY <1>1, <1>2
<1>4. SearchTypeOK'
  BY <1>1, <1>3 DEF SearchInv, SearchTypeOK
<1>5. TasksOfKind'
  BY <1>1 DEF SearchInv, TasksOfKind
<1>6. RetryIsEmpty'
  BY <1>2, SyncersDiffer DEF RetryIsEmpty
<1>. QED BY <1>1, <1>4, <1>5, <1>6 DEF SearchInv, FollowsRow

LEMMA SearchInvNext == SearchInv /\ [SearchNext]_searchVars => SearchInv'
<1> SUFFICES ASSUME SearchInv, [SearchNext]_searchVars PROVE SearchInv'
  OBVIOUS
<1>1. CASE UNCHANGED searchVars
  <2>1. UNCHANGED <<saved, index, tasks, behind, syncer, touched, pending, due>>
    BY <1>1 DEF searchVars
  <2>2. syncer \in [Syncer -> SyncRow] /\ \A d \in Device : Marked(d) => Marked(d)'
    BY <2>1 DEF SearchInv, SearchTypeOK, Marked, Listing
  <2>. QED BY <2>1, <2>2, MarkStep
<1>2. CASE FullSync
  BY <1>2, SyncersDiffer, ListRowsInv DEF FullSync
<1>3. ASSUME NEW s \in Syncer, Syncing(s) PROVE SearchInv'
  <2>1. CASE Sync(s)
    BY <2>1, ListRowsInv DEF Sync
  <2>. QED BY <1>3, <2>1, EnsureIndexInv, PostTaskInv, WaitTaskInv, GiveUpInv DEF Syncing, TaskFailed
<1>. QED
  BY <1>1, <1>2, <1>3, WritesInv, QueueInv, DoTaskInv, GiveUpInv, RestartIndexerInv DEF SearchNext, SyncFails

\* Touch queues a device after its row was written, claimDue empties the queue
\* before it synchronises, and Sync reads the table before it writes to the
\* index.  For any number of devices, writers and failures: once nothing is
\* queued or on its way for a device, its document is made of its row, unless
\* its last synchronisation failed, two overlapped, a heartbeat wrote since, or
\* its document went with an index that was deleted.
THEOREM IndexFollowsRows == SearchSpec => []IndexIsCurrent
<1>1. SearchInv => IndexIsCurrent
  <2> SUFFICES ASSUME SearchInv, NEW n \in Device, n \notin behind \cup touched \cup pending \cup due,
                      \A s \in Syncer : ~Syncs(s, n)
        PROVE  index[n] = saved[n]
    BY DEF IndexIsCurrent
  <2>1. \A s \in Syncer : ~Carries(s, n) /\ ~Listing(s, n) /\ ~Holds(s, n)
    BY DEF Syncs, Working, Carries, Listing, Holds, Steps
  <2>2. CarriedOnce(n) /\ Fresh(n)
    BY <2>1 DEF SearchInv, FollowsRow, Marked
  <2>3. ~Queued(n)
    BY <2>1, <2>2, TaskIsRow DEF CarriedOnce, Queued, SearchInv
  <2>. QED BY <2>1, <2>2, <2>3 DEF Fresh
<1>. QED
  BY <1>1, SearchInvInit, SearchInvNext, PTL DEF SearchSpec

-----------------------------------------------------------------------------
(* Reports.                                                                *)

ReportTypeOK ==
  /\ runs \in [Job -> {"none", "running", "completed", "failed"}]
  /\ pc \in [Job -> {"idle", "generate", "fail", "rows", "copy", "over"}]
  /\ snapshot \in [Job -> SUBSET (1 .. MaxDevice)] /\ content \in [Job -> SUBSET (1 .. MaxDevice)]
  /\ devices \subseteq 1 .. MaxDevice /\ left \subseteq Job /\ unwritten \subseteq Job

\* The row of a run against where its handler stands.
RunOK(j) ==
  /\ runs[j] = "completed" => pc[j] = "over"
  /\ runs[j] = "failed" => pc[j] = "over" /\ content[j] = {}
  /\ pc[j] \in {"idle", "generate", "rows", "fail"} => content[j] = {}
  /\ runs[j] = "running" /\ pc[j] = "over" => j \in unwritten
  /\ pc[j] = "idle" => runs[j] = "none"
  /\ asked[j].format = "pdf" /\ (pc[j] = "copy" \/ runs[j] = "completed") => content[j] = snapshot[j]

ReportInv == ReportTypeOK /\ \A j \in Job : RunOK(j)

LEMMA ReportStep == ReportInv /\ [ReportNext]_reportVars => ReportInv'
<1>. SUFFICES ASSUME ReportInv, [ReportNext]_reportVars PROVE ReportInv'
  OBVIOUS
<1>. USE DEF ReportInv
<1>1. CASE Enrol \/ CreateSchedule \/ DeleteSchedule \/ UNCHANGED reportVars
  BY <1>1 DEF Enrol, CreateSchedule, DeleteSchedule, reportVars, ReportTypeOK, RunOK
<1>2. ASSUME NEW j \in Job, ClientLeaves(j) PROVE ReportInv'
  BY <1>2 DEF ClientLeaves, ReportTypeOK, RunOK
<1>3. ASSUME NEW j \in Job, CreateRun(j) PROVE ReportInv'
  <2>1. ReportTypeOK'
    BY <1>3 DEF CreateRun, Goto, ReportTypeOK
  <2>2. \A i \in Job : RunOK(i)'
    BY <1>3 DEF CreateRun, Goto, ReportTypeOK, RunOK
  <2>. QED BY <2>1, <2>2
<1>4. ASSUME NEW j \in Job, GenerateFails(j) PROVE ReportInv'
  BY <1>4 DEF GenerateFails, Goto, ReportTypeOK, RunOK
<1>5. ASSUME NEW j \in Job, Query(j) PROVE ReportInv'
  <2>1. PICK found \in SUBSET (1 .. MaxDevice) : snapshot' = [snapshot EXCEPT ![j] = found]
    BY <1>5 DEF Query, ReportTypeOK
  <2>2. ReportTypeOK'
    BY <1>5, <2>1 DEF Query, Goto, ReportTypeOK
  <2>3. \A i \in Job : RunOK(i)'
    BY <1>5, <2>1 DEF Query, Goto, ReportTypeOK, RunOK
  <2>. QED BY <2>2, <2>3
<1>6. ASSUME NEW j \in Job, GenerateCSV(j) PROVE ReportInv'
  <2>1. PICK found \in SUBSET (1 .. MaxDevice) : content' = [content EXCEPT ![j] = found]
    BY <1>6 DEF GenerateCSV, Prefix, ReportTypeOK
  <2>2. ReportTypeOK'
    BY <1>6, <2>1 DEF GenerateCSV, Goto, ReportTypeOK
  <2>3. \A i \in Job : RunOK(i)'
    BY <1>6, <2>1 DEF GenerateCSV, Goto, ReportTypeOK, RunOK
  <2>. QED BY <2>2, <2>3
<1>7. ASSUME NEW j \in Job, GeneratePDF(j) PROVE ReportInv'
  <2>1. ReportTypeOK'
    BY <1>7 DEF GeneratePDF, Goto, ReportTypeOK
  <2>2. \A i \in Job : RunOK(i)'
    BY <1>7 DEF GeneratePDF, Goto, ReportTypeOK, RunOK
  <2>. QED BY <2>1, <2>2
<1>8. ASSUME NEW j \in Job, CompleteRun(j) \/ FailRun(j) PROVE ReportInv'
  <2>1. PICK status \in {"completed", "failed"} :
          /\ pc[j] = (IF status = "completed" THEN "copy" ELSE "fail")
          /\ \/ runs' = [runs EXCEPT ![j] = status] /\ unwritten' = unwritten
             \/ runs' = runs /\ unwritten' = unwritten \cup {j}
    BY <1>8 DEF CompleteRun, FailRun, Record
  <2>2. pc' = [pc EXCEPT ![j] = "over"] /\ UNCHANGED <<devices, schedules, asked, left, snapshot, content>>
    BY <1>8 DEF CompleteRun, FailRun, Goto
  <2>3. ReportTypeOK'
    BY <2>1, <2>2 DEF ReportTypeOK
  <2>4. \A i \in Job : RunOK(i)'
    BY <2>1, <2>2 DEF ReportTypeOK, RunOK
  <2>. QED BY <2>3, <2>4
<1>. QED BY <1>1, <1>2, <1>3, <1>4, <1>5, <1>6, <1>7, <1>8 DEF ReportNext, HandleGenerateReport

\* handleGenerateReport (StatusIsTrue): whoever enrols meanwhile and whatever
\* fails, a completed PDF has every row of its query, a failed run has rendered
\* nothing, and a run whose handler is over stays running only if its last UPDATE
\* failed.
THEOREM StatusStaysTrue == ReportSpec => []StatusIsTrue
<1>1. ReportInit => ReportInv
  BY DEF ReportInit, ReportInv, ReportTypeOK, RunOK
<1>2. ReportInv => StatusIsTrue
  BY DEF ReportInv, RunOK, StatusIsTrue, ListRuns
<1>. QED BY <1>1, <1>2, ReportStep, PTL DEF ReportSpec

-----------------------------------------------------------------------------
(* DataExport.                                                             *)

Content == SUBSET Item
Counted == {"metrics", "rollups", "alerts"}
ManifestLine == [size : Nat, sha : Content, rows : Nat]

\* The lines of the manifest tell of the entries what is true of them.
Tells(f, e, names) ==
  \A n \in names : /\ f[n].size = Cardinality(e[n]) /\ f[n].sha = e[n]
                   /\ n \in Counted => f[n].rows = Cardinality(e[n])

Bundle(names) ==
  [closed : BOOLEAN, device : Int,
   entries : [names \cup {"manifest"} -> Content], files : [names \cup {"manifest"} -> ManifestLine]]

\* A bundle as it leaves the handler.
WholeBundle(c) ==
  \E names \in SUBSET Data :
    /\ "device" \in names /\ c \in Bundle(names) /\ c.closed /\ c.device = 0
    /\ Tells(c.files, c.entries, names)

ExportTypeOK ==
  /\ metrics \subseteq Item /\ alerts \subseteq Item /\ newest \in Item
  /\ step \in Data \cup {"manifest", "done", "failed", "spoilt"}

\* What is written so far, and listed so far.
WrittenSoFar ==
  \E names \in SUBSET Data :
    /\ entries \in [names -> Content] /\ files \in [names -> ManifestLine]
    /\ Tells(files, entries, names)
    /\ step \in {"metrics", "rollups", "alerts", "manifest"} => "device" \in names

CopyIsTold ==
  /\ step \in Data \cup {"manifest"} => copy = NoBundle
  /\ step = "done" => WholeBundle(copy)
  /\ step \in {"failed", "spoilt"} => ~Verify(copy)

ExportInv == ExportTypeOK /\ WrittenSoFar /\ CopyIsTold

LEMMA ContentCounts == \A s \in Content : Cardinality(s) \in Nat
<1>1. IsFiniteSet(0 .. MaxRow)
  BY FS_Interval, ExportAssumption
<1>2. ASSUME NEW s \in Content PROVE Cardinality(s) \in Nat
  <2>1. IsFiniteSet(s)
    BY <1>1, FS_Subset DEF Content, Item
  <2>. QED BY <2>1, FS_CardinalityType
<1>. QED BY <1>2

LEMMA WholeVerifies == \A c : WholeBundle(c) => Verify(c)
<1> SUFFICES ASSUME NEW c, WholeBundle(c) PROVE Verify(c)
  OBVIOUS
<1>1. PICK names \in SUBSET Data :
        /\ "device" \in names /\ c \in Bundle(names) /\ c.closed /\ c.device = 0
        /\ Tells(c.files, c.entries, names)
  BY DEF WholeBundle
<1>2. DOMAIN c.entries = names \cup {"manifest"} /\ DOMAIN c.files = names \cup {"manifest"}
  BY <1>1 DEF Bundle
<1>3. \A n \in names \cup {"manifest"} : EntryFor(c, n)
  BY <1>1, <1>2 DEF EntryFor
<1>4. "manifest" \notin Data /\ \A n \in names \cup {"manifest"} : n \in Data => n \in names
  BY DEF Data
<1>5. ManifestMatches(c)
  <2>1. c.files # [n \in {} |-> 0]
    <3>1. "manifest" \in DOMAIN c.files
      BY <1>2
    <3>2. DOMAIN [n \in {} |-> 0] = {}
      OBVIOUS
    <3>. QED BY <3>1, <3>2
  <2>. QED BY <1>1, <1>2, <1>3, <1>4, <2>1 DEF ManifestMatches, Tells
<1>6. \A n \in Counted : n \in DOMAIN c.files => c.files[n].rows = Cardinality(c.entries[n])
  BY <1>1, <1>2 DEF Tells, Counted
<1>7. DeviceMatches(c) /\ AlertsMatch(c)
  BY <1>1, <1>2, <1>3, <1>6 DEF DeviceMatches, AlertsMatch, EntryFor, Counted
<1>8. CheckParquet(c, "metrics") /\ CheckParquet(c, "rollups")
  BY <1>2, <1>3, <1>6 DEF CheckParquet, Counted
<1>. QED BY <1>3, <1>5, <1>7, <1>8 DEF Verify

\* Whatever one thing is changed of a whole bundle, it is found.
LEMMA DamageIsFound == \A c : WholeBundle(c) => \A x \in {CutShort(c)} \cup Damaged(c) : ~Verify(x)
<1> SUFFICES ASSUME NEW c, WholeBundle(c), NEW x \in {CutShort(c)} \cup Damaged(c) PROVE ~Verify(x)
  OBVIOUS
<1>1. PICK names \in SUBSET Data :
        /\ "device" \in names /\ c \in Bundle(names) /\ c.closed /\ c.device = 0
        /\ Tells(c.files, c.entries, names)
  BY DEF WholeBundle
<1>2. DOMAIN c.entries = names \cup {"manifest"} /\ DOMAIN c.files = names \cup {"manifest"}
      /\ c.entries \in [names \cup {"manifest"} -> Content]
      /\ c.files \in [names \cup {"manifest"} -> ManifestLine]
  BY <1>1 DEF Bundle
<1>3. "manifest" \notin Data /\ "stray" \notin names \cup {"manifest"}
  BY DEF Data
<1>4. CASE x = CutShort(c)
  <2>1. x = [c EXCEPT !.closed = FALSE]
    BY <1>4 DEF CutShort
  <2>2. ~x.closed
    BY <1>1, <2>1 DEF Bundle
  <2>. QED BY <2>2 DEF Verify, EntryFor
<1>5. ASSUME NEW n \in DOMAIN c.entries \cap Data, NEW s \in (SUBSET Item) \ {c.entries[n]},
             x = [c EXCEPT !.entries[n] = s]
      PROVE  ~Verify(x)
  <2>1. n \in names
    BY <1>2, <1>3, <1>5
  <2>2. x.files = c.files /\ x.entries = [c.entries EXCEPT ![n] = s]
    BY <1>1, <1>5 DEF Bundle
  <2>3. x.files[n].sha = c.entries[n] /\ x.entries[n] = s /\ n \in DOMAIN x.files
    BY <1>1, <1>2, <2>1, <2>2 DEF Tells
  <2>4. n \in Data /\ c.entries[n] # s
    BY <1>5
  <2>. QED BY <2>3, <2>4 DEF Verify, ManifestMatches
<1>6. ASSUME NEW n \in DOMAIN c.entries, x = [c EXCEPT !.entries = [y \in DOMAIN c.entries \ {n} |-> c.entries[y]]]
      PROVE  ~Verify(x)
  <2> DEFINE e == [y \in DOMAIN c.entries \ {n} |-> c.entries[y]]
  <2>1. x.files = c.files /\ x.entries = e
    BY <1>1, <1>6 DEF Bundle
  <2>2. n \notin DOMAIN e
    OBVIOUS
  <2>3. n \in DOMAIN x.files /\ n \notin DOMAIN x.entries
    BY <1>2, <1>6, <2>1, <2>2
  <2>. QED BY <2>3 DEF Verify, ManifestMatches, EntryFor
<1>7. CASE x = [c EXCEPT !.entries = Extend(c.entries, "stray", {})]
  <2> DEFINE e == Extend(c.entries, "stray", {})
  <2>1. x.files = c.files /\ x.entries = e
    BY <1>1, <1>7 DEF Bundle
  <2>2. "stray" \in DOMAIN e
    BY DEF Extend
  <2>. QED BY <1>2, <1>3, <2>1, <2>2 DEF Verify, ManifestMatches
<1>8. ASSUME NEW n \in DOMAIN c.files \cap {"metrics", "rollups", "alerts"},
             x = [c EXCEPT !.files[n].rows = @ + 1]
      PROVE  ~Verify(x)
  <2>1. n \in names /\ n \in Counted /\ n \in DOMAIN c.entries
    BY <1>2, <1>8 DEF Counted
  <2>2. c.files[n].rows = Cardinality(c.entries[n]) /\ c.entries[n] \in Content
    BY <1>1, <1>2, <2>1 DEF Tells
  <2>3. c.files[n] \in ManifestLine
    BY <1>2, <2>1
  <2>4. x.entries = c.entries /\ x.closed = c.closed
        /\ x.files = [c.files EXCEPT ![n] = [c.files[n] EXCEPT !.rows = c.files[n].rows + 1]]
    BY <1>1, <1>8 DEF Bundle
  <2>5. x.files[n].rows = c.files[n].rows + 1 /\ n \in DOMAIN x.files
    BY <1>2, <2>1, <2>3, <2>4 DEF ManifestLine
  <2>6. x.files[n].rows # Cardinality(x.entries[n])
    BY <2>2, <2>4, <2>5, ContentCounts
  <2>7. EntryFor(x, n)
    BY <1>1, <2>1, <2>4 DEF EntryFor
  <2>. QED BY <1>8, <2>5, <2>6, <2>7 DEF Verify, AlertsMatch, CheckParquet
<1>9. ASSUME NEW n \in DOMAIN c.files \cap Data, x = [c EXCEPT !.files[n].sha = @ \cup {MaxRow + 1}]
      PROVE  ~Verify(x)
  <2>1. n \in names /\ n \in DOMAIN c.entries
    BY <1>2, <1>3, <1>9
  <2>2. c.files[n].sha = c.entries[n] /\ c.entries[n] \in Content /\ c.files[n] \in ManifestLine
    BY <1>1, <1>2, <2>1 DEF Tells
  <2>3. x.entries = c.entries
        /\ x.files = [c.files EXCEPT ![n] = [c.files[n] EXCEPT !.sha = c.files[n].sha \cup {MaxRow + 1}]]
    BY <1>1, <1>9 DEF Bundle
  <2>4. x.files[n].sha = c.files[n].sha \cup {MaxRow + 1} /\ n \in DOMAIN x.files
    BY <1>2, <2>1, <2>2, <2>3 DEF ManifestLine
  <2>5. MaxRow + 1 \notin c.entries[n]
    BY <2>2, ExportAssumption DEF Content, Item
  <2>6. x.files[n].sha # x.entries[n]
    BY <2>3, <2>4, <2>5
  <2>. QED BY <1>9, <2>4, <2>6 DEF Verify, ManifestMatches
<1> DEFINE
      Changed == UNION {{[c EXCEPT !.entries[n] = s] : s \in (SUBSET Item) \ {c.entries[n]}}
                          : n \in DOMAIN c.entries \cap Data}
      Lost == {[c EXCEPT !.entries = [y \in DOMAIN c.entries \ {n} |-> c.entries[y]]] : n \in DOMAIN c.entries}
      Added == {[c EXCEPT !.entries = Extend(c.entries, "stray", {})]}
      Miscounted == {[c EXCEPT !.files[n].rows = @ + 1] : n \in DOMAIN c.files \cap {"metrics", "rollups", "alerts"}}
      Mishashed == {[c EXCEPT !.files[n].sha = @ \cup {MaxRow + 1}] : n \in DOMAIN c.files \cap Data}
<1>10. Damaged(c) = Changed \cup Lost \cup Added \cup Miscounted \cup Mishashed
  BY DEF Damaged
<1>11. x \in Changed => ~Verify(x)
  BY <1>5
<1>12. x \in Lost => ~Verify(x)
  BY <1>6, Zenon
<1>13. x \in Added => ~Verify(x)
  BY <1>7
<1>14. x \in Miscounted => ~Verify(x)
  BY <1>8, Zenon
<1>15. x \in Mishashed => ~Verify(x)
  BY <1>9, Zenon
<1> HIDE DEF Changed, Lost, Added, Miscounted, Mishashed
<1>. QED BY <1>4, <1>10, <1>11, <1>12, <1>13, <1>14, <1>15

LEMMA ExportInvInit == ExportInit => ExportInv
<1> SUFFICES ASSUME ExportInit PROVE ExportInv
  OBVIOUS
<1>1. ExportTypeOK
  BY ExportAssumption DEF ExportInit, ExportTypeOK, Item, Data
<1>2. WrittenSoFar
  <2>1. entries \in [{} -> Content] /\ files \in [{} -> ManifestLine] /\ Tells(files, entries, {})
    BY DEF ExportInit, Tells
  <2>2. {} \in SUBSET Data /\ step = "readme"
    BY DEF ExportInit
  <2>. QED BY <2>1, <2>2 DEF WrittenSoFar
<1>3. CopyIsTold
  BY DEF ExportInit, CopyIsTold
<1>. QED BY <1>1, <1>2, <1>3 DEF ExportInv

\* An entry is written and its line kept, whatever the tables hold by then.
LEMMA AddFileInv ==
  ASSUME ExportInv, NEW n \in Data, NEW held \in Content, NEW lines, NEW next,
         AddFile(n, held, lines, next), lines \in Nat,
         n \in Counted => lines = Cardinality(held),
         next \in {"device", "metrics", "rollups", "alerts", "manifest"},
         next = "metrics" => n = "device", n = "readme" => next = "device"
  PROVE  ExportInv'
<1> DEFINE line == [size |-> Cardinality(held), sha |-> held, rows |-> lines]
<1>1. /\ step = n /\ step' = next
      /\ entries' = Extend(entries, n, held) /\ files' = Extend(files, n, line)
      /\ UNCHANGED <<metrics, alerts, newest, since, copy>>
  BY DEF AddFile
<1>2. line \in ManifestLine /\ line.size = Cardinality(held) /\ line.sha = held /\ line.rows = lines
  BY ContentCounts DEF ManifestLine
<1> HIDE DEF line
<1>3. ExportTypeOK'
  BY <1>1 DEF ExportInv, ExportTypeOK, Data
<1>4. WrittenSoFar'
  <2>1. PICK names \in SUBSET Data :
          /\ entries \in [names -> Content] /\ files \in [names -> ManifestLine]
          /\ Tells(files, entries, names)
          /\ step \in {"metrics", "rollups", "alerts", "manifest"} => "device" \in names
    BY DEF ExportInv, WrittenSoFar
  <2> DEFINE more == names \cup {n}
  <2>2. entries' \in [more -> Content] /\ \A x \in more : entries'[x] = IF x = n THEN held ELSE entries[x]
    BY <1>1, <2>1 DEF Extend
  <2>3. files' \in [more -> ManifestLine] /\ \A x \in more : files'[x] = IF x = n THEN line ELSE files[x]
    BY <1>1, <1>2, <2>1 DEF Extend
  <2>4. Tells(files', entries', more)
    BY <1>2, <2>1, <2>2, <2>3 DEF Tells
  <2>5. step' \in {"metrics", "rollups", "alerts", "manifest"} => "device" \in more
    BY <1>1, <2>1 DEF Data
  <2>6. more \in SUBSET Data
    BY <2>1
  <2> HIDE DEF more
  <2>. QED BY <2>2, <2>3, <2>4, <2>5, <2>6 DEF WrittenSoFar
<1>5. CopyIsTold'
  BY <1>1 DEF ExportInv, CopyIsTold, Data
<1>. QED BY <1>3, <1>4, <1>5 DEF ExportInv

LEMMA AddInv ==
  ASSUME ExportInv, AddReadme \/ AddDevice \/ WriteParquet \/ WriteRollups \/ AddAlerts
  PROVE  ExportInv'
<1>1. {0} \in Content /\ Select \in Content /\ alerts \in Content
  <2>1. 0 \in Item
    BY ExportAssumption DEF Item
  <2>2. metrics \subseteq Item /\ alerts \subseteq Item
    BY DEF ExportInv, ExportTypeOK
  <2>. QED BY <2>1, <2>2 DEF Content, Select
<1>2. Cardinality(Select) \in Nat /\ Cardinality(alerts) \in Nat
  BY <1>1, ContentCounts
<1>3. CASE AddReadme
  <2>1. "readme" \in Data /\ "readme" \notin Counted
    BY DEF Data, Counted
  <2>. QED BY <1>1, <1>3, <2>1, AddFileInv DEF AddReadme
<1>4. CASE AddDevice
  <2>1. "device" \in Data /\ "device" \notin Counted
    BY DEF Data, Counted
  <2>. QED BY <1>1, <1>4, <2>1, AddFileInv DEF AddDevice
<1>5. CASE WriteParquet
  <2>1. "metrics" \in Data
    BY DEF Data
  <2>. QED BY <1>1, <1>2, <1>5, <2>1, AddFileInv DEF WriteParquet
<1>6. CASE WriteRollups
  <2>1. ASSUME NEW rolled \in SUBSET (1 .. newest),
               AddFile("rollups", rolled, Cardinality(rolled), "alerts")
        PROVE  ExportInv'
    <3>1. rolled \in Content
      BY ExportAssumption DEF ExportInv, ExportTypeOK, Content, Item
    <3>2. "rollups" \in Data /\ Cardinality(rolled) \in Nat
      BY <3>1, ContentCounts DEF Data
    <3>. QED BY <2>1, <3>1, <3>2, AddFileInv
  <2>2. CASE step = "rollups" /\ step' = "alerts" /\ UNCHANGED <<metrics, alerts, newest, since, entries, files, copy>>
    <3>1. ExportTypeOK'
      BY <2>2 DEF ExportInv, ExportTypeOK, Data
    <3>2. WrittenSoFar'
      BY <2>2 DEF ExportInv, WrittenSoFar
    <3>3. CopyIsTold'
      BY <2>2 DEF ExportInv, CopyIsTold, Data
    <3>. QED BY <3>1, <3>2, <3>3 DEF ExportInv
  <2>. QED BY <1>6, <2>1, <2>2 DEF WriteRollups
<1>7. CASE AddAlerts
  <2>1. "alerts" \in Data
    BY DEF Data
  <2>. QED BY <1>1, <1>2, <1>7, <2>1, AddFileInv DEF AddAlerts
<1>. QED BY <1>3, <1>4, <1>5, <1>6, <1>7

\* The manifest closes a whole bundle.
LEMMA AddManifestInv ==
  ASSUME ExportInv, AddManifest
  PROVE  ExportInv'
<1> DEFINE own == [size |-> 0, sha |-> {}, rows |-> 0]
           e == Extend(entries, "manifest", {})
           f == Extend(files, "manifest", own)
<1>1. /\ step = "manifest" /\ step' = "done"
      /\ copy' = [closed |-> TRUE, device |-> 0, entries |-> e, files |-> f]
      /\ UNCHANGED <<metrics, alerts, newest, since, entries, files>>
  BY DEF AddManifest, ManifestFiles
<1>2. PICK names \in SUBSET Data :
        /\ entries \in [names -> Content] /\ files \in [names -> ManifestLine]
        /\ Tells(files, entries, names) /\ "device" \in names
  BY <1>1 DEF ExportInv, WrittenSoFar
<1>3. own \in ManifestLine /\ {} \in Content /\ "manifest" \notin names
  BY DEF ManifestLine, Content, Data
<1> HIDE DEF own
<1>4. e \in [names \cup {"manifest"} -> Content] /\ \A n \in names : e[n] = entries[n]
  BY <1>2, <1>3 DEF Extend
<1>5. f \in [names \cup {"manifest"} -> ManifestLine] /\ \A n \in names : f[n] = files[n]
  BY <1>2, <1>3 DEF Extend
<1>6. Tells(f, e, names)
  BY <1>2, <1>4, <1>5 DEF Tells
<1> HIDE DEF e, f
<1>7. copy' \in Bundle(names) /\ copy'.closed /\ copy'.device = 0 /\ copy'.entries = e /\ copy'.files = f
  BY <1>1, <1>4, <1>5 DEF Bundle
<1>8. WholeBundle(copy')
  BY <1>2, <1>6, <1>7 DEF WholeBundle
<1>9. ExportTypeOK' /\ CopyIsTold'
  BY <1>1, <1>8 DEF ExportInv, ExportTypeOK, CopyIsTold, Data
<1>10. WrittenSoFar'
  BY <1>1, <1>2 DEF WrittenSoFar
<1>. QED BY <1>9, <1>10 DEF ExportInv

LEMMA OtherExportInv ==
  ASSUME ExportInv, Arrives \/ Retention \/ ExportFails \/ Spoil \/ UNCHANGED exportVars
  PROVE  ExportInv'
<1>1. CASE Arrives \/ Retention \/ UNCHANGED exportVars
  <2>1. UNCHANGED <<step, entries, files, copy>>
    BY <1>1 DEF Arrives, Retention, exportVars
  <2>2. metrics' \subseteq Item /\ alerts' \subseteq Item /\ newest' \in Item
    <3>1. metrics \subseteq Item /\ alerts \subseteq Item /\ newest \in Item
      BY DEF ExportInv, ExportTypeOK
    <3>2. CASE Arrives
      <4>1. newest < MaxRow /\ newest' = newest + 1
        BY <3>2 DEF Arrives
      <4>2. newest' \in Item
        BY <3>1, <4>1, ExportAssumption DEF Item
      <4>. QED BY <3>1, <3>2, <4>2 DEF Arrives
    <3>. QED BY <1>1, <3>1, <3>2 DEF Retention, exportVars
  <2>3. ExportTypeOK'
    BY <2>1, <2>2 DEF ExportInv, ExportTypeOK
  <2>4. WrittenSoFar' /\ CopyIsTold'
    BY <2>1 DEF ExportInv, WrittenSoFar, CopyIsTold
  <2>. QED BY <2>3, <2>4 DEF ExportInv
<1>2. CASE ExportFails
  <2>1. /\ step' = "failed" /\ UNCHANGED <<metrics, alerts, newest, entries, files>>
        /\ copy' = [closed |-> FALSE, device |-> 0, entries |-> entries, files |-> [n \in {} |-> 0]]
    BY <1>2 DEF ExportFails
  <2>2. ~copy'.closed
    BY <2>1
  <2>3. ~Verify(copy')
    BY <2>2 DEF Verify, EntryFor
  <2>4. ExportTypeOK' /\ CopyIsTold'
    BY <2>1, <2>3 DEF ExportInv, ExportTypeOK, CopyIsTold, Data
  <2>5. WrittenSoFar'
    BY <2>1 DEF ExportInv, WrittenSoFar
  <2>. QED BY <2>4, <2>5 DEF ExportInv
<1>3. CASE Spoil
  <2>1. /\ step = "done" /\ step' = "spoilt" /\ UNCHANGED <<metrics, alerts, newest, entries, files>>
        /\ copy' \in {CutShort(copy)} \cup Damaged(copy)
    BY <1>3 DEF Spoil
  <2>2. ~Verify(copy')
    BY <2>1, DamageIsFound DEF ExportInv, CopyIsTold
  <2>3. ExportTypeOK' /\ CopyIsTold'
    BY <2>1, <2>2 DEF ExportInv, ExportTypeOK, CopyIsTold, Data
  <2>4. WrittenSoFar'
    BY <2>1 DEF ExportInv, WrittenSoFar
  <2>. QED BY <2>3, <2>4 DEF ExportInv
<1>. QED BY <1>1, <1>2, <1>3

\* AddFile counts and hashes what it has just written, and the manifest repeats
\* it.  For any rows that arrive and are retired meanwhile: the bundle of an
\* export that ended well verifies; one that failed, was cut short, or had one
\* entry or one number changed, lost or added does not.
THEOREM ExportVerifies == ExportSpec => []BundleVerifies
<1>1. ExportInv /\ [ExportNext]_exportVars => ExportInv'
  BY AddInv, AddManifestInv, OtherExportInv DEF ExportNext
<1>2. ExportInv => BundleVerifies
  BY WholeVerifies DEF ExportInv, ExportTypeOK, CopyIsTold, BundleVerifies
<1>. QED
  BY <1>1, <1>2, ExportInvInit, PTL DEF ExportSpec

-----------------------------------------------------------------------------
(* Desk.                                                                   *)

\* A list is of clients, and nobody is no client.
ListingOK ==
  /\ DOMAIN clients \subseteq Client \cup {Unassigned}
  /\ listing \subseteq Client \cup {Unassigned}

LEMMA ListingStep == ListingOK /\ [DeskNext]_deskVars => ListingOK'
<1> SUFFICES ASSUME ListingOK, [DeskNext]_deskVars PROVE ListingOK'
  OBVIOUS
<1>1. CASE ClientHandlers
  <2>1. CASE ClientList \/ CountDevices \/ SetClient
    BY <2>1 DEF ClientList, CountDevices, SetClient, ListingOK
  <2>2. ASSUME NEW c \in Client \cup {Unassigned}, HandleDeviceClient(c)
        PROVE  ListingOK'
    BY <2>2 DEF HandleDeviceClient, ListingOK
  <2>3. ASSUME NEW c \in Client \cup {Unassigned}, NEW n \in Name, CreateClient(c, n)
        PROVE  ListingOK'
    BY <2>3 DEF CreateClient, InsertClient, With, ListingOK
  <2>4. ASSUME NEW c \in Client \cup {Unassigned}, NEW n \in Name, UpdateClient(c, n)
        PROVE  ListingOK'
    BY <2>4 DEF UpdateClient, RenameClient, ListingOK
  <2>. QED BY <1>1, <2>1, <2>2, <2>3, <2>4 DEF ClientHandlers
<1>2. CASE TicketHandlers
  BY <1>2 DEF TicketHandlers, CreateTicket, PatchTicket, CreateNote, TransitionTicket, ListingOK
<1>3. CASE Escalations
  BY <1>3 DEF Escalations, ServerStarts, Escalated, Escalate, ListingOK
<1>4. CASE UNCHANGED deskVars
  BY <1>4 DEF deskVars, ListingOK
<1>. QED BY <1>1, <1>2, <1>3, <1>4 DEF DeskNext

\* clientList and ListByClient (CountMatchesList): for any clients, the count of
\* a client is one exactly when the device is listed for it, also for a device
\* that was never assigned.
THEOREM CountsAgree == DeskSpec => CountMatchesList
<1>1. DeskInit => ListingOK
  BY DEF DeskInit, ListingOK
<1>2. ASSUME ListingOK, CountDevices, NEW c \in listing
      PROVE  counts'[c] = 1 <=> ListByClient(c)
  <2>1. counts'[c] = IF c = (IF assigned = NoOne THEN Unassigned ELSE assigned) THEN 1 ELSE 0
    BY <1>2 DEF CountDevices
  <2>2. c # NoOne
    BY <1>2, DeskAssumption DEF ListingOK
  <2>. QED BY <2>1, <2>2 DEF ListByClient
<1>3. ListingOK /\ [DeskNext]_deskVars
        => [CountDevices => \A c \in listing : counts'[c] = 1 <=> ListByClient(c)]_deskVars
  BY <1>2
<1>. QED BY <1>1, <1>3, ListingStep, PTL DEF DeskSpec, CountMatchesList

-----------------------------------------------------------------------------
(* Alerts.                                                                 *)

PassRow ==
  {NoPass} \cup [at : {"scored"}, hot : BOOLEAN, alone : BOOLEAN]
  \cup [at : {"loaded"}, hot : BOOLEAN, alone : BOOLEAN, open : BOOLEAN]
  \cup [at : {"planned"}, alone : BOOLEAN, plan : {"create", "bump", "resolve"}]

AlertTypeOK ==
  /\ pass \in [Pass -> PassRow]
  /\ quiet \in 0..QuietNeeded - 1 /\ clean \in 0..QuietNeeded

\* The streak counts clean passes, and forgets at least as often.
StreakIsClean == quiet <= clean

\* While a pass is alone, no other is under way.
AloneIsAlone ==
  \A p, q \in Pass : pass[p].at # "idle" /\ pass[p].alone /\ q # p => pass[q].at = "idle"

\* A lone pass that goes to resolve has completed the streak itself.
PlannedIsClean ==
  \A p \in Pass : pass[p].at = "planned" /\ pass[p].plan = "resolve" /\ pass[p].alone =>
                    clean >= QuietNeeded

AlertInv == AlertTypeOK /\ StreakIsClean /\ AloneIsAlone /\ PlannedIsClean

\* A step that leaves passes and streaks alone.
LEMMA AlertAside == ASSUME AlertInv, UNCHANGED <<pass, quiet, clean>> PROVE AlertInv'
  BY DEF AlertInv, AlertTypeOK, StreakIsClean, AloneIsAlone, PlannedIsClean

\* A pass that ends.
LEMMA PassOver ==
  ASSUME AlertInv, NEW p \in Pass, pass' = [pass EXCEPT ![p] = NoPass], UNCHANGED <<quiet, clean>>
  PROVE  AlertInv'
<1>1. \A q \in Pass : pass'[q] = IF q = p THEN NoPass ELSE pass[q]
  BY DEF AlertInv, AlertTypeOK
<1>2. pass' \in [Pass -> PassRow] /\ NoPass.at = "idle"
  BY DEF AlertInv, AlertTypeOK, PassRow, NoPass
<1>. QED BY <1>1, <1>2 DEF AlertInv, AlertTypeOK, StreakIsClean, AloneIsAlone, PlannedIsClean

LEMMA RunOnceInv == ASSUME AlertInv, NEW p \in Pass, RunOnce(p) PROVE AlertInv'
<1>1. PICK hot \in BOOLEAN : Enter(p, hot)
  BY DEF RunOnce, Score
<1> DEFINE lone == \A r \in Pass \ {p} : pass[r].at = "idle"
           mine == [at |-> "scored", hot |-> hot, alone |-> lone]
<1>2. pass' = [q \in Pass |-> IF q = p THEN mine
                              ELSE IF pass[q].at = "idle" THEN pass[q] ELSE [pass[q] EXCEPT !.alone = FALSE]]
  BY <1>1 DEF Enter
<1>3. lone \in BOOLEAN
  OBVIOUS
<1>4. mine \in PassRow /\ mine.at = "scored" /\ (mine.alone <=> lone)
  <2>. HIDE DEF lone
  <2>. QED BY <1>3 DEF PassRow
<1>. HIDE DEF mine
<1>5. ASSUME NEW q \in Pass, pass[q].at # "idle"
      PROVE  LET e == [pass[q] EXCEPT !.alone = FALSE]
             IN  e \in PassRow /\ e.at = pass[q].at /\ ~e.alone
  <2> DEFINE e == [pass[q] EXCEPT !.alone = FALSE]
  <2>1. pass[q] \in PassRow
    BY DEF AlertInv, AlertTypeOK
  <2>2. CASE pass[q] \in [at : {"scored"}, hot : BOOLEAN, alone : BOOLEAN]
    <3>1. e \in [at : {"scored"}, hot : BOOLEAN, alone : BOOLEAN] /\ e.at = pass[q].at /\ ~e.alone
      BY <2>2
    <3>. QED BY <3>1 DEF PassRow
  <2>3. CASE pass[q] \in [at : {"loaded"}, hot : BOOLEAN, alone : BOOLEAN, open : BOOLEAN]
    <3>1. /\ e \in [at : {"loaded"}, hot : BOOLEAN, alone : BOOLEAN, open : BOOLEAN]
          /\ e.at = pass[q].at /\ ~e.alone
      BY <2>3
    <3>. QED BY <3>1 DEF PassRow
  <2>4. CASE pass[q] \in [at : {"planned"}, alone : BOOLEAN, plan : {"create", "bump", "resolve"}]
    <3>1. /\ e \in [at : {"planned"}, alone : BOOLEAN, plan : {"create", "bump", "resolve"}]
          /\ e.at = pass[q].at /\ ~e.alone
      BY <2>4
    <3>. QED BY <3>1 DEF PassRow
  <2>. QED BY <1>5, <2>1, <2>2, <2>3, <2>4 DEF PassRow, NoPass
<1>6. pass' \in [Pass -> PassRow]
  BY <1>2, <1>4, <1>5 DEF AlertInv, AlertTypeOK
<1>7. \A q \in Pass \ {p} : /\ pass'[q].at = pass[q].at
                            /\ pass[q].at # "idle" => ~pass'[q].alone
  BY <1>2, <1>5
<1>8. pass'[p] = mine
  BY <1>2
<1>9. UNCHANGED <<quiet, clean>>
  BY DEF RunOnce
<1>10. AloneIsAlone'
  BY <1>4, <1>7, <1>8 DEF AloneIsAlone
<1>11. PlannedIsClean'
  BY <1>4, <1>7, <1>8 DEF PlannedIsClean
<1>. QED BY <1>6, <1>9, <1>10, <1>11 DEF AlertInv, AlertTypeOK, StreakIsClean

LEMMA LoadOpenInv == ASSUME AlertInv, NEW p \in Pass, LoadOpen(p) PROVE AlertInv'
<1> DEFINE open == Unresolved # {}
           mine == [at |-> "loaded", hot |-> pass[p].hot, alone |-> pass[p].alone, open |-> open]
<1>1. pass' = [pass EXCEPT ![p] = mine] /\ UNCHANGED <<quiet, clean>> /\ pass[p].at = "scored"
  BY DEF LoadOpen
<1>2. open \in BOOLEAN
  OBVIOUS
<1>3. mine \in PassRow /\ mine.at = "loaded" /\ (mine.alone <=> pass[p].alone)
  <2>. HIDE DEF open
  <2>. QED BY <1>1, <1>2 DEF AlertInv, AlertTypeOK, PassRow, NoPass
<1>. HIDE DEF mine
<1>4. pass' \in [Pass -> PassRow] /\ \A q \in Pass : pass'[q] = IF q = p THEN mine ELSE pass[q]
  BY <1>1, <1>3 DEF AlertInv, AlertTypeOK
<1>. QED BY <1>1, <1>3, <1>4 DEF AlertInv, AlertTypeOK, StreakIsClean, AloneIsAlone, PlannedIsClean

LEMMA PlanInv == ASSUME AlertInv, NEW p \in Pass, PlanReconcile(p) PROVE AlertInv'
<1> DEFINE hot == pass[p].hot
           open == pass[p].open
           streak == Streak(hot, open)
           ripe == ~hot /\ open /\ streak >= QuietNeeded
           plan == IF hot THEN (IF open THEN "bump" ELSE "create") ELSE IF ripe THEN "resolve" ELSE "none"
           mine == [at |-> "planned", alone |-> pass[p].alone, plan |-> plan]
           next == IF plan = "none" THEN NoPass ELSE mine
<1>1. /\ pass[p].at = "loaded" /\ quiet' = (IF ripe THEN 0 ELSE streak)
      /\ pass' = [pass EXCEPT ![p] = next]
      /\ clean' = IF hot THEN 0 ELSE IF clean < QuietNeeded THEN clean + 1 ELSE clean
  BY DEF PlanReconcile
<1>2. hot \in BOOLEAN /\ open \in BOOLEAN /\ pass[p].alone \in BOOLEAN
  BY <1>1 DEF AlertInv, AlertTypeOK, PassRow, NoPass
<1>3. streak = (IF ~hot /\ open THEN quiet + 1 ELSE 0)
  BY DEF Streak
<1>4. /\ quiet \in Nat /\ quiet < QuietNeeded /\ clean \in Nat /\ clean <= QuietNeeded
      /\ quiet <= clean /\ QuietNeeded \in Nat /\ QuietNeeded > 0
  BY AlertAssumption DEF AlertInv, AlertTypeOK, StreakIsClean
<1>. HIDE DEF hot, open, streak
<1>5. /\ quiet' \in 0..QuietNeeded - 1 /\ clean' \in 0..QuietNeeded /\ quiet' <= clean'
  BY <1>1, <1>2, <1>3, <1>4
<1>6. plan = "resolve" => clean' >= QuietNeeded
  BY <1>1, <1>2, <1>3, <1>4
<1>7. plan \in {"create", "bump", "resolve", "none"}
  OBVIOUS
<1>. HIDE DEF ripe, plan
<1>8. /\ next \in PassRow /\ next.at \in {"idle", "planned"}
      /\ next.at = "planned" => (next.alone <=> pass[p].alone) /\ next.plan = plan
  BY <1>2, <1>7 DEF PassRow, NoPass
<1>. HIDE DEF next
<1>9. pass' \in [Pass -> PassRow] /\ \A q \in Pass : pass'[q] = IF q = p THEN next ELSE pass[q]
  BY <1>1, <1>8 DEF AlertInv, AlertTypeOK
<1>10. AloneIsAlone'
  BY <1>1, <1>8, <1>9 DEF AlertInv, AloneIsAlone
<1>11. PlannedIsClean'
  <2>. SUFFICES ASSUME NEW q \in Pass, pass'[q].at = "planned", pass'[q].plan = "resolve", pass'[q].alone
       PROVE  clean' >= QuietNeeded
    BY DEF PlannedIsClean
  <2>1. CASE q = p
    BY <1>6, <1>8, <1>9, <2>1
  <2>2. CASE q # p
    BY <1>1, <1>9, <2>2 DEF AlertInv, AloneIsAlone
  <2>. QED BY <2>1, <2>2
<1>. QED BY <1>5, <1>9, <1>10, <1>11 DEF AlertInv, AlertTypeOK, StreakIsClean

LEMMA AlertStep == AlertInv /\ [AlertNext]_alertVars => AlertInv'
<1> SUFFICES ASSUME AlertInv, [AlertNext]_alertVars PROVE AlertInv'
  OBVIOUS
<1>1. ASSUME NEW p \in Pass, RunOnce(p) PROVE AlertInv'
  BY <1>1, RunOnceInv
<1>2. ASSUME NEW p \in Pass, LoadOpen(p) PROVE AlertInv'
  BY <1>2, LoadOpenInv
<1>3. ASSUME NEW p \in Pass, PlanReconcile(p) PROVE AlertInv'
  BY <1>3, PlanInv
<1>4. ASSUME NEW p \in Pass, Reconcile(p) \/ PassFails(p) PROVE AlertInv'
  <2>1. pass' = [pass EXCEPT ![p] = NoPass] /\ UNCHANGED <<quiet, clean>>
    BY <1>4 DEF Reconcile, PassFails
  <2>. QED BY <2>1, PassOver
<1>5. CASE HandleAlertStatus \/ SetStatus \/ SampleArrives \/ WindowSlides \/ DeviceMoves
           \/ UNCHANGED alertVars
  <2>1. UNCHANGED <<pass, quiet, clean>>
    BY <1>5 DEF HandleAlertStatus, SetStatus, SampleArrives, WindowSlides, DeviceMoves, alertVars
  <2>. QED BY <2>1, AlertAside
<1>. QED BY <1>1, <1>2, <1>3, <1>4, <1>5 DEF AlertNext, PassStep

\* Reconcile (CleanBeforeResolved): for any number of passes and any length of
\* streak, a pass that ran alone resolves an alert only on QuietNeeded clean
\* passes in a row.
THEOREM ResolvesWhenClean == AlertSpec => CleanBeforeResolved
<1>1. AlertInit => AlertInv
  <2>. SUFFICES ASSUME AlertInit PROVE AlertInv
    OBVIOUS
  <2>1. pass \in [Pass -> PassRow] /\ \A p \in Pass : pass[p].at = "idle"
    BY DEF AlertInit, PassRow, NoPass
  <2>. QED BY <2>1, AlertAssumption
    DEF AlertInit, AlertInv, AlertTypeOK, StreakIsClean, AloneIsAlone, PlannedIsClean
<1>2. ASSUME AlertInv, NEW p \in Pass, Reconcile(p), pass[p].plan = "resolve", pass[p].alone
      PROVE  clean >= QuietNeeded
  BY <1>2 DEF Reconcile, AlertInv, PlannedIsClean
<1>3. AlertInv /\ [AlertNext]_alertVars
        => [\A p \in Pass : Reconcile(p) /\ pass[p].plan = "resolve" /\ pass[p].alone
              => clean >= QuietNeeded]_alertVars
  BY <1>2
<1>. QED BY <1>1, <1>3, AlertStep, PTL DEF AlertSpec, CleanBeforeResolved
=============================================================================
