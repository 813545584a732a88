------------------------------ MODULE FirstRun ------------------------------
(***************************************************************************)
(* First-run setup, the settings page and the mail outbox.  The wizard     *)
(* re-issues the organisation's root, hands it to the token issuer and     *)
(* stores the rest, each in a step of its own; the settings page reads     *)
(* what is stored, and writes it back later.                               *)
(***************************************************************************)
EXTENDS Integers, Sequences

CONSTANTS
  Req,      \* requests, each its own handler
  Admin,    \* user names, numbers for their alphabetical order
  EnvAdmin, \* the one the environment names
  Mail,     \* the SMTP settings a request may send
  NoReq

\* Names are compared, and any table of them has a first one.
ASSUME FirstRunAssumption ==
  /\ Admin \subseteq Int /\ EnvAdmin \in Admin /\ NoReq \notin Req
  /\ \A s \in SUBSET Admin : s # {} => \E a \in s : \A b \in s : a <= b
  /\ Mail \subseteq [host : BOOLEAN, port : Int, password : Req \cup {NoReq}]

VARIABLES
  stored,    \* server_setup, admin_users and server_config
  root,      \* the request whose organisation the CA's root names, or NoReq
  issuer,    \* the root the token issuer signs with
  enrolled,  \* some device holds a certificate
  job,       \* request -> what it sends and where its handler stands
  relay,     \* the SMTP server: the project's own sink, or any other
  mails,     \* requests whose message it accepted
  sockets,   \* requests whose connection is open
  overlapped \* history: two wizards passed the check of done

firstVars == <<stored, root, issuer, enrolled, job, relay, mails, sockets, overlapped>>

\* Whoever sets a password or an organisation is the value: one request, one secret.
Unconfigured == [host |-> FALSE, port |-> 0, password |-> NoReq]

FirstInit ==
  /\ stored = [done |-> FALSE, org |-> NoReq, smtp |-> Unconfigured, admins |-> [a \in Admin |-> NoReq]]
  /\ root = NoReq /\ issuer = NoReq /\ enrolled = FALSE
  /\ job = [r \in Req |-> [at |-> "idle", admin |-> EnvAdmin, smtp |-> Unconfigured, said |-> 0]]
  /\ relay \in {"sink", "other"} /\ mails = {} /\ sockets = {} /\ overlapped = FALSE

\* The handler of r is at p and goes on to q.
Reach(r, p, q) == job[r].at = p /\ job' = [job EXCEPT ![r].at = q]

tables == <<stored, root, issuer, enrolled>>
outbox == <<relay, mails, sockets>>

(***************************************************************************)
(* SMTP settings.                                                          *)
(***************************************************************************)

\* No host: mail is not configured, and whatever else is given is kept.
Normalize(c) == IF c.host /\ c.port = 0 THEN [c EXCEPT !.port = 587] ELSE c

ValidMail(c) == ~c.host \/ Normalize(c).port \in 1 .. 65535

IsConfigured(c) == c.host

SecurityMode(c) == CASE c.port = 465 -> "implicit" [] c.port = 587 -> "starttls" [] OTHER -> "plain"

\* Load: what is stored counts once setup is done, and not before.
Load == IF stored.done THEN stored.smtp ELSE Unconfigured

AdminUsernames == {a \in Admin : stored.admins[a] # NoReq}

\* currentUsername: the first administrator, or the environment's before setup.
CurrentUsername ==
  IF stored.done /\ AdminUsernames # {}
  THEN CHOOSE a \in AdminUsernames : \A b \in AdminUsernames : a <= b
  ELSE EnvAdmin

(***************************************************************************)
(* handleSetupComplete: Service.Complete, one step for each statement      *)
(* that others can come between.                                           *)
(***************************************************************************)

\* The request is decoded and validated; its organisation is its own.
StartWizard(r) ==
  /\ job[r].at = "idle"
  /\ \E a \in Admin, c \in Mail :
       job' = [job EXCEPT ![r] = [@ EXCEPT !.admin = a, !.smtp = Normalize(c),
                                           !.at = IF ValidMail(c) THEN "check" ELSE "over"]]
  /\ UNCHANGED <<tables, outbox, overlapped>>

InWizard(r) == job[r].at \in {"count", "reissue", "refresh", "persist"}

\* Done: refused once setup is complete.
CheckDone(r) ==
  /\ \/ ~stored.done /\ Reach(r, "check", "count")
     \/ Reach(r, "check", "over") \* done, or the query fails
  /\ overlapped' = (overlapped \/ \E s \in Req \ {r} : InWizard(s) /\ job'[r].at = "count")
  /\ UNCHANGED <<tables, outbox>>

\* A root is not replaced under the devices that trust it.
CheckDevices(r) ==
  /\ \/ ~enrolled /\ Reach(r, "count", "reissue")
     \/ Reach(r, "count", "over") \* devices enrolled, or the count fails
  /\ UNCHANGED <<tables, outbox, overlapped>>

\* Mutant of CompleteReissue: the rest is stored whether or not the root was.
CompleteReissueUnchecked(r) ==
  /\ \/ Reach(r, "reissue", "refresh") /\ root' = r
     \/ Reach(r, "reissue", "persist") /\ UNCHANGED root
  /\ UNCHANGED <<stored, issuer, enrolled, outbox, overlapped>>

\* ReissueRoot: the new root is persisted and put in use, or nothing is.
CompleteReissue(r) ==
  /\ \/ Reach(r, "reissue", "refresh") /\ root' = r
     \/ Reach(r, "reissue", "over") /\ UNCHANGED root
  /\ UNCHANGED <<stored, issuer, enrolled, outbox, overlapped>>

\* OnReissued: the issuer takes the root that is current by now.
RefreshIssuer(r) ==
  /\ Reach(r, "refresh", "persist") /\ issuer' = root
  /\ UNCHANGED <<stored, root, enrolled, outbox, overlapped>>

\* One transaction of upserts, which does not ask whether setup was done.
CompleteStore(r) ==
  /\ \/ /\ Reach(r, "persist", "complete")
        /\ stored' = [done |-> TRUE, org |-> r, smtp |-> job[r].smtp,
                      admins |-> [stored.admins EXCEPT ![job[r].admin] = r]]
     \/ Reach(r, "persist", "over") /\ UNCHANGED stored
  /\ UNCHANGED <<root, issuer, enrolled, outbox, overlapped>>

(***************************************************************************)
(* The settings page.                                                      *)
(***************************************************************************)

\* handleSettingsPatch: a blank password stands for the stored one, which is
\* read here and written later; a failing read leaves it blank.
StartSettings(r) ==
  /\ job[r].at = "idle"
  /\ \E c \in Mail, found \in BOOLEAN :
       LET kept == IF c.host /\ c.password = NoReq /\ found THEN [c EXCEPT !.password = Load.password] ELSE c
       IN  job' = [job EXCEPT ![r] = [@ EXCEPT !.smtp = Normalize(kept),
                                               !.at = IF ValidMail(c) THEN "save" ELSE "over"]]
  /\ UNCHANGED <<tables, outbox, overlapped>>

SaveSMTP(r) ==
  /\ \/ Reach(r, "save", "over") /\ stored' = [stored EXCEPT !.smtp = job[r].smtp]
     \/ Reach(r, "save", "over") /\ UNCHANGED stored
  /\ UNCHANGED <<root, issuer, enrolled, outbox, overlapped>>

\* CheckCredentials compares with the row of the name as it is now.
CheckCredentials(a, p) == stored.admins[a] # NoReq /\ stored.admins[a] = p

\* handleSettingsProfilePassword: the name is looked up, then its password
\* checked; before setup the environment's password counts, even when a row
\* has been stored since.
StartPassword(r) ==
  /\ job[r].at = "idle"
  /\ job' = [job EXCEPT ![r] = [@ EXCEPT !.admin = CurrentUsername,
                                         !.at = IF stored.done THEN "verify" ELSE "update"]]
  /\ UNCHANGED <<tables, outbox, overlapped>>

\* Whoever sends the request knows some password, perhaps the right one.
CheckCurrent(r) ==
  /\ \/ Reach(r, "verify", "update") /\ \E p \in Req : CheckCredentials(job[r].admin, p)
     \/ Reach(r, "verify", "over")
  /\ UNCHANGED <<tables, outbox, overlapped>>

\* An upsert: it stores a row for the environment's administrator too.
UpdatePassword(r) ==
  /\ \/ Reach(r, "update", "over") /\ stored' = [stored EXCEPT !.admins[job[r].admin] = r]
     \/ Reach(r, "update", "over") /\ UNCHANGED stored
  /\ UNCHANGED <<root, issuer, enrolled, outbox, overlapped>>

(***************************************************************************)
(* A test message.                                                         *)
(***************************************************************************)

\* handleSetupSMTPTest sends by what the request says.
StartSetupTest(r) ==
  /\ job[r].at = "idle"
  /\ \E c \in Mail :
       job' = [job EXCEPT ![r] = [@ EXCEPT !.smtp = Normalize(c),
                                           !.at = IF ValidMail(c) /\ IsConfigured(c) THEN "send" ELSE "over"]]
  /\ UNCHANGED <<tables, outbox, overlapped>>

\* handleSettingsSMTPTest sends by what is stored.
StartSettingsTest(r) ==
  /\ job[r].at = "idle"
  /\ job' = [job EXCEPT ![r] = [@ EXCEPT !.smtp = Load,
                                         !.at = IF IsConfigured(Load) THEN "send" ELSE "over"]]
  /\ UNCHANGED <<tables, outbox, overlapped>>

\* dial: port 465 speaks TLS from the start, 587 must switch to it.
DialSteps(c) ==
  CASE SecurityMode(c) = "implicit" -> <<"dial", "handshake", "greeting">>
    [] SecurityMode(c) = "starttls" -> <<"dial", "greeting", "starttls">>
    [] OTHER -> <<"dial", "greeting">>

\* Send: a password is used if there is one.
SendSteps(c) ==
  DialSteps(c) \o (IF c.password # NoReq THEN <<"auth">> ELSE <<>>) \o <<"mail", "rcpt", "data", "end">>

\* The sink accepts everything it knows, and knows no TLS.
SinkAccepts(s) == s \notin {"handshake", "starttls"}

Accepts(s) == relay = "other" \/ SinkAccepts(s)
Rejects(s) == relay = "other" \/ ~SinkAccepts(s)

\* The next step of the dialogue succeeds.
Say(r) ==
  LET s == SendSteps(job[r].smtp)[job[r].said + 1]
  IN  /\ job[r].at = "send" /\ Accepts(s)
      /\ job' = [job EXCEPT ![r] = [@ EXCEPT !.said = job[r].said + 1, !.at = IF s = "end" THEN "over" ELSE "send"]]
      /\ sockets' = CASE s = "dial" -> sockets \cup {r} [] s = "end" -> sockets \ {r} [] OTHER -> sockets
      /\ mails' = IF s = "end" THEN mails \cup {r} ELSE mails
      /\ UNCHANGED <<tables, relay, overlapped>>

\* It fails: the connection is closed, but for a greeting that fails inside
\* TLS.  The answer to the last step may be lost, and the message not.
SayFails(r) ==
  LET s == SendSteps(job[r].smtp)[job[r].said + 1]
  IN  /\ Reach(r, "send", "over") /\ Rejects(s)
      /\ sockets' = IF s = "greeting" /\ SecurityMode(job[r].smtp) = "implicit" THEN sockets ELSE sockets \ {r}
      /\ mails' \in IF s = "end" THEN {mails, mails \cup {r}} ELSE {mails}
      /\ UNCHANGED <<tables, relay, overlapped>>

(***************************************************************************)
(* Devices enrol, and the server stops and starts.                         *)
(***************************************************************************)

FirstDevice ==
  /\ ~enrolled /\ enrolled' = TRUE
  /\ UNCHANGED <<stored, root, issuer, job, outbox, overlapped>>

\* Requests and connections are gone; the issuer is made from the stored root.
RestartServer ==
  /\ \E r \in Req : job[r].at \notin {"idle", "over", "complete"} \/ r \in sockets
  /\ job' = [r \in Req |-> IF job[r].at \in {"idle", "complete"} THEN job[r] ELSE [job[r] EXCEPT !.at = "over"]]
  /\ issuer' = root /\ sockets' = {}
  /\ UNCHANGED <<stored, root, enrolled, relay, mails, overlapped>>

HandleSetupComplete(r) ==
  \/ StartWizard(r) \/ CheckDone(r) \/ CheckDevices(r) \/ CompleteReissue(r) \/ RefreshIssuer(r) \/ CompleteStore(r)

HandleSettings(r) ==
  \/ StartSettings(r) \/ SaveSMTP(r) \/ StartPassword(r) \/ CheckCurrent(r) \/ UpdatePassword(r)
  \/ StartSettingsTest(r) \/ StartSetupTest(r) \/ Say(r) \/ SayFails(r)

FirstNext == FirstDevice \/ RestartServer \/ \E r \in Req : HandleSetupComplete(r) \/ HandleSettings(r)

FirstSpec == FirstInit /\ [][FirstNext]_firstVars

(***************************************************************************)
(* Properties.                                                             *)
(***************************************************************************)

\* Service.Complete re-issues, refreshes and persists in three steps, each of
\* which may fail and each of which others may come between: once setup is done,
\* the root names the stored organisation and the wizard that stored it stored an
\* administrator, unless two wizards overlapped; and no token is signed under a
\* root that has been replaced, but for the moment before the refresh.
SetupIsWhole ==
  /\ stored.done /\ ~overlapped =>
       /\ root = stored.org
       /\ \A r \in Req : job[r].at = "complete" => stored.org = r /\ stored.admins[job[r].admin] # NoReq
  /\ (\A r \in Req : job[r].at # "refresh") => issuer = root
=============================================================================
