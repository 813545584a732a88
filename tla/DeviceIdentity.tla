--------------------------- MODULE DeviceIdentity ---------------------------
(***************************************************************************)
(* The identity of one device: the bootstrap token that buys it, the org   *)
(* root that signs it, the first-boot wizard that re-issues the root, and  *)
(* on the agent enrolment over two channels, the identity file with its    *)
(* concurrent writers, leaf rotation and JWT renewal.                      *)
(*                                                                         *)
(* A leaf is its serial number and the generation of the root that signed  *)
(* it; leaves expire in the order they were issued.  A JWT is the number   *)
(* of its renewal.                                                         *)
(***************************************************************************)
EXTENDS Integers, FiniteSets

CONSTANTS
  Wizard,     \* setup requests
  MaxLeaf,    \* bound: leaves are refreshed up to this one
  MaxJwt,     \* bound: renewals of the token
  MaxDown,    \* bound: crashes and restarts of the agent or the server
  MaxFault,   \* bound: failing stores and lost replies
  NoId,       \* no identity, no file
  TornId      \* a file that is empty, cut short or mixed of two writes

\* An identity: its token, its leaf, the root that signed it and the one it pins.
Identity == [jwt : Nat, leaf : Nat, by : Nat, pin : Nat]

ASSUME IdentityAssumption == {MaxLeaf, MaxJwt, MaxDown, MaxFault} \subseteq Nat /\ {NoId, TornId} \cap Identity = {} /\ NoId # TornId

VARIABLES
  token,      \* the bootstrap token in the server's memory
  known,      \* the device has a row in the device store
  root,       \* generation of the org root
  signer,     \* generation the capability issuer signs with
  srv,        \* generation that signed the cached server certificate, 0 for none
  wiz,        \* wizard request -> where it stands
  setup,      \* the wizard's completion is persisted
  call,       \* enrolment channel -> the handler on the server
  agent,      \* the agent process
  conf,       \* the token is in the agent's config file
  mem, disk,  \* the identity in memory and in its file
  tmp,        \* the temporary file every save goes through
  save,       \* writer -> its save in progress
  conn,       \* the mTLS channel is up
  issued, expired,  \* leaves so far
  raced,      \* the device was registered while a wizard relied on having none
  overlap,    \* the last save began or went on beside another one
  failed,     \* the save that ended last returned an error
  downs, faults

serverVars == <<token, known, root, signer, srv, wiz, setup, call>>
fileVars   == <<disk, tmp, save, overlap, failed>>
idVars == <<serverVars, agent, conf, mem, fileVars, conn, issued, expired, raced, downs, faults>>

Channel == {"http", "grpc"}
Writer  == {"uplink", "rotator"}

NoCall == [at |-> "none", root |-> 0]
Idle   == [at |-> "idle"]

IdInit ==
  /\ token = "none" /\ known = FALSE /\ root = 1 /\ signer = 1 /\ srv = 0
  /\ wiz = [w \in Wizard |-> "no"] /\ setup = FALSE /\ call = [c \in Channel |-> NoCall]
  /\ agent = "down" /\ conf = TRUE /\ mem = NoId /\ disk = NoId /\ tmp = NoId
  /\ save = [s \in Writer |-> Idle] /\ conn = FALSE /\ issued = 0 /\ expired = 0
  /\ raced = FALSE /\ overlap = FALSE /\ failed = FALSE /\ downs = 0 /\ faults = 0

(***************************************************************************)
(* The server: bootstrap tokens and the Enroll handler.                    *)
(***************************************************************************)

MintBootstrapToken ==
  /\ token = "none" /\ token' = "fresh"
  /\ UNCHANGED <<known, root, signer, srv, wiz, setup, call, agent, conf, mem, fileVars, conn, issued, expired, raced, downs, faults>>

ClaimOnce(c) ==
  /\ call[c].at = "sent"
  /\ IF token = "fresh"
     THEN token' = "grace" /\ call' = [call EXCEPT ![c].at = "claimed"]
     ELSE UNCHANGED token /\ call' = [call EXCEPT ![c].at = "refused"]
  /\ UNCHANGED <<known, root, signer, srv, wiz, setup, agent, conf, mem, fileVars, conn, issued, expired, raced, downs, faults>>

\* The token is claimed and kept for the grace window, or mapped back within it.
Claim(c) ==
  /\ call[c].at = "sent"
  /\ IF token \in {"fresh", "grace"}
     THEN token' = "grace" /\ call' = [call EXCEPT ![c].at = "claimed"]
     ELSE UNCHANGED token /\ call' = [call EXCEPT ![c].at = "refused"]
  /\ UNCHANGED <<known, root, signer, srv, wiz, setup, agent, conf, mem, fileVars, conn, issued, expired, raced, downs, faults>>

\* The grace window passes.
PruneConsumed ==
  /\ token = "grace" /\ token' = "dead"
  /\ UNCHANGED <<known, root, signer, srv, wiz, setup, call, agent, conf, mem, fileVars, conn, issued, expired, raced, downs, faults>>

Register(c) ==
  /\ call[c].at = "claimed"
  /\ \/ /\ known' = TRUE /\ call' = [call EXCEPT ![c].at = "registered"]
        /\ raced' = (raced \/ \E w \in Wizard : wiz[w] = "checked")
        /\ UNCHANGED faults
     \/ /\ faults < MaxFault /\ faults' = faults + 1
        /\ call' = [call EXCEPT ![c].at = "failed"] /\ UNCHANGED <<known, raced>>
  /\ UNCHANGED <<token, root, signer, srv, wiz, setup, agent, conf, mem, fileVars, conn, issued, expired, downs>>

\* IssueDevice takes the root under the lock, signs after it ...
IssueDevice(c) ==
  /\ call[c].at = "registered"
  /\ call' = [call EXCEPT ![c] = [at |-> "read", root |-> root]]
  /\ UNCHANGED <<token, known, root, signer, srv, wiz, setup, agent, conf, mem, fileVars, conn, issued, expired, raced, downs, faults>>

IssueLeaf(generation) == [leaf |-> issued + 1, by |-> generation]

\* The leaf is recorded, or the call fails.
SaveLeaf == \/ UNCHANGED faults
            \/ faults < MaxFault /\ faults' = faults + 1

MintJWT == 0

\* ... and hands out the root that is current by then.
EnrollReply(c) ==
  /\ call[c].at = "read" /\ issued' = issued + 1 /\ SaveLeaf
  /\ LET l == IssueLeaf(call[c].root)
     IN  call' = [call EXCEPT ![c] = IF faults' = faults
                                     THEN [at |-> "ok", id |-> [jwt |-> MintJWT, leaf |-> l.leaf, by |-> l.by, pin |-> root]]
                                     ELSE [at |-> "failed", root |-> 0]]
  /\ UNCHANGED <<token, known, root, signer, srv, wiz, setup, agent, conf, mem, fileVars, conn, expired, raced, downs>>

\* The gRPC error of the call, as the status of the HTTP origin.
HttpStatusFromGRPC(at) == CASE at = "refused" -> 403 [] at = "failed" -> 500 [] OTHER -> 200

HandleAgentEnroll == HttpStatusFromGRPC(call["http"].at)

(***************************************************************************)
(* The first-boot wizard.                                                  *)
(***************************************************************************)

AnyDeviceCounts == ~setup

\* Refused once completed and, so that no leaf is orphaned, once a device exists.
NoDeviceYet == ~setup /\ ~known

CompleteChecks(w) ==
  /\ wiz[w] = "no"
  /\ wiz' = [wiz EXCEPT ![w] = IF NoDeviceYet THEN "checked" ELSE "refused"]
  /\ UNCHANGED <<token, known, root, signer, srv, setup, call, agent, conf, mem, fileVars, conn, issued, expired, raced, downs, faults>>

GenerateRootNamed == root + 1

\* The one row of the org root.
ReplaceRoot(generation) ==
  \/ root' = generation /\ UNCHANGED faults
  \/ faults < MaxFault /\ faults' = faults + 1 /\ UNCHANGED root

\* A fresh root replaces the persisted one and is swapped in; the cached
\* server certificate goes with the old one.
ReissueRoot(w) ==
  /\ wiz[w] = "checked" /\ ReplaceRoot(GenerateRootNamed)
  /\ IF root' = root THEN UNCHANGED srv /\ wiz' = [wiz EXCEPT ![w] = "refused"]
                     ELSE srv' = 0 /\ wiz' = [wiz EXCEPT ![w] = "reissued"]
  /\ UNCHANGED <<token, known, signer, setup, call, agent, conf, mem, fileVars, conn, issued, expired, raced, downs>>

OnReissued(w) ==
  /\ wiz[w] = "reissued" /\ wiz' = [wiz EXCEPT ![w] = "signed"]
  /\ signer' = root
  /\ UNCHANGED <<token, known, root, srv, setup, call, agent, conf, mem, fileVars, conn, issued, expired, raced, downs, faults>>

\* One transaction, which overwrites an earlier completion.
MarkDone(w) ==
  \/ wiz' = [wiz EXCEPT ![w] = "done"] /\ setup' = TRUE /\ UNCHANGED faults
  \/ /\ faults < MaxFault /\ faults' = faults + 1
     /\ wiz' = [wiz EXCEPT ![w] = "refused"] /\ UNCHANGED setup

CompletePersists(w) ==
  /\ wiz[w] = "signed" /\ MarkDone(w)
  /\ UNCHANGED <<token, known, root, signer, srv, call, agent, conf, mem, fileVars, conn, issued, expired, raced, downs>>

\* The persisted root is restored, for the leaves and the capability tokens.
NewManager == signer' = root /\ srv' = 0 /\ UNCHANGED root

\* Tokens live in memory; handlers die, the root and the rows are loaded again.
ServerRestart ==
  /\ downs < MaxDown /\ downs' = downs + 1
  /\ token' = (IF token \in {"fresh", "grace"} THEN "dead" ELSE token)
  /\ call' = [c \in Channel |-> IF call[c].at = "none" THEN NoCall ELSE [at |-> "failed", root |-> 0]]
  /\ wiz' = [w \in Wizard |-> IF wiz[w] \in {"checked", "reissued", "signed"} THEN "refused" ELSE wiz[w]]
  /\ NewManager /\ conn' = FALSE
  /\ UNCHANGED <<known, setup, agent, conf, mem, fileVars, issued, expired, raced, faults>>

(***************************************************************************)
(* The agent: enrolment.                                                   *)
(***************************************************************************)

Post(c) == call' = [d \in Channel |-> IF d = c THEN [at |-> "sent", root |-> 0] ELSE call[d]]

Load == disk

\* The config file's token, if it is still there.
LoadConfig == conf /\ token # "none"

\* The persisted identity is used as it is; without one the token is spent.  A
\* file that cannot be parsed ends the start.
EnsureEnrolled ==
  /\ agent = "down"
  /\ \/ /\ Load \notin {NoId, TornId} /\ agent' = "run" /\ mem' = Load /\ UNCHANGED call
        /\ overlap' = FALSE /\ failed' = FALSE
     \/ /\ Load = NoId /\ LoadConfig /\ agent' = "http" /\ Post("http")
        /\ UNCHANGED <<mem, overlap, failed>>
  /\ UNCHANGED <<token, known, root, signer, srv, wiz, setup, conf, disk, tmp, save, conn, issued, expired, raced, downs, faults>>

TransientStatus(code) == code >= 500 \/ code = 404

\* A failure or a lost reply of the HTTP origin: the same token over gRPC.
FallBack ==
  /\ agent = "http" /\ agent' = "grpc" /\ Post("grpc")
  /\ \/ TransientStatus(HandleAgentEnroll) /\ UNCHANGED faults
     \/ HandleAgentEnroll = 200 /\ faults < MaxFault /\ faults' = faults + 1
  /\ UNCHANGED <<token, known, root, signer, srv, wiz, setup, conf, mem, fileVars, conn, issued, expired, raced, downs>>

\* A definite answer, or the second channel failing: the pass ends.
GiveUp(c) ==
  /\ agent = c
  /\ \/ call[c].at = "refused" /\ UNCHANGED faults
     \/ c = "grpc" /\ call[c].at = "failed" /\ UNCHANGED faults
     \/ c = "grpc" /\ call[c].at # "refused" /\ faults < MaxFault /\ faults' = faults + 1
  /\ agent' = "down" /\ mem' = NoId
  /\ UNCHANGED <<serverVars, conf, fileVars, conn, issued, expired, raced, downs>>

StripBootstrapToken == conf' = FALSE

\* The identity is saved before anything else runs; a failing save ends the
\* pass.  The spent token is then stripped from the config.
Enrolled(c) ==
  /\ agent = c /\ call[c].at = "ok"
  /\ \/ /\ agent' = "run" /\ mem' = call[c].id /\ disk' = call[c].id /\ StripBootstrapToken
        /\ overlap' = FALSE /\ failed' = FALSE /\ UNCHANGED faults
     \/ /\ faults < MaxFault /\ faults' = faults + 1
        /\ agent' = "down" /\ UNCHANGED <<mem, disk, conf, overlap, failed>>
  /\ call' = [call EXCEPT ![c] = NoCall]
  /\ UNCHANGED <<token, known, root, signer, srv, wiz, setup, tmp, save, conn, issued, expired, raced, downs>>

(***************************************************************************)
(* The agent: the mTLS channel, renewals and the identity file.            *)
(***************************************************************************)

IssueServerCert == root

\* The cached certificate, or a fresh one of the current root.
ServerCertNow == IF srv # 0 THEN srv ELSE IssueServerCert

\* The server verifies the leaf against the root of the moment ...
ServerTrusts(id) == id.by = root /\ id.leaf > expired

\* ... and the agent the server's certificate against the root it pinned.
AgentTrusts(id, cert) == id.pin = cert

Handshake ==
  /\ agent = "run" /\ ~conn
  /\ ServerTrusts(mem) /\ AgentTrusts(mem, ServerCertNow)
  /\ conn' = TRUE /\ srv' = ServerCertNow
  /\ UNCHANGED <<token, known, root, signer, wiz, setup, call, agent, conf, mem, fileVars, issued, expired, raced, downs, faults>>

Expire ==
  /\ expired < issued /\ expired' = expired + 1
  /\ UNCHANGED <<serverVars, agent, conf, mem, fileVars, conn, issued, raced, downs, faults>>

\* A heartbeat in the last quarter of the token's life is acked with a new one.
RenewJWT == mem.jwt + 1

\* A save that has been decided on, and one that has encoded the identity: the
\* rotator holds the token's lock then.
Pending(s) == save' = [save EXCEPT ![s] = [at |-> "due", id |-> mem']]
Encoding(s) == save[s].at \notin {"idle", "due"}

SetJwtUnlocked ==
  /\ conn /\ mem.jwt < MaxJwt /\ save["uplink"] = Idle
  /\ mem' = [mem EXCEPT !.jwt = RenewJWT] /\ Pending("uplink")
  /\ UNCHANGED <<serverVars, agent, conf, disk, tmp, overlap, failed, conn, issued, expired, raced, downs, faults>>

\* A heartbeat's ack renews the token, under the lock the rotator saves under.
SetJwt ==
  /\ conn /\ mem.jwt < MaxJwt /\ save["uplink"] = Idle /\ ~Encoding("rotator")
  /\ mem' = [mem EXCEPT !.jwt = RenewJWT] /\ Pending("uplink")
  /\ UNCHANGED <<serverVars, agent, conf, disk, tmp, overlap, failed, conn, issued, expired, raced, downs, faults>>

\* A caller without a row is turned away.
JWTInterceptor == known

RefreshLeaf == IssueLeaf(root)

SwapLeaf(l) == mem' = [mem EXCEPT !.leaf = l.leaf, !.by = l.by]

\* The leaf is refreshed over the channel, swapped in and then saved.
Refresh ==
  /\ conn /\ JWTInterceptor /\ issued < MaxLeaf /\ save["rotator"] = Idle
  /\ issued' = issued + 1
  /\ SwapLeaf(RefreshLeaf) /\ Pending("rotator")
  /\ UNCHANGED <<serverVars, agent, conf, disk, tmp, overlap, failed, conn, expired, raced, downs, faults>>

\* Save encodes what the identity is now; the other writer may be at it too.
Marshal(s) ==
  /\ save[s].at = "due"
  /\ save' = [save EXCEPT ![s] = [at |-> "buffered", id |-> mem]]
  /\ overlap' = \E t \in Writer \ {s} : Encoding(t)
  /\ UNCHANGED <<serverVars, agent, conf, mem, disk, tmp, failed, conn, issued, expired, raced, downs, faults>>

\* The temporary file, which both writers use, is opened and emptied.
OpenTmp(s) ==
  /\ save[s].at = "buffered"
  /\ save' = [save EXCEPT ![s].at = "open"] /\ tmp' = TornId
  /\ UNCHANGED <<serverVars, agent, conf, mem, disk, overlap, failed, conn, issued, expired, raced, downs, faults>>

\* What a write leaves of what was there: the rest of a longer text stays.
Overlay(content, id) == IF content = TornId THEN {id} ELSE {id, TornId}

\* The open file is written.  By now its name may be the identity's ("moved") or
\* it may have none ("lost").
WriteTmp(s) ==
  /\ save[s].at \in {"open", "moved", "lost"}
  /\ save' = [save EXCEPT ![s].at = "written"]
  /\ IF save[s].at = "open" THEN tmp' \in Overlay(tmp, save[s].id) ELSE UNCHANGED tmp
  /\ IF save[s].at = "moved" THEN disk' \in Overlay(disk, save[s].id) ELSE UNCHANGED disk
  /\ UNCHANGED <<serverVars, agent, conf, mem, overlap, failed, conn, issued, expired, raced, downs, faults>>

\* The writer is done.  What the other one has open is the identity file when the
\* temporary file was renamed to it, and no file any more when it was removed.
Elsewhere(at, how) ==
  CASE how = "renamed" /\ at = "open"  -> "moved"
    [] how = "renamed" /\ at = "moved" -> "lost"
    [] how = "removed" /\ at = "open"  -> "lost"
    [] OTHER -> at
Ends(s, how) == save' = [t \in Writer |-> IF t = s THEN Idle ELSE [save[t] EXCEPT !.at = Elsewhere(@, how)]]

\* Whatever the temporary file holds becomes the identity.
Rename(s) ==
  /\ save[s].at = "written" /\ tmp # NoId
  /\ Ends(s, "renamed") /\ disk' = tmp /\ tmp' = NoId /\ failed' = FALSE
  /\ UNCHANGED <<serverVars, agent, conf, mem, overlap, conn, issued, expired, raced, downs, faults>>

\* A step of the save fails: of the last ones for sure, if the other writer has
\* moved the temporary file, which they remove.  The error is only logged.
SaveFails(s) ==
  /\ Encoding(s) /\ failed' = TRUE
  /\ \/ save[s].at = "written" /\ tmp = NoId /\ UNCHANGED faults
     \/ faults < MaxFault /\ faults' = faults + 1
  /\ \/ save[s].at = "buffered" /\ Ends(s, "kept") /\ UNCHANGED <<disk, tmp>>
     \/ save[s].at = "open" /\ Ends(s, "kept") /\ tmp' \in {tmp, TornId} /\ UNCHANGED disk
     \/ save[s].at = "moved" /\ Ends(s, "kept") /\ disk' \in {disk, TornId} /\ UNCHANGED tmp
     \/ save[s].at = "lost" /\ Ends(s, "kept") /\ UNCHANGED <<disk, tmp>>
     \/ save[s].at = "written" /\ Ends(s, "removed") /\ tmp' = NoId /\ UNCHANGED disk
  /\ UNCHANGED <<serverVars, agent, conf, mem, overlap, conn, issued, expired, raced, downs>>

AgentStops ==
  /\ agent # "down" /\ downs < MaxDown /\ downs' = downs + 1
  /\ agent' = "down" /\ mem' = NoId /\ save' = [s \in Writer |-> Idle] /\ conn' = FALSE
  /\ UNCHANGED <<serverVars, conf, disk, tmp, overlap, failed, issued, expired, raced, faults>>

EnrollHandler == \E c \in Channel : Claim(c) \/ Register(c) \/ IssueDevice(c) \/ EnrollReply(c)
SetupHandler  == \E w \in Wizard : CompleteChecks(w) \/ ReissueRoot(w) \/ OnReissued(w) \/ CompletePersists(w)
Agent == EnsureEnrolled \/ FallBack \/ (\E c \in Channel : GiveUp(c) \/ Enrolled(c))
Saving(s) == Marshal(s) \/ OpenTmp(s) \/ WriteTmp(s) \/ Rename(s) \/ SaveFails(s)
Running == Handshake \/ SetJwt \/ Refresh \/ \E s \in Writer : Saving(s)

IdNext == MintBootstrapToken \/ PruneConsumed \/ EnrollHandler \/ SetupHandler \/ ServerRestart
          \/ Agent \/ Running \/ Expire \/ AgentStops

IdSpec == IdInit /\ [][IdNext]_idVars

(***************************************************************************)
(* Properties.                                                             *)
(***************************************************************************)

\* Service.Complete's device count: an identity that does not verify against
\* the org root, on either side, is one that was registered after the wizard
\* had counted no device and before it re-issued the root; the certificate the
\* server presents always verifies.
OrphanOnlyByRace ==
  /\ \A id \in {mem, disk} \ {NoId, TornId} : (id.by # root \/ id.pin # root) => raced
  /\ AgentTrusts([pin |-> root], ServerCertNow)

\* setJWT and the rotator's persist share one file: with no save in progress and
\* the last one successful the file has the identity in use.  After saves that
\* overlapped, which the token's lock does not exclude, it may have an older leaf
\* or be torn, but it never has an older token.
FileIsCurrent ==
  agent = "run" /\ (\A s \in Writer : save[s] = Idle) /\ ~failed =>
    disk = mem \/ (overlap /\ (disk = TornId \/ disk.jwt = mem.jwt))

\* Enroll's grace window: a device that starts with a token of the server ends
\* up with an identity file, whatever reply or store failed on the way, unless
\* the token dies first.
EnrolmentEnds == (token \in {"fresh", "grace"}) ~> (disk # NoId \/ token = "dead")
=============================================================================
