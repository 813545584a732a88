---------------------------- MODULE DeviceProofs ----------------------------
(***************************************************************************)
(* Proofs about what an agent keeps and does: its identity and the file it *)
(* is in (DeviceIdentity), its executable (SelfUpdate) and its commands    *)
(* (AgentActions), for any number of wizards, updaters, commands, streams, *)
(* versions, renewals, crashes and failures.                               *)
(*                                                                         *)
(* The three share no variable.  Each part defines an inductive invariant  *)
(* (IdInv, UpdInv, ActInv), shows that every step keeps it, and reads the  *)
(* properties off it.                                                      *)
(***************************************************************************)
EXTENDS DeviceIdentity, SelfUpdate, AgentActions, TLAPS

-----------------------------------------------------------------------------
(* Identity.                                                               *)

Saves == [at : {"due", "buffered", "open", "moved", "lost", "written"}, id : Identity]

\* What stands for no identity.
Blank == {NoId, TornId}

Calls == [at : {"none", "sent", "claimed", "refused", "failed", "registered", "read"}, root : Nat]
         \cup [at : {"ok"}, id : Identity]

IdTypeOK ==
  /\ root \in Nat /\ srv \in Nat /\ issued \in Nat
  /\ known \in BOOLEAN /\ conn \in BOOLEAN /\ raced \in BOOLEAN /\ overlap \in BOOLEAN /\ failed \in BOOLEAN
  /\ wiz \in [Wizard -> {"no", "checked", "reissued", "signed", "done", "refused"}]
  /\ call \in [Channel -> Calls]
  /\ agent \in {"down", "http", "grpc", "run"}
  /\ mem \in Identity \cup {NoId} /\ {disk, tmp} \subseteq Identity \cup Blank
  /\ save \in [Writer -> {Idle} \cup Saves]
  /\ agent = "run" => mem \in Identity
  /\ agent # "run" => ~conn /\ \A s \in Writer : save[s] = Idle

\* Every identity anyone holds, on the agent or in an answer to it.
HeldIds == {mem, disk, tmp} \cup {save[s].id : s \in {t \in Writer : save[t] # Idle}}
           \cup {call[c].id : c \in {d \in Channel : call[d].at = "ok"}}

Anchored(id) == id.by = root /\ id.pin = root

\* Before the device is registered there is no identity that a new root could
\* orphan, and whoever registers while a wizard relies on that is noticed.
AnchorOK ==
  /\ srv = 0 \/ srv = root
  /\ \A w \in Wizard : wiz[w] = "checked" /\ known => raced
  /\ ~known => HeldIds \subseteq Blank /\ \A c \in Channel : call[c].at \notin {"registered", "read"}
  /\ ~raced => /\ \A id \in HeldIds \cap Identity : Anchored(id)
               /\ \A c \in Channel : call[c].at = "read" => call[c].root = root

\* What the file of a running agent may be: torn, or with the token in use.
HasToken(f) == f = TornId \/ f.jwt = mem.jwt

\* Every save that has encoded the identity carries the token in use, and so does
\* the temporary file from its opening on; one that runs alone carries the leaf
\* too, unless another is due after it.
FileOK ==
  agent = "run" =>
    /\ \A s \in Writer : Encoding(s) => save[s].id.jwt = mem.jwt
    /\ (\E s \in Writer : Encoding(s) /\ save[s].at # "buffered") => tmp = NoId \/ HasToken(tmp)
    /\ (\A s \in Writer : save[s] = Idle) /\ ~failed => HasToken(disk)
    /\ ~overlap => /\ \A s, t \in Writer : Encoding(s) /\ Encoding(t) => s = t
                   /\ \A s \in Writer : Encoding(s) /\ (\A t \in Writer : save[t].at # "due") => save[s].id = mem
                   /\ \A s \in Writer : save[s].at = "open" => tmp = TornId
                   /\ \A s \in Writer : save[s].at = "written" /\ tmp # NoId => tmp = save[s].id
                   /\ \A s \in Writer : save[s].at \notin {"moved", "lost"}
                   /\ (\A s \in Writer : save[s] = Idle) /\ ~failed => disk = mem

IdInv == IdTypeOK /\ AnchorOK /\ FileOK

LEMMA IdInitInv == IdInit => IdInv
<1>. SUFFICES ASSUME IdInit PROVE IdInv
  OBVIOUS
<1>1. /\ known = FALSE /\ conn = FALSE /\ raced = FALSE /\ overlap = FALSE /\ failed = FALSE /\ root = 1 /\ srv = 0 /\ issued = 0
      /\ wiz = [w \in Wizard |-> "no"] /\ call = [c \in Channel |-> NoCall] /\ agent = "down"
      /\ mem = NoId /\ disk = NoId /\ tmp = NoId /\ save = [s \in Writer |-> Idle]
  BY DEF IdInit
<1>2. NoCall \in Calls /\ NoCall.at = "none"
  BY DEF NoCall, Calls
<1>3. IdTypeOK
  BY <1>1, <1>2 DEF IdTypeOK, Blank
<1>4. HeldIds = {NoId}
  BY <1>1, <1>2 DEF HeldIds
<1>5. AnchorOK
  BY <1>1, <1>2, <1>4, IdentityAssumption DEF AnchorOK, Blank
<1>6. FileOK
  BY <1>1 DEF FileOK
<1>. QED BY <1>3, <1>5, <1>6 DEF IdInv

LEMMA HeldId ==
  \A id : id \in HeldIds <=> \/ id \in {mem, disk, tmp}
                             \/ \E s \in Writer : save[s] # Idle /\ save[s].id = id
                             \/ \E c \in Channel : call[c].at = "ok" /\ call[c].id = id
BY DEF HeldIds

\* Steps that leave the root and the register of devices alone: what they add
\* is of the root.
LEMMA AnchorKept ==
  ASSUME AnchorOK, root' = root, known' = known, raced' = raced,
         srv' = 0 \/ srv' = srv \/ srv' = root,
         \A w \in Wizard : wiz'[w] = "checked" => wiz[w] = "checked" \/ ~known,
         \A id \in HeldIds' : id \in HeldIds \cup Blank \/ (known /\ (~raced => Anchored(id))),
         \A c \in Channel : \/ call'[c].at \notin {"registered", "read"}
                            \/ call'[c] = call[c]
                            \/ known /\ (call'[c].at = "read" => call'[c].root = root)
  PROVE  AnchorOK'
<1>1. \A w \in Wizard : wiz'[w] = "checked" /\ known' => raced'
  BY DEF AnchorOK
<1>2. ~known => HeldIds' \subseteq Blank /\ \A c \in Channel : call'[c].at \notin {"registered", "read"}
  BY DEF AnchorOK
<1>3. ASSUME ~raced PROVE /\ \A id \in HeldIds' \cap Identity : Anchored(id)'
                          /\ \A c \in Channel : call'[c].at = "read" => call'[c].root = root'
  <2>1. \A id : Anchored(id)' <=> Anchored(id)
    BY DEF Anchored
  <2>2. \A id \in HeldIds' \cap Identity : Anchored(id)
    BY IdentityAssumption, <1>3 DEF AnchorOK, Blank
  <2>3. \A c \in Channel : call'[c].at = "read" => call'[c].root = root'
    BY <1>3 DEF AnchorOK
  <2>. QED BY <2>1, <2>2, <2>3
<1>. QED BY <1>1, <1>2, <1>3 DEF AnchorOK

\* Steps that hand identities on at most.
LEMMA HeldKept ==
  ASSUME {mem', disk', tmp'} \subseteq HeldIds \cup Blank,
         \A s \in Writer : save'[s] # Idle => save'[s].id \in HeldIds,
         \A c \in Channel : call'[c].at = "ok" => call'[c].id \in HeldIds
  PROVE  \A id \in HeldIds' : id \in HeldIds \cup Blank
<1>1. \A id \in HeldIds' : \/ id \in {mem', disk', tmp'}
                           \/ \E s \in Writer : save'[s] # Idle /\ save'[s].id = id
                           \/ \E c \in Channel : call'[c].at = "ok" /\ call'[c].id = id
  BY DEF HeldIds
<1>. QED BY <1>1

\* --- The type of every variable is kept.
LEMMA CallTypes ==
  /\ \A a \in {"none", "sent", "claimed", "refused", "failed", "registered", "read"} :
       \A r \in Nat : [at |-> a, root |-> r] \in Calls /\ [at |-> a, root |-> r].at = a
  /\ \A id \in Identity : [at |-> "ok", id |-> id] \in Calls /\ [at |-> "ok", id |-> id].at = "ok"
  /\ NoCall \in Calls /\ NoCall.at = "none"
BY DEF Calls, NoCall

LEMMA ReAt ==
  ASSUME NEW k \in Calls, k.at # "ok",
         NEW a \in {"none", "sent", "claimed", "refused", "failed", "registered", "read"}
  PROVE  [k EXCEPT !.at = a] \in Calls /\ [k EXCEPT !.at = a].at = a
BY DEF Calls

\* What the server does with a call.
LEMMA EnrollType ==
  ASSUME IdTypeOK, EnrollHandler
  PROVE  /\ call' \in [Channel -> Calls] /\ issued' \in Nat /\ known' \in BOOLEAN /\ raced' \in BOOLEAN
         /\ UNCHANGED <<root, srv, signer, wiz, setup, agent, conf, mem, fileVars, conn, expired, downs>>
<1>. USE DEF IdTypeOK
<1>1. PICK c \in Channel : Claim(c) \/ Register(c) \/ IssueDevice(c) \/ EnrollReply(c)
  BY DEF EnrollHandler
<1>2. CASE Claim(c)
  <2>1. call[c].at # "ok" /\ call[c] \in Calls
    BY <1>2 DEF Claim
  <2>2. PICK a \in {"claimed", "refused"} : call' = [call EXCEPT ![c] = [call[c] EXCEPT !.at = a]]
    BY <1>2 DEF Claim
  <2>4. [call[c] EXCEPT !.at = a] \in Calls
    BY <2>1, ReAt
  <2>5. call' \in [Channel -> Calls]
    BY <2>2, <2>4
  <2>. QED BY <1>2, <2>5 DEF Claim
<1>3. CASE Register(c)
  <2>1. call[c].at # "ok" /\ call[c] \in Calls
    BY <1>3 DEF Register
  <2>2. PICK a \in {"registered", "failed"} : call' = [call EXCEPT ![c] = [call[c] EXCEPT !.at = a]]
    BY <1>3 DEF Register
  <2>4. [call[c] EXCEPT !.at = a] \in Calls
    BY <2>1, ReAt
  <2>5. call' \in [Channel -> Calls]
    BY <2>2, <2>4
  <2>3. known' \in BOOLEAN /\ raced' \in BOOLEAN
    BY <1>3 DEF Register
  <2>. QED BY <1>3, <2>5, <2>3 DEF Register
<1>4. CASE IssueDevice(c)
  BY <1>4, CallTypes DEF IssueDevice
<1>5. CASE EnrollReply(c)
  <2>1. call[c].at = "read" /\ issued' = issued + 1
    BY <1>5 DEF EnrollReply
  <2>2. call[c].root \in Nat
    <3>1. call[c] \in Calls
      OBVIOUS
    <3>. QED BY <2>1, <3>1 DEF Calls
  <2>3. \/ \E id \in Identity : call' = [call EXCEPT ![c] = [at |-> "ok", id |-> id]]
        \/ call' = [call EXCEPT ![c] = [at |-> "failed", root |-> 0]]
    <3>1. [jwt |-> 0, leaf |-> issued + 1, by |-> call[c].root, pin |-> root] \in Identity
      BY <2>2 DEF Identity
    <3>. QED BY <1>5, <3>1 DEF EnrollReply, IssueLeaf, MintJWT
  <2>4. call' \in [Channel -> Calls]
    BY <2>3, CallTypes
  <2>. QED BY <1>5, <2>1, <2>4 DEF EnrollReply
<1>. QED BY <1>1, <1>2, <1>3, <1>4, <1>5

LEMMA SetupType ==
  ASSUME IdTypeOK, SetupHandler
  PROVE  /\ root' \in Nat /\ srv' \in Nat
         /\ wiz' \in [Wizard -> {"no", "checked", "reissued", "signed", "done", "refused"}]
         /\ UNCHANGED <<known, raced, call, agent, mem, fileVars, conn, issued>>
<1>. USE DEF IdTypeOK
<1>1. PICK w \in Wizard : CompleteChecks(w) \/ ReissueRoot(w) \/ OnReissued(w) \/ CompletePersists(w)
  BY DEF SetupHandler
<1>2. CASE CompleteChecks(w)
  BY <1>2 DEF CompleteChecks, fileVars
<1>3. CASE ReissueRoot(w)
  BY <1>3 DEF ReissueRoot, ReplaceRoot, GenerateRootNamed, fileVars
<1>4. CASE OnReissued(w)
  BY <1>4 DEF OnReissued, fileVars
<1>5. CASE CompletePersists(w)
  BY <1>5 DEF CompletePersists, MarkDone, fileVars
<1>. QED BY <1>1, <1>2, <1>3, <1>4, <1>5

LEMMA AgentType ==
  ASSUME IdTypeOK, Agent
  PROVE  /\ call' \in [Channel -> Calls] /\ agent' \in {"down", "http", "grpc", "run"}
         /\ mem' \in Identity \cup {NoId} /\ disk' \in Identity \cup Blank
         /\ overlap' \in BOOLEAN /\ failed' \in BOOLEAN /\ (agent' = "run" => mem' \in Identity)
         /\ agent # "run" /\ ~conn /\ (\A s \in Writer : save[s] = Idle)
         /\ UNCHANGED <<root, srv, known, raced, wiz, tmp, save, conn, issued>>
<1>. USE DEF IdTypeOK, Blank
<1>1. CASE EnsureEnrolled
  <2>1. call' \in [Channel -> Calls]
    BY <1>1, CallTypes DEF EnsureEnrolled, Post
  <2>. QED BY <1>1, <2>1 DEF EnsureEnrolled, Load, fileVars
<1>2. CASE FallBack
  <2>1. call' \in [Channel -> Calls]
    BY <1>2, CallTypes DEF FallBack, Post
  <2>. QED BY <1>2, <2>1 DEF FallBack, fileVars
<1>3. ASSUME NEW c \in Channel, GiveUp(c) PROVE agent = c /\ UNCHANGED call
  BY <1>3 DEF GiveUp, serverVars
<1>4. CASE \E c \in Channel : GiveUp(c)
  BY <1>4 DEF GiveUp, fileVars, serverVars, Channel
<1>5. ASSUME NEW c \in Channel, Enrolled(c) PROVE /\ call' \in [Channel -> Calls] /\ call[c].id \in Identity
  <2>1. call[c] \in Calls /\ call[c].at = "ok"
    BY <1>5 DEF Enrolled
  <2>2. call[c].id \in Identity
    BY <2>1 DEF Calls
  <2>. QED BY <1>5, <2>2, CallTypes DEF Enrolled
<1>6. CASE \E c \in Channel : Enrolled(c)
  <2>1. PICK c \in Channel : Enrolled(c)
    BY <1>6
  <2>. QED BY <2>1, <1>5 DEF Enrolled, Channel
<1>. QED BY <1>1, <1>2, <1>4, <1>6 DEF Agent

\* The leaf, the token and the saves of a running agent.
LEMMA Buffered ==
  ASSUME NEW id \in Identity PROVE [at |-> "buffered", id |-> id] \in Saves /\ [at |-> "due", id |-> id] \in Saves
BY DEF Saves

\* What the end of a save makes of the others.
LEMMA EndsType ==
  ASSUME NEW s \in Writer, NEW how, save \in [Writer -> {Idle} \cup Saves], Ends(s, how)
  PROVE  /\ save' \in [Writer -> {Idle} \cup Saves] /\ save'[s] = Idle
         /\ \A t \in Writer \ {s} :
              /\ save[t] = Idle => save'[t] = Idle
              /\ save[t] # Idle => save'[t] # Idle /\ save'[t].id = save[t].id
              /\ (save'[t].at = save[t].at) \/ (Encoding(t) /\ save'[t].at \in {"moved", "lost"})
              /\ how = "kept" => save'[t] = save[t]
<1>1. ASSUME NEW t \in Writer \ {s}, save[t] = Idle PROVE save'[t] = Idle
  BY <1>1 DEF Ends, Elsewhere, Idle
<1>2. ASSUME NEW t \in Writer \ {s}, save[t] # Idle
      PROVE  /\ save'[t] \in Saves /\ save'[t].id = save[t].id /\ save'[t].at = Elsewhere(save[t].at, how)
             /\ how = "kept" => save'[t] = save[t]
  <2>1. save[t] \in Saves /\ save'[t] = [save[t] EXCEPT !.at = Elsewhere(save[t].at, how)]
    BY <1>2 DEF Ends
  <2>2. Elsewhere(save[t].at, how) \in {"due", "buffered", "open", "moved", "lost", "written"}
    BY <2>1 DEF Elsewhere, Saves
  <2>3. how = "kept" => Elsewhere(save[t].at, how) = save[t].at
    BY DEF Elsewhere
  <2>. QED BY <2>1, <2>2, <2>3 DEF Saves
<1>3. save'[s] = Idle /\ DOMAIN save' = Writer /\ save' = [t \in Writer |-> save'[t]]
  BY DEF Ends
<1>4. \A r \in Saves : r # Idle
  BY DEF Saves, Idle
<1>5. \A t \in Writer \ {s} : save[t] # Idle =>
        (save'[t].at = save[t].at) \/ (Encoding(t) /\ save'[t].at \in {"moved", "lost"})
  BY <1>2 DEF Elsewhere, Encoding
<1>. QED BY <1>1, <1>2, <1>3, <1>4, <1>5

LEMMA SavingType ==
  ASSUME IdTypeOK, NEW s \in Writer, Saving(s)
  PROVE  /\ agent = "run" /\ mem \in Identity
         /\ save[s] \in Saves /\ save[s] # Idle
         /\ overlap' \in BOOLEAN /\ failed' \in BOOLEAN
         /\ {disk', tmp'} \subseteq Identity \cup Blank /\ save' \in [Writer -> {Idle} \cup Saves]
         /\ UNCHANGED <<serverVars, agent, mem, conn, issued, raced>>
<1>. USE DEF IdTypeOK, Blank
<1>1. save[s].at # "idle" /\ UNCHANGED <<serverVars, agent, mem, conn, issued, raced>>
  BY DEF Saving, Marshal, OpenTmp, WriteTmp, Rename, SaveFails, Encoding
<1>2. save[s] # Idle /\ save[s] \in Saves /\ agent = "run"
  BY <1>1 DEF Idle
<1>3. save[s].id \in Identity
  BY <1>2 DEF Saves
<1>4. CASE Marshal(s)
  BY <1>1, <1>2, <1>4, Buffered DEF Marshal
<1>5. CASE OpenTmp(s)
  <2>1. [save[s] EXCEPT !.at = "open"] \in Saves
    BY <1>2 DEF Saves
  <2>. QED BY <1>1, <1>2, <1>5, <2>1 DEF OpenTmp
<1>6. CASE WriteTmp(s)
  <2>1. [save[s] EXCEPT !.at = "written"] \in Saves
    BY <1>2 DEF Saves
  <2>2. \A f : Overlay(f, save[s].id) \subseteq Identity \cup Blank
    BY <1>3 DEF Overlay
  <2>. QED BY <1>1, <1>2, <1>6, <2>1, <2>2 DEF WriteTmp
<1>7. CASE Rename(s)
  BY <1>1, <1>2, <1>7, EndsType DEF Rename
<1>8. CASE SaveFails(s)
  BY <1>1, <1>2, <1>8, EndsType DEF SaveFails
<1>. QED BY <1>4, <1>5, <1>6, <1>7, <1>8 DEF Saving

LEMMA RunningType ==
  ASSUME IdTypeOK, Running
  PROVE  /\ agent = "run" /\ mem \in Identity /\ mem' \in Identity
         /\ srv' \in Nat /\ issued' \in Nat /\ conn' \in BOOLEAN /\ overlap' \in BOOLEAN /\ failed' \in BOOLEAN
         /\ {disk', tmp'} \subseteq Identity \cup Blank /\ save' \in [Writer -> {Idle} \cup Saves]
         /\ UNCHANGED <<root, known, raced, wiz, call, agent>>
<1>. USE DEF IdTypeOK, Blank
<1>1. CASE Handshake
  BY <1>1 DEF Handshake, ServerCertNow, IssueServerCert, fileVars
<1>2. CASE SetJwt
  <2>1. mem' \in Identity
    BY <1>2 DEF SetJwt, RenewJWT, Identity
  <2>2. save' = [save EXCEPT !["uplink"] = [at |-> "due", id |-> mem']] /\ overlap' \in BOOLEAN
    BY <1>2 DEF SetJwt, Pending
  <2>3. save' \in [Writer -> {Idle} \cup Saves]
    BY <2>1, <2>2, Buffered
  <2>. QED BY <1>2, <2>1, <2>2, <2>3 DEF SetJwt, serverVars
<1>3. CASE Refresh
  <2>1. mem' \in Identity
    <3>1. mem \in Identity
      BY <1>3 DEF Refresh
    <3>2. mem' = [mem EXCEPT !.leaf = issued + 1, !.by = root]
      BY <1>3 DEF Refresh, SwapLeaf, RefreshLeaf, IssueLeaf
    <3>3. issued + 1 \in Nat /\ root \in Nat
      OBVIOUS
    <3>. QED BY <3>1, <3>2, <3>3 DEF Identity
  <2>2. save' = [save EXCEPT !["rotator"] = [at |-> "due", id |-> mem']] /\ overlap' \in BOOLEAN
    BY <1>3 DEF Refresh, Pending
  <2>3. save' \in [Writer -> {Idle} \cup Saves]
    BY <2>1, <2>2, Buffered
  <2>. QED BY <1>3, <2>1, <2>2, <2>3 DEF Refresh, serverVars
<1>4. CASE \E s \in Writer : Saving(s)
  <2>. PICK s \in Writer : Saving(s)
    BY <1>4
  <2>. QED BY SavingType DEF serverVars
<1>. QED BY <1>1, <1>2, <1>3, <1>4 DEF Running

LEMMA IdTypeStep == IdTypeOK /\ [IdNext]_idVars => IdTypeOK'
<1>. SUFFICES ASSUME IdTypeOK, [IdNext]_idVars PROVE IdTypeOK'
  OBVIOUS
<1>1. CASE EnrollHandler
  BY <1>1, EnrollType DEF IdTypeOK, fileVars
<1>2. CASE SetupHandler
  BY <1>2, SetupType DEF IdTypeOK, fileVars
<1>3. CASE Agent
  BY <1>3, AgentType DEF IdTypeOK, Blank
<1>4. CASE Running
  BY <1>4, RunningType DEF IdTypeOK
<1>5. CASE MintBootstrapToken \/ PruneConsumed \/ Expire \/ UNCHANGED idVars
  BY <1>5 DEF IdTypeOK, MintBootstrapToken, PruneConsumed, Expire, idVars, serverVars, fileVars
<1>6. CASE ServerRestart
  <2>1. call' \in [Channel -> Calls]
    BY <1>6, CallTypes DEF ServerRestart
  <2>2. wiz' \in [Wizard -> {"no", "checked", "reissued", "signed", "done", "refused"}]
    BY <1>6 DEF ServerRestart, IdTypeOK
  <2>. QED BY <1>6, <2>1, <2>2 DEF ServerRestart, NewManager, IdTypeOK, fileVars
<1>7. CASE AgentStops
  BY <1>7 DEF AgentStops, IdTypeOK, serverVars
<1>. QED BY <1>1, <1>2, <1>3, <1>4, <1>5, <1>6, <1>7 DEF IdNext

\* --- An identity is orphaned by the race only.
LEMMA EnrollAnchor ==
  ASSUME IdTypeOK, AnchorOK, EnrollHandler PROVE AnchorOK'
<1>1. PICK c \in Channel : Claim(c) \/ Register(c) \/ IssueDevice(c) \/ EnrollReply(c)
  BY DEF EnrollHandler
<1>2. call \in [Channel -> Calls]
  BY DEF IdTypeOK
<1>3. mem \in HeldIds /\ disk \in HeldIds /\ tmp \in HeldIds
  BY DEF HeldIds
<1>4. CASE Claim(c)
  <2>1. call'[c].at # "ok" /\ call'[c].at \notin {"registered", "read"} /\ \A d \in Channel \ {c} : call'[d] = call[d]
    BY <1>4, <1>2, CallTypes DEF Claim, Calls
  <2>2. \A id \in HeldIds' : id \in HeldIds
    BY <1>4, <2>1, <1>3 DEF Claim, HeldIds, fileVars
  <2>. QED BY <1>4, <2>1, <2>2, AnchorKept DEF Claim
<1>5. CASE Register(c)
  <2>1. call'[c].at \in {"registered", "failed"} /\ \A d \in Channel \ {c} : call'[d] = call[d]
    BY <1>5, <1>2 DEF Register, Calls
  <2>2. HeldIds' \subseteq HeldIds
    BY <1>5, <2>1, <1>3 DEF Register, HeldIds, fileVars
  <2>3. UNCHANGED <<root, srv, wiz>> /\ (~raced' => ~raced)
    BY <1>5 DEF Register, IdTypeOK
  <2>4. CASE known' = TRUE /\ raced' = (raced \/ \E w \in Wizard : wiz[w] = "checked")
    <3>1. ~raced => \A id \in HeldIds \cap Identity : Anchored(id)
      BY DEF AnchorOK
    <3>2. \A id : Anchored(id)' <=> Anchored(id)
      BY <2>3 DEF Anchored
    <3>. QED BY <2>1, <2>2, <2>3, <2>4, <3>1, <3>2 DEF AnchorOK
  <2>5. CASE call'[c].at = "failed" /\ UNCHANGED <<known, raced>>
    BY <2>1, <2>2, <2>3, <2>5, AnchorKept
  <2>. QED BY <1>5, <2>4, <2>5, <1>2 DEF Register, Calls
<1>6. CASE IssueDevice(c)
  <2>1. call'[c].at = "read" /\ call'[c].root = root /\ \A d \in Channel \ {c} : call'[d] = call[d]
    BY <1>6, <1>2 DEF IssueDevice
  <2>2. known
    BY <1>6 DEF IssueDevice, AnchorOK
  <2>3. \A id \in HeldIds' : id \in HeldIds
    BY <1>6, <2>1, <1>3 DEF IssueDevice, HeldIds, fileVars
  <2>. QED BY <1>6, <2>1, <2>2, <2>3, AnchorKept DEF IssueDevice
<1>7. CASE EnrollReply(c)
  <2>1. known /\ (~raced => call[c].root = root)
    BY <1>7 DEF EnrollReply, AnchorOK
  <2> DEFINE id == [jwt |-> MintJWT, leaf |-> issued + 1, by |-> call[c].root, pin |-> root]
  <2>2. /\ \A d \in Channel \ {c} : call'[d] = call[d]
        /\ call'[c] = [at |-> "ok", id |-> id] \/ call'[c] = [at |-> "failed", root |-> 0]
    BY <1>7, <1>2 DEF EnrollReply, IssueLeaf
  <2>3. ~raced => Anchored(id)
    BY <2>1 DEF Anchored
  <2>4. \A x \in HeldIds' : x \in HeldIds \/ x = id
    <3>. HIDE DEF id
    <3>1. call'[c].at = "ok" => call'[c].id = id
      BY <2>2
    <3>. QED BY <1>7, <2>2, <1>3, <3>1 DEF EnrollReply, HeldIds, fileVars
  <2>5. call'[c].at \notin {"registered", "read"}
    BY <2>2
  <2>. QED
    <3>. HIDE DEF id
    <3>. QED BY <1>7, <2>1, <2>2, <2>3, <2>4, <2>5, AnchorKept DEF EnrollReply
<1>. QED BY <1>1, <1>4, <1>5, <1>6, <1>7

LEMMA SetupAnchor ==
  ASSUME IdTypeOK, AnchorOK, SetupHandler PROVE AnchorOK'
<1>1. PICK w \in Wizard : CompleteChecks(w) \/ ReissueRoot(w) \/ OnReissued(w) \/ CompletePersists(w)
  BY DEF SetupHandler
<1>2. wiz \in [Wizard -> {"no", "checked", "reissued", "signed", "done", "refused"}]
  BY DEF IdTypeOK
<1>3. HeldIds' = HeldIds /\ UNCHANGED <<known, raced, call>>
  BY SetupType DEF HeldIds, fileVars
<1>4. CASE CompleteChecks(w)
  BY <1>4, <1>3, <1>2, AnchorKept DEF CompleteChecks, NoDeviceYet
<1>5. CASE ReissueRoot(w)
  <2>1. CASE root' = root
    BY <1>5, <2>1, <1>3, <1>2, AnchorKept DEF ReissueRoot
  <2>2. CASE root' # root
    <3>1. srv' = 0 /\ wiz[w] = "checked" /\ wiz' = [wiz EXCEPT ![w] = "reissued"]
      BY <1>5, <2>2 DEF ReissueRoot
    <3>2. raced \/ ~known
      BY <3>1 DEF AnchorOK
    <3>3. \A v \in Wizard : wiz'[v] = "checked" => wiz[v] = "checked"
      BY <3>1, <1>2
    <3>4. ~known => HeldIds \cap Identity = {}
      BY IdentityAssumption DEF AnchorOK, Blank
    <3>. QED BY <1>3, <3>1, <3>2, <3>3, <3>4 DEF AnchorOK
  <2>. QED BY <2>1, <2>2
<1>6. CASE OnReissued(w)
  BY <1>6, <1>3, <1>2, AnchorKept DEF OnReissued
<1>7. CASE CompletePersists(w)
  BY <1>7, <1>3, <1>2, AnchorKept DEF CompletePersists, MarkDone
<1>. QED BY <1>1, <1>4, <1>5, <1>6, <1>7

LEMMA AgentAnchor ==
  ASSUME IdTypeOK, AnchorOK, Agent PROVE AnchorOK'
<1>1. UNCHANGED <<root, srv, known, raced, wiz, tmp, save>> /\ tmp \in HeldIds /\ (\A s \in Writer : save[s] = Idle)
  BY AgentType DEF HeldIds
<1>2. {mem, disk} \subseteq HeldIds /\ \A c \in Channel : call[c].at = "ok" => call[c].id \in HeldIds
  BY HeldId
<1>3. call \in [Channel -> Calls]
  BY DEF IdTypeOK
<1>4. {mem', disk'} \subseteq HeldIds \cup Blank
  BY <1>2 DEF Blank, Agent, EnsureEnrolled, FallBack, GiveUp, Enrolled, Load, fileVars
<1>5. \A d \in Channel : call'[d] = call[d] \/ call'[d].at \in {"none", "sent"}
  <2>1. ASSUME NEW c \in Channel, Post(c) PROVE \A d \in Channel : call'[d] = call[d] \/ call'[d].at \in {"none", "sent"}
    BY <2>1 DEF Post
  <2>2. ASSUME NEW c \in Channel, Enrolled(c) PROVE \A d \in Channel : call'[d] = call[d] \/ call'[d].at \in {"none", "sent"}
    BY <2>2, <1>3, CallTypes DEF Enrolled
  <2>. QED BY <2>1, <2>2 DEF Agent, EnsureEnrolled, FallBack, GiveUp, Channel, serverVars
<1>6. \A id \in HeldIds' : id \in HeldIds \cup Blank
  BY <1>1, <1>2, <1>4, <1>5, HeldKept
<1>. QED BY <1>1, <1>5, <1>6, AnchorKept

LEMMA RunningAnchor ==
  ASSUME IdTypeOK, AnchorOK, Running PROVE AnchorOK'
<1>1. UNCHANGED <<root, known, raced, wiz, call>> /\ mem \in Identity /\ mem \in HeldIds
  BY RunningType DEF HeldIds
<1>2. /\ {disk, tmp} \subseteq HeldIds /\ (\A c \in Channel : call[c].at = "ok" => call[c].id \in HeldIds)
      /\ \A s \in Writer : save[s] # Idle => save[s].id \in HeldIds
  BY HeldId
<1>3. known /\ (~raced => Anchored(mem))
  BY <1>1, IdentityAssumption DEF AnchorOK, Blank
<1>4. srv' = srv \/ srv' = root
  BY SavingType DEF Running, Handshake, SetJwt, Refresh, ServerCertNow, IssueServerCert, serverVars
<1>5. save \in [Writer -> {Idle} \cup Saves]
  BY DEF IdTypeOK
<1>6. ASSUME Anchored(mem) => Anchored(mem'), UNCHANGED <<disk, tmp>>,
             \A s \in Writer : save'[s] = save[s] \/ save'[s].id = mem'
      PROVE  AnchorOK'
  <2>1. \A id \in HeldIds' : id \in HeldIds \/ id = mem'
    BY <1>1, <1>2, <1>6 DEF HeldIds
  <2>. QED BY <2>1, <1>1, <1>3, <1>4, <1>6, AnchorKept
<1>7. CASE Handshake
  BY <1>7, <1>6 DEF Handshake, fileVars
<1>8. CASE SetJwt
  <2>1. Anchored(mem) => Anchored(mem')
    BY <1>8, <1>1 DEF SetJwt, Anchored, Identity
  <2>2. \A s \in Writer : save'[s] = save[s] \/ save'[s].id = mem'
    BY <1>8, <1>5 DEF SetJwt, Pending
  <2>. QED BY <2>1, <2>2, <1>6, <1>8 DEF SetJwt
<1>9. CASE Refresh
  <2>1. mem' = [mem EXCEPT !.leaf = issued + 1, !.by = root]
    BY <1>9 DEF Refresh, SwapLeaf, RefreshLeaf, IssueLeaf
  <2>2. mem'.by = root /\ mem'.pin = mem.pin
    BY <2>1, <1>1 DEF Identity
  <2>3. \A s \in Writer : save'[s] = save[s] \/ save'[s].id = mem'
    BY <1>9, <1>5 DEF Refresh, Pending
  <2>. QED BY <2>2, <2>3, <1>6, <1>9 DEF Refresh, Anchored
<1>10. CASE \E s \in Writer : Saving(s)
  <2>1. PICK s \in Writer : Saving(s)
    BY <1>10
  <2>2. save[s] # Idle /\ save[s].id \in HeldIds /\ mem' = mem
    BY <2>1, <1>2, SavingType
  <2>3. \A t \in Writer : save'[t] # Idle => save'[t].id \in HeldIds
    <3>1. CASE Marshal(s)
      BY <3>1, <1>1, <1>2, <1>5 DEF Marshal
    <3>2. CASE OpenTmp(s) \/ WriteTmp(s)
      <4>1. \A pt : [save[s] EXCEPT !.at = pt].id = save[s].id
        BY <2>1, SavingType DEF Saves
      <4>2. \E pt : save' = [save EXCEPT ![s] = [save[s] EXCEPT !.at = pt]]
        BY <3>2 DEF OpenTmp, WriteTmp
      <4>. QED BY <4>1, <4>2, <1>2, <1>5, <2>2
    <3>3. CASE \E how : Ends(s, how)
      <4>1. PICK how : Ends(s, how)
        BY <3>3
      <4>2. /\ save'[s] = Idle
            /\ \A t \in Writer \ {s} : save'[t] # Idle => save[t] # Idle /\ save'[t].id = save[t].id
        BY <4>1, <1>5, EndsType
      <4>. QED BY <4>2, <1>2
    <3>. QED BY <2>1, <3>1, <3>2, <3>3 DEF Saving, Rename, SaveFails
  <2>4. {mem', disk', tmp'} \subseteq HeldIds \cup Blank
    BY <2>1, <2>2, <1>1, <1>2 DEF Saving, Marshal, OpenTmp, WriteTmp, Rename, SaveFails, Overlay, Blank
  <2>5. \A id \in HeldIds' : id \in HeldIds \cup Blank
    BY <2>3, <2>4, <1>1, <1>2, HeldKept
  <2>. QED BY <2>5, <1>1, <1>4, AnchorKept
<1>. QED BY <1>7, <1>8, <1>9, <1>10 DEF Running

LEMMA AnchorStep == IdTypeOK /\ AnchorOK /\ [IdNext]_idVars => AnchorOK'
<1>. SUFFICES ASSUME IdTypeOK, AnchorOK, [IdNext]_idVars PROVE AnchorOK'
  OBVIOUS
<1>1. CASE UNCHANGED <<root, known, raced, wiz, srv, call, mem, disk, tmp, save>>
  <2>1. HeldIds' = HeldIds
    BY <1>1 DEF HeldIds
  <2>. QED BY <1>1, <2>1, AnchorKept
<1>2. CASE MintBootstrapToken \/ PruneConsumed \/ Expire \/ UNCHANGED idVars
  BY <1>1, <1>2 DEF MintBootstrapToken, PruneConsumed, Expire, idVars, serverVars, fileVars
<1>3. {mem, disk, tmp} \subseteq HeldIds /\ (\A c \in Channel : call[c].at = "ok" => call[c].id \in HeldIds)
      /\ \A s \in Writer : save[s] # Idle => save[s].id \in HeldIds
  BY HeldId
<1>4. CASE ServerRestart
  <2>1. UNCHANGED <<root, known, raced, mem, disk, tmp, save>> /\ srv' = 0
    BY <1>4 DEF ServerRestart, NewManager, fileVars
  <2>2. \A c \in Channel : call'[c].at \in {"none", "failed"}
    BY <1>4, CallTypes DEF ServerRestart
  <2>3. \A w \in Wizard : wiz'[w] = "checked" => wiz[w] = "checked"
    BY <1>4 DEF ServerRestart
  <2>4. \A id \in HeldIds' : id \in HeldIds \cup Blank
    BY <2>1, <2>2, <1>3, HeldKept
  <2>. QED BY <2>1, <2>2, <2>3, <2>4, AnchorKept
<1>5. CASE AgentStops
  <2>1. UNCHANGED <<root, known, raced, srv, wiz, call, disk, tmp>> /\ mem' = NoId /\ \A s \in Writer : save'[s] = Idle
    BY <1>5 DEF AgentStops, serverVars
  <2>2. \A id \in HeldIds' : id \in HeldIds \cup Blank
    BY <2>1, <1>3, HeldKept DEF Blank
  <2>. QED BY <2>1, <2>2, AnchorKept
<1>. QED BY <1>2, <1>4, <1>5, EnrollAnchor, SetupAnchor, AgentAnchor, RunningAnchor DEF IdNext

\* --- The file has what is in use.
LEMMA SavesAre ==
  /\ Idle.at = "idle" /\ \A r \in Saves : r # Idle /\ r.at # "idle" /\ r.id \in Identity
  /\ \A r \in Saves, pt \in {"open", "written"} :
       [r EXCEPT !.at = pt] \in Saves /\ [r EXCEPT !.at = pt].at = pt /\ [r EXCEPT !.at = pt].id = r.id
  /\ \A id \in Identity : id # NoId /\ id # TornId
  /\ NoId # TornId
BY IdentityAssumption DEF Idle, Saves

\* The steps of a save.
LEMMA FileMarshal ==
  ASSUME IdTypeOK, FileOK, agent = "run", NEW s \in Writer, Marshal(s) PROVE FileOK'
<1>1. /\ save \in [Writer -> {Idle} \cup Saves] /\ save[s].at = "due" /\ mem \in Identity
      /\ save' = [save EXCEPT ![s] = [at |-> "buffered", id |-> mem]]
      /\ overlap' = \E t \in Writer \ {s} : Encoding(t)
      /\ UNCHANGED <<agent, mem, disk, tmp, failed>>
  BY DEF Marshal, IdTypeOK
<1>2. /\ save'[s].at = "buffered" /\ save'[s].id = mem /\ save'[s] # Idle
      /\ \A t \in Writer \ {s} : save'[t] = save[t]
  BY <1>1, SavesAre DEF Idle
<1>3. \A t \in Writer \ {s} : Encoding(t)' <=> Encoding(t)
  BY <1>2 DEF Encoding
<1>4. ~overlap' => \A t \in Writer \ {s} : ~Encoding(t)
  BY <1>1
<1>5. \A t \in Writer : save[t].at \in {"open", "moved", "lost", "written"} => Encoding(t)
  BY DEF Encoding
<1>6. \A t \in Writer : Encoding(t)' => save'[t].id.jwt = mem'.jwt
  BY <1>1, <1>2, <1>3 DEF FileOK
<1>7. (\E t \in Writer : Encoding(t)' /\ save'[t].at # "buffered") => tmp' = NoId \/ HasToken(tmp)'
  BY <1>1, <1>2, <1>3 DEF FileOK, HasToken
<1>8. ~overlap' =>
        /\ \A t, u \in Writer : Encoding(t)' /\ Encoding(u)' => t = u
        /\ \A t \in Writer : Encoding(t)' => save'[t].id = mem'
        /\ \A t \in Writer : save'[t].at \notin {"open", "moved", "lost", "written"}
  BY <1>1, <1>2, <1>3, <1>4, <1>5
<1>. QED BY <1>2, <1>6, <1>7, <1>8 DEF FileOK

LEMMA FileOpen ==
  ASSUME IdTypeOK, FileOK, agent = "run", NEW s \in Writer, OpenTmp(s) PROVE FileOK'
<1>1. /\ save \in [Writer -> {Idle} \cup Saves] /\ save[s].at = "buffered" /\ tmp' = TornId
      /\ save' = [save EXCEPT ![s] = [save[s] EXCEPT !.at = "open"]]
      /\ UNCHANGED <<agent, mem, disk, overlap, failed>>
  BY DEF OpenTmp, IdTypeOK
<1>2. save[s] \in Saves
  BY <1>1, SavesAre
<1>3. /\ save'[s].at = "open" /\ save'[s].id = save[s].id /\ save'[s] # Idle
      /\ \A t \in Writer \ {s} : save'[t] = save[t]
  BY <1>1, <1>2, SavesAre
<1>4. \A t \in Writer : /\ Encoding(t)' <=> Encoding(t)
                        /\ save'[t].id = save[t].id
                        /\ (save'[t] = Idle) <=> (save[t] = Idle)
                        /\ (save'[t].at = "due") <=> (save[t].at = "due")
  BY <1>1, <1>2, <1>3, SavesAre DEF Encoding
<1>5. Encoding(s) /\ HasToken(tmp)' /\ \A t \in Writer : save[t].at \in {"open", "moved", "lost", "written"} => Encoding(t)
  BY <1>1 DEF Encoding, HasToken
<1>6. ~overlap => \A t \in Writer \ {s} : save'[t].at \notin {"open", "moved", "lost", "written"}
  BY <1>1, <1>3, <1>5 DEF FileOK
<1>. QED BY <1>1, <1>3, <1>4, <1>5, <1>6 DEF FileOK

LEMMA FileWrite ==
  ASSUME IdTypeOK, FileOK, agent = "run", NEW s \in Writer, WriteTmp(s) PROVE FileOK'
<1>1. /\ save \in [Writer -> {Idle} \cup Saves] /\ save[s].at \in {"open", "moved", "lost"}
      /\ save' = [save EXCEPT ![s] = [save[s] EXCEPT !.at = "written"]]
      /\ IF save[s].at = "open" THEN tmp' \in Overlay(tmp, save[s].id) ELSE UNCHANGED tmp
      /\ UNCHANGED <<agent, mem, overlap, failed>>
  BY DEF WriteTmp, IdTypeOK
<1>2. save[s] \in Saves
  BY <1>1, SavesAre
<1>3. /\ save'[s].at = "written" /\ save'[s].id = save[s].id /\ save'[s] # Idle
      /\ \A t \in Writer \ {s} : save'[t] = save[t]
  BY <1>1, <1>2, SavesAre
<1>4. \A t \in Writer : /\ Encoding(t)' <=> Encoding(t)
                        /\ save'[t].id = save[t].id
                        /\ (save'[t] = Idle) <=> (save[t] = Idle)
                        /\ (save'[t].at = "due") <=> (save[t].at = "due")
  BY <1>1, <1>2, <1>3, SavesAre DEF Encoding
<1>5. Encoding(s) /\ save[s].id.jwt = mem.jwt /\ \A t \in Writer : save[t].at \in {"open", "moved", "lost", "written"} => Encoding(t)
  BY <1>1 DEF Encoding, FileOK
<1>6. tmp' = NoId \/ HasToken(tmp)'
  <2>1. CASE save[s].at = "open"
    BY <1>1, <1>5, <2>1 DEF Overlay, HasToken
  <2>2. CASE save[s].at # "open"
    BY <1>1, <1>5, <2>2 DEF FileOK, HasToken
  <2>. QED BY <2>1, <2>2
<1>7. ASSUME ~overlap
      PROVE  /\ \A t \in Writer \ {s} : save'[t].at \notin {"open", "moved", "lost", "written"}
             /\ tmp' = save'[s].id
  <2>1. \A t \in Writer \ {s} : ~Encoding(t)
    BY <1>5, <1>7 DEF FileOK
  <2>2. save[s].at = "open" /\ tmp = TornId
    BY <1>1, <1>7 DEF FileOK
  <2>. QED BY <1>1, <1>3, <1>5, <2>1, <2>2 DEF Overlay
<1>. QED BY <1>1, <1>3, <1>4, <1>5, <1>6, <1>7 DEF FileOK

LEMMA FileEnds ==
  ASSUME IdTypeOK, FileOK, agent = "run", NEW s \in Writer, Rename(s) \/ SaveFails(s) PROVE FileOK'
<1>1. save \in [Writer -> {Idle} \cup Saves] /\ Encoding(s) /\ UNCHANGED <<agent, mem, overlap>>
  BY DEF Rename, SaveFails, Encoding, IdTypeOK
<1>2. PICK how : Ends(s, how)
  BY DEF Rename, SaveFails
<1>3. /\ save'[s] = Idle
      /\ \A t \in Writer \ {s} :
           /\ save[t] = Idle => save'[t] = Idle
           /\ save[t] # Idle => save'[t] # Idle /\ save'[t].id = save[t].id
           /\ (save'[t].at = save[t].at) \/ (Encoding(t) /\ save'[t].at \in {"moved", "lost"})
  BY <1>1, <1>2, EndsType
<1>4. ~Encoding(s)' /\ \A t \in Writer \ {s} : (Encoding(t)' <=> Encoding(t)) /\ (Encoding(t) => save[t] # Idle)
  BY <1>3, SavesAre DEF Encoding
<1>5. \A t \in Writer : Encoding(t)' => save'[t].id.jwt = mem'.jwt
  BY <1>1, <1>3, <1>4 DEF FileOK
<1>6. /\ tmp' \in {NoId, TornId, tmp}
      /\ \/ failed'
         \/ save[s].at = "written" /\ tmp # NoId /\ disk' = tmp
  BY DEF Rename, SaveFails
<1>7. (\E t \in Writer : Encoding(t)' /\ save'[t].at # "buffered") => tmp' = NoId \/ HasToken(tmp)'
  <2>1. ASSUME NEW t \in Writer, Encoding(t)', save'[t].at # "buffered", tmp' = tmp PROVE tmp = NoId \/ HasToken(tmp)
    <3>1. t # s /\ Encoding(t)
      BY <1>4, <2>1
    <3>2. CASE save[t].at # "buffered"
      BY <3>1, <3>2 DEF FileOK
    <3>3. CASE save[t].at = "buffered" /\ save[s].at = "written"
      BY <1>1, <3>3 DEF FileOK
    <3>4. CASE save[t].at = "buffered" /\ save[s].at # "written"
      <4>1. Ends(s, "kept")
        BY <3>4 DEF Rename, SaveFails
      <4>. QED BY <4>1, <2>1, <3>1, <3>4, <1>1, EndsType
    <3>. QED BY <3>2, <3>3, <3>4
  <2>. QED BY <2>1, <1>1, <1>6 DEF HasToken
<1>8. ASSUME ~failed'
      PROVE  /\ HasToken(disk)'
             /\ ~overlap /\ (\A t \in Writer : save'[t] = Idle) => disk' = mem'
  <2>1. save[s].at = "written" /\ tmp # NoId /\ disk' = tmp
    BY <1>6, <1>8
  <2>2. HasToken(tmp)
    BY <1>1, <2>1 DEF FileOK
  <2>3. ASSUME ~overlap, \A t \in Writer : save'[t] = Idle PROVE disk' = mem'
    <3>1. \A t \in Writer : save[t].at # "due"
      BY <1>3, <2>1, <2>3, SavesAre
    <3>. QED BY <1>1, <2>1, <2>3, <3>1 DEF FileOK
  <2>. QED BY <1>1, <2>1, <2>2, <2>3 DEF HasToken
<1>9. ASSUME ~overlap
      PROVE  \A t \in Writer : ~Encoding(t)' /\ save'[t].at \notin {"open", "moved", "lost", "written"}
  <2>1. \A t \in Writer \ {s} : ~Encoding(t)
    BY <1>1, <1>9 DEF FileOK
  <2>2. \A t \in Writer : ~Encoding(t)'
    BY <2>1, <1>4
  <2>. QED BY <2>2 DEF Encoding
<1>. QED BY <1>1, <1>5, <1>7, <1>8, <1>9 DEF FileOK

LEMMA FileStep == IdTypeOK /\ FileOK /\ [IdNext]_idVars => FileOK'
<1>. SUFFICES ASSUME IdTypeOK, FileOK, [IdNext]_idVars PROVE FileOK'
  OBVIOUS
<1>1. CASE UNCHANGED <<agent, mem, disk, tmp, save, overlap, failed>>
  BY <1>1 DEF FileOK, Encoding, HasToken
<1>2. CASE MintBootstrapToken \/ PruneConsumed \/ Expire \/ ServerRestart \/ UNCHANGED idVars
  BY <1>1, <1>2 DEF MintBootstrapToken, PruneConsumed, Expire, ServerRestart, idVars, serverVars, fileVars
<1>3. CASE EnrollHandler \/ SetupHandler
  BY <1>1, <1>3, EnrollType, SetupType DEF fileVars
<1>4. CASE AgentStops
  BY <1>4 DEF AgentStops, FileOK
<1>5. CASE Agent
  <2>1. agent # "run" /\ (\A s \in Writer : save[s] = Idle) /\ UNCHANGED <<save, tmp>>
    BY <1>5, AgentType
  <2>2. agent' = "run" => disk' = mem'
    BY <1>5, <2>1 DEF Agent, EnsureEnrolled, FallBack, GiveUp, Enrolled, Load, fileVars
  <2>3. Idle.at = "idle"
    BY DEF Idle
  <2>. QED BY <2>1, <2>2, <2>3 DEF FileOK, Encoding, HasToken
<1>6. CASE Running
  <2>1. /\ agent = "run" /\ agent' = "run" /\ mem \in Identity /\ save \in [Writer -> {Idle} \cup Saves]
        /\ overlap \in BOOLEAN /\ {NoId, TornId} \cap Identity = {} /\ NoId # TornId
    BY <1>6, RunningType, IdentityAssumption DEF IdTypeOK
  <2>2. /\ Idle.at = "idle" /\ Writer = {"uplink", "rotator"}
        /\ \A r \in Saves : r # Idle /\ r.at # "idle"
    BY DEF Idle, Saves, Writer
  <2>3. CASE Handshake
    BY <2>3, <1>1 DEF Handshake, fileVars
  <2>4. CASE SetJwt
    <3>1. /\ save["uplink"] = Idle /\ ~Encoding("rotator") /\ UNCHANGED <<disk, tmp, overlap>>
          /\ save' = [save EXCEPT !["uplink"] = [at |-> "due", id |-> mem']]
      BY <2>4 DEF SetJwt, Pending
    <3>2. /\ save'["uplink"].at = "due" /\ save'["uplink"] # Idle /\ save'["rotator"] = save["rotator"]
      BY <3>1, <2>1, <2>2 DEF Idle
    <3>3. \A s \in Writer : ~Encoding(s)' /\ save'[s].at \notin {"open", "written", "moved", "lost"}
      BY <3>1, <3>2, <2>2 DEF Encoding
    <3>. QED BY <3>2, <3>3, <2>2 DEF FileOK
  <2>5. CASE Refresh
    <3>1. /\ save["rotator"] = Idle /\ UNCHANGED <<disk, tmp, overlap>>
          /\ save' = [save EXCEPT !["rotator"] = [at |-> "due", id |-> mem']]
          /\ mem' = [mem EXCEPT !.leaf = issued + 1, !.by = root]
      BY <2>5 DEF Refresh, Pending, SwapLeaf, RefreshLeaf, IssueLeaf
    <3>2. mem'.jwt = mem.jwt
      BY <3>1, <2>1 DEF Identity
    <3>3. /\ save'["rotator"].at = "due" /\ save'["rotator"] # Idle /\ save'["uplink"] = save["uplink"]
      BY <3>1, <2>1, <2>2 DEF Idle
    <3>4. \A s \in Writer : Encoding(s)' => Encoding(s) /\ save'[s] = save[s]
      BY <3>3, <2>2 DEF Encoding
    <3>5. \A s \in Writer : save'[s].at \in {"open", "written", "moved", "lost"} => save'[s] = save[s]
      BY <3>3, <2>2
    <3>. QED BY <2>1, <2>2, <3>1, <3>2, <3>3, <3>4, <3>5 DEF FileOK, HasToken
  <2>6. CASE \E s \in Writer : Saving(s)
    <3>1. PICK s \in Writer : Saving(s)
      BY <2>6
    <3>3. CASE Marshal(s)
      BY <3>3, <2>1, FileMarshal
    <3>4. CASE OpenTmp(s)
      BY <3>4, <2>1, FileOpen
    <3>5. CASE WriteTmp(s)
      BY <3>5, <2>1, FileWrite
    <3>6. CASE Rename(s) \/ SaveFails(s)
      BY <3>6, <2>1, FileEnds
    <3>. QED BY <3>1, <3>3, <3>4, <3>5, <3>6 DEF Saving
  <2>. QED BY <1>6, <2>3, <2>4, <2>5, <2>6 DEF Running
<1>. QED BY <1>2, <1>3, <1>4, <1>5, <1>6 DEF IdNext

LEMMA IdInvariant == IdSpec => []IdInv
<1>1. IdInv /\ [IdNext]_idVars => IdInv'
  BY IdTypeStep, AnchorStep, FileStep DEF IdInv
<1>. QED BY IdInitInv, <1>1, PTL DEF IdSpec

\* Service.Complete (OrphanOnlyByRace): a device's identity verifies against the
\* org root on both sides, unless it was registered between a wizard's count of
\* devices and its new root; the server's certificate always verifies.
THEOREM OrphansOnlyByRace == IdSpec => []OrphanOnlyByRace
<1>1. IdInv => OrphanOnlyByRace
  <2>. SUFFICES ASSUME IdInv PROVE OrphanOnlyByRace
    OBVIOUS
  <2>1. ASSUME NEW id \in {mem, disk} \ {NoId, TornId}, id.by # root \/ id.pin # root PROVE raced
    <3>1. id \in HeldIds \cap Identity
      BY <2>1 DEF HeldIds, IdInv, IdTypeOK, Blank
    <3>. QED BY <3>1, <2>1 DEF IdInv, AnchorOK, Anchored, IdTypeOK
  <2>2. [pin |-> root].pin = root
    OBVIOUS
  <2>. QED BY <2>1, <2>2 DEF OrphanOnlyByRace, AgentTrusts, ServerCertNow, IssueServerCert, IdInv, AnchorOK
<1>. QED BY IdInvariant, <1>1, PTL

\* setJWT and the rotator's persist (FileIsCurrent): with no save in progress and
\* the last one successful the identity file has what is in use; after saves that
\* overlapped it may have an older leaf or be torn, never an older token.
THEOREM FileStaysCurrent == IdSpec => []FileIsCurrent
<1>1. IdInv => FileIsCurrent
  BY DEF IdInv, FileOK, FileIsCurrent, HasToken, IdTypeOK
<1>. QED BY IdInvariant, <1>1, PTL

-----------------------------------------------------------------------------
(* Self-update.                                                            *)

Artifact == Build \cup {NoFile}
Fetched == [at : {"manifest"}, man : Build, sum : BOOLEAN]
           \cup [at : {"binary"}, man : Build, sum : BOOLEAN, bin : Artifact]
           \cup [at : {"files"}, man : Build, sum : BOOLEAN, bin : Artifact, sig : Artifact]
Installs == [at : {"verified", "copying", "copied", "installed"}, sum : BOOLEAN, bin : Build, sig : Artifact]

UpdTypeOK ==
  /\ os \in {"unix", "windows"} /\ clash \in BOOLEAN /\ bare \in BOOLEAN
  /\ dir \in [bin : Artifact, sig : Artifact, man : Artifact, sum : BOOLEAN]
  /\ pub = NoFile \/ pub \in [build : Build, sum : BOOLEAN, left : SUBSET {"bin", "sig", "man"}]
  /\ exe \in Build \cup {Torn} /\ run \in Build
  /\ pend \in Artifact \cup {Torn} /\ staged \in Artifact \cup {Torn}
  /\ pass \in [Updater -> [at : {"idle", "ended"}] \cup Fetched \cup Installs]

\* What a pass is bringing is a build of ours, newer than what it has measured,
\* if a checksum ties it to the manifest.
Brings(u, b) == b.key = "ours" /\ b.ver > Current(u).ver
Carries(u)   == pass[u].bin.key = "ours" /\ (pass[u].sum => Brings(u, pass[u].bin))

PassSound(u) ==
  /\ pass[u].at \in {"manifest", "binary", "files"} => Brings(u, pass[u].man)
  /\ pass[u].at \in {"verified", "copying", "copied"} => Carries(u)
  /\ pass[u].at = "copying" => staged = Torn
  /\ pass[u].at = "copied" => staged = pass[u].bin

\* As long as no two passes overlapped.
UpdSound ==
  /\ exe # Torn /\ exe.key = "ours" /\ (exe.ver >= run.ver \/ bare)
  /\ os = "unix" => pend = NoFile
  /\ \A u, w \in Updater : Busy(u) /\ Busy(w) => u = w
  /\ \A u \in Updater : PassSound(u)

UpdInv == UpdTypeOK /\ (clash \/ UpdSound)

LEMMA BuildType ==
  /\ NoFile \notin Build /\ Torn \notin Build /\ NoFile # Torn
  /\ First \in Build /\ First.key = "ours" /\ First.ver = 1
  /\ \A b \in Build : b.ver \in Nat
  BY UpdateAssumption DEF Build, First

LEMMA UpdInitInv == UpdInit => UpdInv
<1>. SUFFICES ASSUME UpdInit PROVE UpdInv
  OBVIOUS
<1>1. UpdTypeOK
  BY BuildType DEF UpdInit, UpdTypeOK, Artifact, NoPass
<1>2. UpdSound
  BY BuildType DEF UpdInit, UpdSound, PassSound, NoPass, Busy, Fetched
<1>. QED BY <1>1, <1>2 DEF UpdInv

LEMMA PublisherStep ==
  ASSUME UpdInv, PublishRelease \/ PublishDir
  PROVE  UpdInv'
<1>1. UNCHANGED <<os, exe, pend, staged, bare, run, pass, clash>>
  BY DEF PublishRelease, PublishDir, binVars
<1>2. /\ dir' \in [bin : Artifact, sig : Artifact, man : Artifact, sum : BOOLEAN]
      /\ pub' = NoFile \/ pub' \in [build : Build, sum : BOOLEAN, left : SUBSET {"bin", "sig", "man"}]
  <2>1. CASE PublishRelease
    BY <2>1 DEF PublishRelease, UpdInv, UpdTypeOK
  <2>2. CASE PublishDir
    <3>1. PICK f \in pub.left :
            /\ dir' = [dir EXCEPT ![f] = pub.build, !.sum = IF f = "man" THEN pub.sum ELSE @]
            /\ pub' = IF f = "man" THEN NoFile ELSE [pub EXCEPT !.left = @ \ {f}]
      BY <2>2 DEF PublishDir, SignOne
    <3>2. pub \in [build : Build, sum : BOOLEAN, left : SUBSET {"bin", "sig", "man"}]
      BY <2>2 DEF PublishDir, UpdInv, UpdTypeOK
    <3>3. f \in {"bin", "sig", "man"} /\ pub.build \in Artifact /\ pub.sum \in BOOLEAN
      BY <3>2 DEF Artifact
    <3>. QED BY <3>1, <3>2, <3>3 DEF UpdInv, UpdTypeOK
  <2>. QED BY <2>1, <2>2
<1>3. UpdTypeOK'
  BY <1>1, <1>2 DEF UpdInv, UpdTypeOK
<1>4. UpdSound => UpdSound'
  BY <1>1 DEF UpdSound, PassSound, Busy, Carries, Brings, Current
<1>. QED BY <1>1, <1>3, <1>4 DEF UpdInv

\* A step of one pass that does not touch what is installed.
LEMMA PassMoves ==
  ASSUME UpdInv, NEW u \in Updater, NEW p, pass' = [pass EXCEPT ![u] = p],
         UNCHANGED <<os, dir, pub, exe, pend, bare, run>>,
         clash' \in BOOLEAN, clash => clash', staged' \in Artifact \cup {Torn},
         p \in [at : {"idle", "ended"}] \cup Fetched \cup Installs,
         p.at \in {"idle", "ended"} => staged' = staged,
         UpdSound /\ ~clash' => \/ p.at \in {"idle", "ended"}
                                \/ \A w \in Updater \ {u} : ~Busy(w),
         UpdSound /\ ~clash' => PassSound(u)'
  PROVE  UpdInv'
<1>1. UpdTypeOK'
  BY DEF UpdInv, UpdTypeOK
<1>2. ASSUME UpdSound, ~clash'
      PROVE  UpdSound'
  <2>1. /\ DOMAIN pass = Updater /\ pass'[u] = p
        /\ \A w \in Updater \ {u} : pass'[w] = pass[w]
    BY DEF UpdInv, UpdTypeOK
  <2>2. \A v, w \in Updater : Busy(v)' /\ Busy(w)' => v = w
    <3>1. \A w \in Updater \ {u} : Busy(w)' <=> Busy(w)
      BY <2>1 DEF Busy
    <3>2. p.at \in {"idle", "ended"} => ~Busy(u)'
      BY <2>1 DEF Busy
    <3>. QED BY <1>2, <3>1, <3>2 DEF UpdSound
  <2>3. ASSUME NEW w \in Updater
        PROVE  PassSound(w)'
    <3>1. CASE w = u
      BY <1>2, <3>1
    <3>2. CASE w # u /\ p.at \in {"idle", "ended"}
      <4>1. CASE ~Busy(w)
        BY <2>1, <3>2, <4>1 DEF PassSound, Busy
      <4>2. CASE Busy(w)
        BY <1>2, <2>1, <3>2, <4>2 DEF UpdSound, PassSound, Carries, Brings, Current
      <4>. QED BY <4>1, <4>2
    <3>3. CASE w # u /\ ~Busy(w)
      BY <2>1, <3>3 DEF PassSound, Busy
    <3>. QED BY <1>2, <3>1, <3>2, <3>3
  <2>. QED BY <1>2, <2>2, <2>3 DEF UpdSound
<1>. QED BY <1>1, <1>2 DEF UpdInv

LEMMA BusyAlone ==
  ASSUME UpdInv, ~clash, NEW u \in Updater, Busy(u)
  PROVE  UpdSound /\ PassSound(u) /\ \A w \in Updater \ {u} : ~Busy(w)
  BY DEF UpdInv, UpdSound

LEMMA FetchSteps ==
  ASSUME UpdInv, NEW u \in Updater,
         Latest(u) \/ DownloadBinary(u) \/ DownloadSignature(u) \/ Verify(u)
  PROVE  UpdInv'
<1>1. /\ UNCHANGED <<os, dir, pub, exe, pend, bare, run, staged>> /\ staged \in Artifact \cup {Torn}
      /\ DOMAIN pass = Updater /\ clash \in BOOLEAN
  BY DEF Latest, DownloadBinary, DownloadSignature, Verify, dirVars, binVars, UpdInv, UpdTypeOK
<1>2. Manifest \in Artifact /\ (Manifest # NoFile => Manifest \in Build)
      /\ AssetPath("bin") \in Artifact /\ AssetPath("sig") \in Artifact /\ dir.sum \in BOOLEAN
  BY DEF Manifest, AssetPath, UpdInv, UpdTypeOK, Artifact
<1>3. CASE Latest(u)
  <2>. DEFINE p == [at |-> "manifest", man |-> Manifest, sum |-> dir.sum]
  <2>1. /\ pass' = [pass EXCEPT ![u] = p] /\ Manifest \in Build
        /\ clash' = (clash \/ \E w \in Updater \ {u} : Busy(w))
        /\ Brings(u, Manifest)
    BY <1>2, <1>3, BuildType DEF Latest, Newer, SameKey, Brings
  <2>2. p \in Fetched /\ p.at = "manifest" /\ p.man = Manifest
    BY <1>2, <2>1 DEF Fetched
  <2>3. ~clash' => PassSound(u)'
    BY <1>1, <2>1 DEF PassSound, Carries, Brings, Current
  <2>. HIDE DEF p
  <2>4. clash' \in BOOLEAN /\ (clash => clash') /\ (~clash' => \A w \in Updater \ {u} : ~Busy(w))
    BY <2>1
  <2>. QED BY <1>1, <2>1, <2>2, <2>3, <2>4, PassMoves
<1>4. CASE DownloadBinary(u)
  <2>. DEFINE p == [at |-> "binary", man |-> pass[u].man, sum |-> pass[u].sum, bin |-> AssetPath("bin")]
  <2>1. pass' = [pass EXCEPT ![u] = p] /\ clash' = clash /\ pass[u].at = "manifest"
    BY <1>1, <1>4 DEF DownloadBinary
  <2>2. pass[u] \in Fetched
    BY <2>1 DEF UpdInv, UpdTypeOK, Fetched, Installs
  <2>3. p \in Fetched /\ p.at = "binary" /\ p.man = pass[u].man
    BY <1>2, <2>1, <2>2 DEF Fetched
  <2>4. PassSound(u) => PassSound(u)'
    BY <1>1, <2>1 DEF PassSound, Carries, Brings, Current
  <2>. HIDE DEF p
  <2>5. Busy(u)
    BY <2>1 DEF Busy
  <2>. QED BY <1>1, <2>1, <2>3, <2>4, <2>5, BusyAlone, PassMoves
<1>5. CASE DownloadSignature(u)
  <2>. DEFINE p == [at |-> "files", man |-> pass[u].man, sum |-> pass[u].sum, bin |-> pass[u].bin, sig |-> AssetPath("sig")]
  <2>1. pass' = [pass EXCEPT ![u] = p] /\ clash' = clash /\ pass[u].at = "binary"
    BY <1>1, <1>5 DEF DownloadSignature
  <2>2. pass[u] \in [at : {"binary"}, man : Build, sum : BOOLEAN, bin : Artifact]
    BY <2>1 DEF UpdInv, UpdTypeOK, Fetched, Installs
  <2>3. p \in Fetched /\ p.at = "files" /\ p.man = pass[u].man
    BY <1>2, <2>1, <2>2 DEF Fetched
  <2>4. PassSound(u) => PassSound(u)'
    BY <1>1, <2>1 DEF PassSound, Carries, Brings, Current
  <2>. HIDE DEF p
  <2>5. Busy(u)
    BY <2>1 DEF Busy
  <2>. QED BY <1>1, <2>1, <2>3, <2>4, <2>5, BusyAlone, PassMoves
<1>6. CASE Verify(u)
  <2>. DEFINE good == VerifySHA256(pass[u]) /\ VerifySignature(pass[u])
              p == IF good THEN [at |-> "verified", sum |-> pass[u].sum, bin |-> pass[u].bin, sig |-> pass[u].sig] ELSE NoPass
  <2>1. pass' = [pass EXCEPT ![u] = p] /\ clash' = clash /\ pass[u].at = "files"
    BY <1>1, <1>6 DEF Verify
  <2>2. pass[u] \in [at : {"files"}, man : Build, sum : BOOLEAN, bin : Artifact, sig : Artifact]
    BY <2>1 DEF UpdInv, UpdTypeOK, Fetched, Installs
  <2>3. good => /\ pass[u].bin \in Build /\ pass[u].bin.key = "ours"
                /\ pass[u].sum => pass[u].bin = pass[u].man
    BY <2>2 DEF VerifySHA256, VerifySignature, Artifact
  <2>4. /\ p \in [at : {"idle", "ended"}] \cup Fetched \cup Installs
        /\ \/ p.at \in {"idle", "ended"}
           \/ p.at = "verified" /\ p.bin.key = "ours" /\ (p.sum => p.bin = pass[u].man)
    <3>1. CASE good
      <4>1. p = [at |-> "verified", sum |-> pass[u].sum, bin |-> pass[u].bin, sig |-> pass[u].sig]
        BY <3>1
      <4>2. pass[u].bin \in Build /\ pass[u].sig \in Artifact /\ pass[u].sum \in BOOLEAN
        BY <2>2, <2>3, <3>1
      <4>. HIDE DEF p, good
      <4>. QED BY <2>3, <3>1, <4>1, <4>2 DEF Installs
    <3>2. CASE ~good
      <4>1. p = NoPass
        BY <3>2
      <4>2. NoPass \in [at : {"idle", "ended"}] /\ NoPass.at = "idle"
        BY DEF NoPass
      <4>. HIDE DEF p
      <4>. QED BY <4>1, <4>2
    <3>. QED BY <3>1, <3>2
  <2>5. PassSound(u) => PassSound(u)'
    <3>1. pass'[u] = p
      BY <1>1, <2>1
    <3>. HIDE DEF p
    <3>. QED BY <1>1, <2>1, <2>4, <3>1 DEF PassSound, Carries, Brings, Current
  <2>. HIDE DEF p
  <2>6. Busy(u)
    BY <2>1 DEF Busy
  <2>. QED BY <1>1, <2>1, <2>4, <2>5, <2>6, BusyAlone, PassMoves
<1>. QED BY <1>3, <1>4, <1>5, <1>6

LEMMA CopyStarts ==
  ASSUME UpdInv, NEW u \in Updater, CopyFileStarts(u)
  PROVE  UpdInv'
<1>. DEFINE p == [pass[u] EXCEPT !.at = "copying"]
<1>1. /\ UNCHANGED <<os, dir, pub, exe, pend, bare, run, clash>> /\ staged' = Torn
      /\ pass' = [pass EXCEPT ![u] = p] /\ pass[u].at = "verified"
      /\ DOMAIN pass = Updater /\ clash \in BOOLEAN
  BY DEF CopyFileStarts, dirVars, UpdInv, UpdTypeOK
<1>2. pass[u] \in Installs
  BY <1>1 DEF UpdInv, UpdTypeOK, Fetched, Installs
<1>3. p \in Installs /\ p.at = "copying" /\ p.bin = pass[u].bin /\ p.sum = pass[u].sum
  BY <1>2 DEF Installs
<1>. HIDE DEF p
<1>4. PassSound(u) => PassSound(u)'
  BY <1>1, <1>3 DEF PassSound, Carries, Brings, Current
<1>5. Busy(u)
  BY <1>1 DEF Busy
<1>. QED BY <1>1, <1>3, <1>4, <1>5, BusyAlone, PassMoves

\* The steps that touch what is installed.
LEMMA InstallSteps ==
  ASSUME UpdInv, NEW u \in Updater, CopyFileEnds(u) \/ DefaultInstall(u) \/ DefaultReexec(u)
  PROVE  UpdInv'
<1>1. /\ UNCHANGED <<os, dir, pub, clash>> /\ DOMAIN pass = Updater /\ clash \in BOOLEAN
      /\ pass[u].at \in {"copying", "copied", "installed"}
  BY DEF CopyFileEnds, DefaultInstall, DefaultReexec, dirVars, UpdInv, UpdTypeOK
<1>2. pass[u] \in Installs /\ Busy(u)
  BY <1>1 DEF UpdInv, UpdTypeOK, Fetched, Installs, Busy
<1>3. \E p \in [at : {"idle", "ended"}] \cup Installs :
        /\ pass' = [pass EXCEPT ![u] = p]
        /\ \/ CopyFileEnds(u) /\ p.at = "copied" /\ p.bin = pass[u].bin /\ p.sum = pass[u].sum
           \/ ~CopyFileEnds(u) /\ p.at \in {"idle", "ended", "installed"}
  <2>1. CASE CopyFileEnds(u)
    <3>. DEFINE p == [pass[u] EXCEPT !.at = "copied"]
    <3>1. pass' = [pass EXCEPT ![u] = p]
      BY <2>1 DEF CopyFileEnds
    <3>2. p \in Installs /\ p.at = "copied" /\ p.bin = pass[u].bin /\ p.sum = pass[u].sum
      BY <1>2 DEF Installs
    <3>. QED BY <2>1, <3>1, <3>2
  <2>2. CASE DefaultInstall(u)
    <3>. DEFINE p == [pass[u] EXCEPT !.at = "installed"]
    <3>1. pass' = [pass EXCEPT ![u] = p] \/ pass' = [pass EXCEPT ![u] = NoPass]
      BY <2>2 DEF DefaultInstall
    <3>2. p \in Installs /\ p.at = "installed"
      BY <1>2 DEF Installs
    <3>3. pass[u].at = "copied"
      BY <2>2 DEF DefaultInstall
    <3>4. NoPass \in [at : {"idle", "ended"}]
      BY DEF NoPass
    <3>. QED BY <3>1, <3>2, <3>3, <3>4 DEF CopyFileEnds
  <2>3. CASE DefaultReexec(u)
    <3>1. pass' = [pass EXCEPT ![u] = NoPass] \/ pass' = [pass EXCEPT ![u] = [at |-> "ended"]]
      BY <2>3 DEF DefaultReexec
    <3>2. pass[u].at = "installed"
      BY <2>3 DEF DefaultReexec
    <3>. QED BY <3>1, <3>2 DEF NoPass, CopyFileEnds
  <2>. QED BY <2>1, <2>2, <2>3
<1>4. PICK p \in [at : {"idle", "ended"}] \cup Installs :
        /\ pass' = [pass EXCEPT ![u] = p]
        /\ \/ CopyFileEnds(u) /\ p.at = "copied" /\ p.bin = pass[u].bin /\ p.sum = pass[u].sum
           \/ ~CopyFileEnds(u) /\ p.at \in {"idle", "ended", "installed"}
  BY <1>3
<1>5. /\ pass'[u] = p /\ \A w \in Updater \ {u} : pass'[w] = pass[w]
      /\ pass' \in [Updater -> [at : {"idle", "ended"}] \cup Fetched \cup Installs]
  BY <1>1, <1>4 DEF UpdInv, UpdTypeOK
<1>6. /\ exe' \in Build \cup {Torn} /\ run' \in Build /\ bare' \in BOOLEAN
      /\ pend' \in Artifact \cup {Torn} /\ staged' \in Artifact \cup {Torn}
  <2>1. /\ exe \in Build \cup {Torn} /\ run \in Build /\ pend \in Artifact \cup {Torn}
        /\ staged \in Artifact \cup {Torn} /\ pass[u].bin \in Build /\ pass[u].sum \in BOOLEAN /\ bare \in BOOLEAN
    BY <1>2 DEF UpdInv, UpdTypeOK, Installs
  <2>2. CASE CopyFileEnds(u)
    BY <2>1, <2>2 DEF CopyFileEnds, Artifact
  <2>3. CASE DefaultInstall(u)
    BY <2>1, <2>3 DEF DefaultInstall, binVars, Artifact
  <2>4. CASE DefaultReexec(u)
    BY <2>1, <2>4 DEF DefaultReexec, binVars, Artifact
  <2>. QED BY <2>2, <2>3, <2>4
<1>7. UpdTypeOK'
  BY <1>1, <1>5, <1>6 DEF UpdInv, UpdTypeOK
<1>8. ASSUME ~clash
      PROVE  UpdSound'
  <2>1. UpdSound /\ PassSound(u) /\ \A w \in Updater \ {u} : ~Busy(w)
    BY <1>2, <1>8, BusyAlone
  <2>2. \A w \in Updater \ {u} : ~Busy(w)' /\ PassSound(w)'
    BY <1>5, <2>1 DEF Busy, PassSound
  <2>3. /\ \A b \in Build : b.ver \in Nat
        /\ exe \in Build /\ run \in Build /\ pass[u].bin \in Build /\ pass[u].sum \in BOOLEAN /\ bare \in BOOLEAN /\ NoFile \notin Build /\ Torn # NoFile
    BY <1>2, <2>1, BuildType DEF UpdInv, UpdTypeOK, UpdSound, Installs
  <2>4. /\ exe' # Torn /\ exe'.key = "ours" /\ (exe'.ver >= run'.ver \/ bare')
        /\ os' = "unix" => pend' = NoFile
        /\ PassSound(u)'
    <3>1. CASE CopyFileEnds(u)
      <4>1. staged = Torn /\ Carries(u)
        BY <2>1, <3>1 DEF CopyFileEnds, PassSound
      <4>2. /\ staged' = pass[u].bin /\ UNCHANGED <<exe, pend, bare, run, os>>
        BY <2>3, <3>1, <4>1 DEF CopyFileEnds
      <4>3. p.at = "copied" /\ p.bin = pass[u].bin /\ p.sum = pass[u].sum
        BY <1>4, <3>1
      <4>4. PassSound(u)'
        BY <1>5, <4>1, <4>2, <4>3 DEF PassSound, Carries, Brings, Current
      <4>. QED BY <2>1, <4>2, <4>4 DEF UpdSound
    <3>2. CASE ~CopyFileEnds(u)
      <4>1. p.at \in {"idle", "ended", "installed"}
        BY <1>4, <3>2
      <4>2. PassSound(u)'
        BY <1>5, <4>1 DEF PassSound
      <4>3. CASE DefaultInstall(u)
        <5>1. staged = pass[u].bin /\ Carries(u)
          BY <2>1, <4>3 DEF DefaultInstall, PassSound
        <5>2. /\ run' = run /\ os' = os
              /\ \/ UNCHANGED <<exe, pend, bare>>
                 \/ exe' = pass[u].bin /\ UNCHANGED pend /\ bare' = (bare \/ ~pass[u].sum)
                 \/ os = "windows" /\ UNCHANGED exe /\ bare' = (bare \/ ~pass[u].sum)
          BY <4>3, <5>1 DEF DefaultInstall, binVars
        <5>3. pass[u].bin # Torn /\ pass[u].bin.key = "ours"
          BY <2>3, <5>1, BuildType DEF Carries
        <5>4. pass[u].sum /\ ~bare => pass[u].bin.ver >= run.ver
          <6>1. pass[u].bin.ver \in Nat /\ run.ver \in Nat /\ exe.ver \in Nat
            BY <2>3
          <6>2. pass[u].sum => pass[u].bin.ver > Current(u).ver
            BY <5>1 DEF Carries, Brings
          <6>3. ~bare => exe.ver >= run.ver
            BY <2>1 DEF UpdSound
          <6>4. Current(u).ver = run.ver \/ Current(u).ver = exe.ver
            BY DEF Current
          <6>. HIDE DEF Current
          <6>. QED BY <6>1, <6>2, <6>3, <6>4
        <5>. QED BY <2>1, <2>3, <4>2, <5>2, <5>3, <5>4 DEF UpdSound
      <4>4. CASE DefaultReexec(u)
        <5>1. UNCHANGED <<exe, pend, os>> /\ ((run' = run /\ bare' = bare) \/ run' = exe)
          BY <4>4 DEF DefaultReexec, binVars
        <5>2. exe.ver >= exe.ver
          BY <2>3
        <5>. QED BY <2>1, <4>2, <5>1, <5>2 DEF UpdSound
      <4>. QED BY <3>2, <4>3, <4>4
    <3>. QED BY <3>1, <3>2
  <2>5. \A v, w \in Updater : Busy(v)' /\ Busy(w)' => v = w
    BY <2>2
  <2>. QED BY <2>2, <2>4, <2>5 DEF UpdSound
<1>. QED BY <1>1, <1>7, <1>8 DEF UpdInv

LEMMA RestartStep ==
  ASSUME UpdInv, Restart
  PROVE  UpdInv'
<1>1. /\ UNCHANGED <<os, dir, pub, clash, staged>> /\ DOMAIN pass = Updater
      /\ exe # Torn /\ run' = exe /\ bare' = FALSE /\ Service \in Updater
      /\ pass' = [pass EXCEPT ![Service] = NoPass]
      /\ UNCHANGED <<exe, pend>> \/ (pend # NoFile /\ os = "unix" /\ exe' = pend /\ pend' = NoFile)
  <2>1. UNCHANGED <<os, dir, pub, clash, staged>> /\ exe # Torn /\ run' = exe /\ bare' = FALSE
    BY DEF Restart, dirVars
  <2>2. pass' = [pass EXCEPT ![Service] = NoPass] /\ DOMAIN pass = Updater /\ Service \in Updater
    BY UpdateAssumption DEF Restart, UpdInv, UpdTypeOK
  <2>3. UNCHANGED <<exe, pend>> \/ (pend # NoFile /\ os = "unix" /\ exe' = pend /\ pend' = NoFile)
    BY DEF Restart, ApplyPending
  <2>. QED BY <2>1, <2>2, <2>3
<1>2. UpdTypeOK'
  <2>1. pass' \in [Updater -> [at : {"idle", "ended"}] \cup Fetched \cup Installs]
    BY <1>1 DEF UpdInv, UpdTypeOK, NoPass
  <2>. QED BY <1>1, <2>1 DEF UpdInv, UpdTypeOK, Artifact
<1>3. ASSUME UpdSound
      PROVE  UpdSound'
  <2>1. UNCHANGED <<exe, pend>> /\ exe \in Build /\ exe.ver \in Nat
    BY <1>1, <1>3, BuildType DEF UpdSound, UpdInv, UpdTypeOK
  <2>2. exe'.ver >= run'.ver
    BY <1>1, <2>1
  <2>3. pass'[Service] = NoPass /\ \A w \in Updater \ {Service} : pass'[w] = pass[w]
    BY <1>1
  <2>4. \A v, w \in Updater : Busy(v)' /\ Busy(w)' => v = w
    BY <1>3, <2>3 DEF UpdSound, Busy, NoPass
  <2>5. \A w \in Updater : PassSound(w)'
    BY <1>1, <1>3, <2>1, <2>3 DEF UpdSound, PassSound, NoPass, Carries, Brings, Current
  <2>. QED BY <1>1, <1>3, <2>1, <2>2, <2>4, <2>5 DEF UpdSound
<1>. QED BY <1>1, <1>2, <1>3 DEF UpdInv

\* Updater.Run, Install, ApplyPending (ExecutableIsSound): whatever is
\* published, in whatever order files are written and fetched, the executable
\* stays a whole build of ours, as long as no two passes overlapped, and not older
\* than the one that runs, as long as manifests carry checksums.
THEOREM ExecutableSound == UpdSpec => []ExecutableIsSound
<1>1. UpdInv /\ [UpdNext]_updVars => UpdInv'
  <2>. SUFFICES ASSUME UpdInv, [UpdNext]_updVars PROVE UpdInv'
    OBVIOUS
  <2>1. CASE UNCHANGED updVars
    BY <2>1 DEF updVars, dirVars, binVars, UpdInv, UpdTypeOK, UpdSound, PassSound, Carries, Brings, Current, Busy
  <2>2. CASE Passes
    BY <2>2, FetchSteps, CopyStarts, InstallSteps DEF Passes, Pass
  <2>. QED BY <2>1, <2>2, PublisherStep, RestartStep DEF UpdNext
<1>2. UpdInv => ExecutableIsSound
  BY DEF UpdInv, UpdSound, ExecutableIsSound
<1>. QED BY <1>1, <1>2, UpdInitInv, PTL DEF UpdSpec

(***************************************************************************)
(* Commands: frames of a stream arrive in the order they were sent.        *)
(***************************************************************************)

What  == {"RECEIVED", "SUCCEEDED", "FAILED", "TIMED_OUT", "chunk", "eof"}
Steps == {"new", "queued", "start", "run", "exit0", "exit1", "killed", "reading", "read", "written",
          "waiting", "abandoned"}
Frame == [cmd : Cmd, what : What]

ActTypeOK ==
  /\ kind \in [Cmd -> ForAction] /\ cur \in Int /\ wire \in [Stream -> {"new", "up", "cut", "off"}]
  /\ downlink \in [Stream -> Seq(Cmd)] /\ up \in [Stream -> Seq(Frame)]
  /\ reader \in [Stream -> Cmd \cup {Free, Gone}] /\ at \in [Cmd -> Steps]
  /\ temps \in SUBSET Cmd /\ placed \in SUBSET Cmd /\ procs \in [Cmd -> SUBSET {"script", "child", "daemon"}]
  /\ log \in [Cmd -> Seq(What)]

\* A command waits at one place, or one reader has it; the push a stream's end
\* abandons has a reader without a stream.
HandlingOK ==
  /\ \A s \in Stream : wire[s] \in {"up", "cut"} => s = cur
  /\ \A s \in Stream : \A i \in DOMAIN downlink[s] : at[downlink[s][i]] = "queued" /\ wire[s] # "new"
  /\ \A s, t \in Stream : \A i \in DOMAIN downlink[s], j \in DOMAIN downlink[t] :
       downlink[s][i] = downlink[t][j] => s = t /\ i = j
  /\ \A s \in Stream : reader[s] \in Cmd =>
       /\ wire[s] # "new" /\ at[reader[s]] \notin {"new", "queued"}
       /\ at[reader[s]] = "abandoned" => wire[s] = "off"
  /\ \A s, t \in Stream : reader[s] \in Cmd /\ reader[s] = reader[t] => s = t
  /\ \A c \in Cmd : "script" \in procs[c] => at[c] = "run"

\* The server has been told, or is about to be, that c has succeeded.
Told(c) == \/ "SUCCEEDED" \in ToSet(log[c])
           \/ \E s \in Stream : \E i \in DOMAIN up[s] : up[s][i] = [cmd |-> c, what |-> "SUCCEEDED"]

\* Nothing will touch c any more, and it has done what its kind is for.
Settled(c) ==
  /\ at[c] \notin {"new", "queued"} /\ \A s \in Stream : reader[s] # c
  /\ kind[c] = "script" => at[c] = "exit0" /\ procs[c] = {}
  /\ kind[c] \in {"push", "chunked"} => c \in placed /\ c \notin temps

\* What is sent before a success, and the step its handler is at from then on.
Need == [pull |-> "eof"]
Mark == [pull |-> "read"]

\* The server has handled that, or will before the n-th frame of s.
Before(s, n, c) == \/ Need[kind[c]] \in ToSet(log[c])
                   \/ \E j \in DOMAIN up[s] : j < n /\ up[s][j] = [cmd |-> c, what |-> Need[kind[c]]]

OrderOK ==
  /\ \A c \in Cmd : kind[c] \in DOMAIN Need /\ "SUCCEEDED" \in ToSet(log[c]) => Need[kind[c]] \in ToSet(log[c])
  /\ \A s \in Stream : \A i \in DOMAIN up[s] :
       kind[up[s][i].cmd] \in DOMAIN Need /\ up[s][i].what = "SUCCEEDED" => Before(s, i, up[s][i].cmd)
  /\ \A s \in Stream :
       reader[s] \in Cmd /\ kind[reader[s]] \in DOMAIN Need /\ at[reader[s]] = Mark[kind[reader[s]]] /\ wire[s] = "up"
         => Before(s, Len(up[s]) + 1, reader[s])

ActInv == ActTypeOK /\ HandlingOK /\ (\A c \in Cmd : Told(c) => Settled(c)) /\ OrderOK

\* --- Operators.
LEMMA ToSetIs == \A q : ToSet(q) = {q[i] : i \in DOMAIN q}
BY DEF ToSet

LEMMA AppendIs ==
  ASSUME NEW S, NEW q \in Seq(S), NEW e \in S
  PROVE  /\ Append(q, e) \in Seq(S) /\ Len(Append(q, e)) = Len(q) + 1 /\ Len(q) \in Nat
         /\ DOMAIN q = 1 .. Len(q) /\ DOMAIN Append(q, e) = 1 .. Len(q) + 1
         /\ \A i \in 1 .. Len(q) : Append(q, e)[i] = q[i]
         /\ Append(q, e)[Len(q) + 1] = e
         /\ ToSet(Append(q, e)) = ToSet(q) \cup {e}
<1>1. /\ Append(q, e) \in Seq(S) /\ Len(Append(q, e)) = Len(q) + 1 /\ Len(q) \in Nat
      /\ DOMAIN q = 1 .. Len(q) /\ DOMAIN Append(q, e) = 1 .. Len(q) + 1
      /\ \A i \in 1 .. Len(q) : Append(q, e)[i] = q[i]
      /\ Append(q, e)[Len(q) + 1] = e
  OBVIOUS
<1>. DEFINE r == Append(q, e)
<1>. HIDE DEF r
<1>2. ASSUME DOMAIN q = 1 .. Len(q), DOMAIN r = 1 .. Len(q) + 1, Len(q) \in Nat,
             \A i \in 1 .. Len(q) : r[i] = q[i], r[Len(q) + 1] = e
      PROVE  {r[i] : i \in DOMAIN r} = {q[i] : i \in DOMAIN q} \cup {e}
  BY <1>2
<1>3. ToSet(r) = ToSet(q) \cup {e}
  BY <1>1, <1>2, ToSetIs DEF r
<1>. QED BY <1>1, <1>3 DEF r

LEMMA TailIs ==
  ASSUME NEW S, NEW q \in Seq(S), q # <<>>
  PROVE  /\ Head(q) \in S /\ Head(q) = q[1] /\ Tail(q) \in Seq(S) /\ Len(Tail(q)) = Len(q) - 1
         /\ DOMAIN q = 1 .. Len(q) /\ Len(q) \in Nat /\ Len(q) >= 1 /\ 1 \in DOMAIN q
         /\ DOMAIN Tail(q) = 1 .. Len(q) - 1
         /\ \A i \in 1 .. Len(q) - 1 : Tail(q)[i] = q[i + 1]
<1>1. Len(q) \in Nat /\ Len(q) >= 1
  OBVIOUS
<1>. QED BY <1>1

\* What the reader of s does with c: it moves c alone, and what it sends of c
\* is a success only when c is done with it.
Done(c) ==
  /\ kind[c] = "script" => at[c] = "exit0" /\ procs[c] = {}
  /\ kind[c] \in {"push", "chunked"} => c \in placed /\ c \notin temps

Sends(s, c, w) == up' = IF wire[s] = "up" THEN [up EXCEPT ![s] = Append(up[s], [cmd |-> c, what |-> w])] ELSE up

ReadStep(s, c) ==
  /\ reader[s] = c /\ UNCHANGED <<kind, cur, wire, downlink, log>>
  /\ \E n \in Steps \ {"new", "queued"} : at' = [at EXCEPT ![c] = n]
  /\ \E x \in {c, Free, Gone} : reader' = [reader EXCEPT ![s] = x]
  /\ temps' \ {c} = temps \ {c} /\ placed' \ {c} = placed \ {c}
  /\ \E p \in SUBSET {"script", "child", "daemon"} : procs' = [procs EXCEPT ![c] = p]
  /\ "script" \in procs'[c] => at'[c] = "run"
  /\ at'[c] = "abandoned" => at[c] = "abandoned"
  /\ \/ up' = up /\ kind[c] \notin DOMAIN Need
     \/ \E w \in What :
          /\ Sends(s, c, w)
          /\ w = "SUCCEEDED" /\ wire[s] = "up" =>
               Done(c)' /\ reader'[s] # c /\ (kind[c] \in DOMAIN Need => at[c] = Mark[kind[c]])
          /\ reader'[s] = c /\ kind[c] \in DOMAIN Need /\ at'[c] = Mark[kind[c]] => w = Need[kind[c]]

LEMMA Sending ==
  ASSUME ActTypeOK, NEW s \in Stream, NEW c \in Cmd, NEW w \in What, NEW next \in {c, Free, Gone},
         Send(s, c, w, next)
  PROVE  /\ Sends(s, c, w) /\ UNCHANGED <<kind, cur, wire, log>>
         /\ \E x \in {c, Free, Gone} : reader' = [reader EXCEPT ![s] = x] /\ (next # c => x # c)
<1>1. Free # c /\ Gone # c
  BY ActAssumption
<1>2. up' = [up EXCEPT ![s] = IF wire[s] = "up" THEN Append(up[s], [cmd |-> c, what |-> w]) ELSE up[s]]
  BY DEF Send
<1>3. Sends(s, c, w)
  <2>1. CASE wire[s] = "up"
    BY <1>2, <2>1 DEF Sends
  <2>2. CASE wire[s] # "up"
    BY <1>2, <2>2 DEF Sends, ActTypeOK
  <2>. QED BY <2>1, <2>2
<1>. QED BY <1>1, <1>3 DEF Send

LEMMA ReadFacts ==
  ASSUME ActTypeOK, NEW s \in Stream, NEW c \in Cmd, ReadStep(s, c)
  PROVE  /\ at' \in [Cmd -> Steps] /\ at'[c] \notin {"new", "queued"} /\ \A d \in Cmd \ {c} : at'[d] = at[d]
         /\ reader' \in [Stream -> Cmd \cup {Free, Gone}] /\ \A t \in Stream \ {s} : reader'[t] = reader[t]
         /\ reader'[s] \in {c, Free, Gone} /\ c \notin {Free, Gone} /\ \A d \in Cmd \ {c} : reader'[s] # d /\ reader[s] # d
         /\ procs' \in [Cmd -> SUBSET {"script", "child", "daemon"}] /\ \A d \in Cmd \ {c} : procs'[d] = procs[d]
         /\ temps' \in SUBSET Cmd /\ placed' \in SUBSET Cmd
         /\ \A d \in Cmd \ {c} : (d \in temps' <=> d \in temps) /\ (d \in placed' <=> d \in placed)
<1>0. {Free, Gone} \cap Cmd = {}
  BY ActAssumption
<1>1. PICK n \in Steps \ {"new", "queued"} : at' = [at EXCEPT ![c] = n]
  BY DEF ReadStep
<1>2. PICK x \in {c, Free, Gone} : reader' = [reader EXCEPT ![s] = x]
  BY DEF ReadStep
<1>3. PICK p \in SUBSET {"script", "child", "daemon"} : procs' = [procs EXCEPT ![c] = p]
  BY DEF ReadStep
<1>5. temps' \ {c} = temps \ {c} /\ placed' \ {c} = placed \ {c} /\ reader[s] = c
  BY DEF ReadStep
<1>6. at' \in [Cmd -> Steps] /\ at'[c] \notin {"new", "queued"} /\ \A d \in Cmd \ {c} : at'[d] = at[d]
  BY <1>1 DEF ActTypeOK
<1>7. /\ reader' \in [Stream -> Cmd \cup {Free, Gone}] /\ (\A t \in Stream \ {s} : reader'[t] = reader[t]) /\ reader'[s] = x
  BY <1>2 DEF ActTypeOK
<1>8. procs' \in [Cmd -> SUBSET {"script", "child", "daemon"}] /\ \A d \in Cmd \ {c} : procs'[d] = procs[d]
  BY <1>3 DEF ActTypeOK
<1>10. temps' \in SUBSET Cmd /\ placed' \in SUBSET Cmd
  BY <1>5 DEF ActTypeOK
<1>11. \A d \in Cmd \ {c} : (d \in temps' <=> d \in temps) /\ (d \in placed' <=> d \in placed)
  BY <1>5
<1>. QED BY <1>0, <1>5, <1>6, <1>7, <1>8, <1>10, <1>11

\* A frame is appended to one stream or to none.
LEMMA SendFacts ==
  ASSUME ActTypeOK, NEW s \in Stream, NEW c \in Cmd, NEW w \in What, Sends(s, c, w)
  PROVE  /\ up' \in [Stream -> Seq(Frame)]
         /\ \A t \in Stream : \A i \in DOMAIN up[t] : i \in DOMAIN up'[t] /\ up'[t][i] = up[t][i]
         /\ \A t \in Stream : \A i \in DOMAIN up'[t] :
              \/ i \in DOMAIN up[t]
              \/ t = s /\ wire[s] = "up" /\ i = Len(up[s]) + 1 /\ up'[t][i] = [cmd |-> c, what |-> w]
         /\ wire[s] = "up" => /\ Len(up'[s]) = Len(up[s]) + 1 /\ Len(up[s]) \in Nat /\ Len(up[s]) + 1 \in DOMAIN up'[s]
                              /\ up'[s][Len(up[s]) + 1] = [cmd |-> c, what |-> w]
                              /\ \A i \in DOMAIN up[s] : i < Len(up[s]) + 1
         /\ \A t \in Stream \ {s} : up'[t] = up[t]
<1>1. up \in [Stream -> Seq(Frame)] /\ up[s] \in Seq(Frame)
  BY DEF ActTypeOK
<1>2. CASE wire[s] # "up"
  BY <1>1, <1>2 DEF Sends
<1>3. CASE wire[s] = "up"
  <2> DEFINE f == [cmd |-> c, what |-> w]
  <2>1. f \in Frame
    BY DEF Frame
  <2>2. up' = [up EXCEPT ![s] = Append(up[s], f)]
    BY <1>3 DEF Sends
  <2>. HIDE DEF f
  <2>3. up'[s] = Append(up[s], f) /\ \A t \in Stream \ {s} : up'[t] = up[t]
    BY <1>1, <2>2
  <2>4. /\ Append(up[s], f) \in Seq(Frame) /\ Len(Append(up[s], f)) = Len(up[s]) + 1 /\ Len(up[s]) \in Nat
        /\ DOMAIN up[s] = 1 .. Len(up[s]) /\ DOMAIN Append(up[s], f) = 1 .. Len(up[s]) + 1
        /\ \A i \in 1 .. Len(up[s]) : Append(up[s], f)[i] = up[s][i]
        /\ Append(up[s], f)[Len(up[s]) + 1] = f
    BY <1>1, <2>1, AppendIs
  <2>5. up' \in [Stream -> Seq(Frame)]
    BY <1>1, <2>2, <2>4
  <2>6. \A t \in Stream : \A i \in DOMAIN up[t] : i \in DOMAIN up'[t] /\ up'[t][i] = up[t][i]
    BY <2>3, <2>4
  <2>7. \A t \in Stream : \A i \in DOMAIN up'[t] :
              i \in DOMAIN up[t] \/ (t = s /\ i = Len(up[s]) + 1 /\ up'[t][i] = f)
    BY <2>3, <2>4
  <2>. QED BY <1>3, <2>3, <2>4, <2>5, <2>6, <2>7 DEF f
<1>. QED BY <1>2, <1>3

LEMMA ReadType ==
  ASSUME ActTypeOK, NEW s \in Stream, NEW c \in Cmd, ReadStep(s, c) PROVE ActTypeOK'
<1>1. UNCHANGED <<kind, cur, wire, downlink, log>>
  BY DEF ReadStep
<1>2. up' \in [Stream -> Seq(Frame)]
  BY SendFacts DEF ReadStep, ActTypeOK
<1>. QED BY <1>1, <1>2, ReadFacts DEF ActTypeOK

LEMMA ReadHandling ==
  ASSUME ActTypeOK, HandlingOK, NEW s \in Stream, NEW c \in Cmd, ReadStep(s, c) PROVE HandlingOK'
<1>1. UNCHANGED <<cur, wire, downlink>> /\ reader[s] = c /\ ("script" \in procs'[c] => at'[c] = "run")
      /\ (at'[c] = "abandoned" => at[c] = "abandoned")
  BY DEF ReadStep
<1>2. \A t \in Stream : \A i \in DOMAIN downlink[t] : downlink[t][i] \in Cmd
  BY DEF ActTypeOK
<1>3. \A t \in Stream : \A i \in DOMAIN downlink[t] : at'[downlink[t][i]] = "queued" /\ wire[t] # "new"
  BY <1>1, <1>2, ReadFacts DEF HandlingOK
<1>4. \A t \in Stream : reader'[t] \in Cmd => reader'[t] = reader[t]
  BY <1>1, ReadFacts, ActAssumption
<1>5. \A t \in Stream : reader'[t] \in Cmd =>
       /\ wire[t] # "new" /\ at'[reader'[t]] \notin {"new", "queued"}
       /\ at'[reader'[t]] = "abandoned" => wire[t] = "off"
  BY <1>1, <1>4, ReadFacts DEF HandlingOK
<1>6. \A d \in Cmd : "script" \in procs'[d] => at'[d] = "run"
  <2>1. \A d \in Cmd \ {c} : procs'[d] = procs[d] /\ at'[d] = at[d]
    BY ReadFacts
  <2>2. \A d \in Cmd : "script" \in procs[d] => at[d] = "run"
    BY DEF HandlingOK
  <2>. QED BY <1>1, <2>1, <2>2
<1>. QED BY <1>1, <1>3, <1>4, <1>5, <1>6 DEF HandlingOK

LEMMA ReadTruth ==
  ASSUME ActTypeOK, HandlingOK, \A d \in Cmd : Told(d) => Settled(d),
         NEW s \in Stream, NEW c \in Cmd, ReadStep(s, c)
  PROVE  \A d \in Cmd : Told(d)' => Settled(d)'
<1>1. UNCHANGED <<kind, log, wire>> /\ reader[s] = c
  BY DEF ReadStep
<1>2. ~Told(c)
  BY <1>1 DEF Settled
<1>3. \A t \in Stream \ {s} : reader[t] # c
  BY <1>1 DEF HandlingOK
<1>4. ASSUME Told(c)' PROVE Settled(c)'
  <2>1. PICK w \in What : /\ Sends(s, c, w)
                          /\ w = "SUCCEEDED" /\ wire[s] = "up" => Done(c)' /\ reader'[s] # c
    BY <1>1, <1>2, <1>4 DEF ReadStep, Told
  <2>2. PICK t \in Stream : \E i \in DOMAIN up'[t] : up'[t][i] = [cmd |-> c, what |-> "SUCCEEDED"]
    BY <1>1, <1>2, <1>4 DEF Told
  <2>3. PICK i \in DOMAIN up'[t] : up'[t][i] = [cmd |-> c, what |-> "SUCCEEDED"]
    BY <2>2
  <2>4. i \notin DOMAIN up[t]
    <3>1. i \in DOMAIN up[t] => up'[t][i] = up[t][i]
      BY <2>1, SendFacts
    <3>. QED BY <1>2, <2>3, <3>1 DEF Told
  <2>5. wire[s] = "up" /\ [cmd |-> c, what |-> w] = [cmd |-> c, what |-> "SUCCEEDED"]
    BY <2>1, <2>3, <2>4, SendFacts
  <2>6. w = "SUCCEEDED"
    BY <2>5
  <2>7. Done(c)' /\ reader'[s] # c
    BY <2>1, <2>5, <2>6
  <2>8. \A r \in Stream : reader'[r] # c
    BY <1>3, <2>7, ReadFacts
  <2>9. at'[c] \notin {"new", "queued"}
    BY ReadFacts
  <2>. QED BY <2>7, <2>8, <2>9 DEF Settled, Done
<1>5. ASSUME NEW d \in Cmd \ {c}, Told(d)' PROVE Settled(d)'
  <2>1. Told(d)
    <3>1. CASE up' = up
      BY <1>1, <1>5, <3>1 DEF Told
    <3>2. CASE \E w \in What : Sends(s, c, w)
      <4>1. PICK w \in What : Sends(s, c, w)
        BY <3>2
      <4>2. [cmd |-> c, what |-> w] # [cmd |-> d, what |-> "SUCCEEDED"]
        OBVIOUS
      <4>. QED BY <1>1, <1>5, <4>1, <4>2, SendFacts DEF Told
    <3>. QED BY <3>1, <3>2 DEF ReadStep
  <2>2. Settled(d)
    BY <2>1
  <2>3. /\ at'[d] = at[d] /\ procs'[d] = procs[d] /\ (d \in temps' <=> d \in temps) /\ (d \in placed' <=> d \in placed)
    BY ReadFacts
  <2>4. \A r \in Stream : reader'[r] # d
    <3>1. \A r \in Stream : reader[r] # d
      BY <2>2 DEF Settled
    <3>. QED BY <3>1, ReadFacts
  <2>. QED BY <2>2, <2>3, <2>4, <1>1 DEF Settled
<1>. QED BY <1>4, <1>5

LEMMA BeforeKept ==
  ASSUME UNCHANGED kind, \A c \in Cmd : ToSet(log[c]) \subseteq ToSet(log'[c]),
         NEW s \in Stream, NEW n, NEW c \in Cmd, Before(s, n, c),
         \A i \in DOMAIN up[s] : i \in DOMAIN up'[s] /\ up'[s][i] = up[s][i]
  PROVE  Before(s, n, c)'
BY DEF Before

LEMMA ReadOrder ==
  ASSUME ActTypeOK, HandlingOK, OrderOK, NEW s \in Stream, NEW c \in Cmd, ReadStep(s, c) PROVE OrderOK'
<1>1. UNCHANGED <<kind, log, wire>> /\ reader[s] = c
  BY DEF ReadStep
<1>2. up' = up \/ \E w \in What : Sends(s, c, w)
  BY DEF ReadStep
<1>3. \A t \in Stream : \A i \in DOMAIN up[t] : i \in DOMAIN up'[t] /\ up'[t][i] = up[t][i]
  BY <1>2, SendFacts
<1>4. \A t \in Stream : \A n, d : Before(t, n, d) => Before(t, n, d)'
  BY <1>1, <1>3 DEF Before
<1>5. ASSUME NEW t \in Stream, NEW i \in DOMAIN up'[t], NEW d, up'[t][i].cmd = d,
             kind[d] \in DOMAIN Need, up'[t][i].what = "SUCCEEDED"
      PROVE  Before(t, i, d)'
  <2>1. CASE i \in DOMAIN up[t]
    <3>1. Before(t, i, d)
      BY <1>3, <1>5, <2>1 DEF OrderOK
    <3>. QED BY <3>1, <1>4
  <2>2. CASE i \notin DOMAIN up[t]
    <3>1. PICK w \in What : /\ Sends(s, c, w)
                            /\ w = "SUCCEEDED" /\ wire[s] = "up" => (kind[c] \in DOMAIN Need => at[c] = Mark[kind[c]])
      BY <2>2 DEF ReadStep
    <3>2. t = s /\ wire[s] = "up" /\ i = Len(up[s]) + 1 /\ up'[t][i] = [cmd |-> c, what |-> w]
      BY <2>2, <3>1, SendFacts
    <3>3. d = c /\ w = "SUCCEEDED"
      BY <1>5, <3>2
    <3>4. Before(s, Len(up[s]) + 1, c)
      BY <1>1, <1>5, <3>1, <3>2, <3>3 DEF OrderOK
    <3>. QED BY <1>4, <3>2, <3>3, <3>4
  <2>. QED BY <2>1, <2>2
<1>6. ASSUME NEW t \in Stream, NEW d \in Cmd, reader'[t] = d, kind[d] \in DOMAIN Need, at'[d] = Mark[kind[d]],
             wire[t] = "up", NEW n, n = Len(up'[t]) + 1
      PROVE  Before(t, n, d)'
  <2>1. CASE t = s
    <3>1. d = c
      BY <1>6, <2>1, ReadFacts, ActAssumption
    <3>2. PICK w \in What : Sends(s, c, w) /\ w = Need[kind[c]]
      BY <1>6, <2>1, <3>1 DEF ReadStep
    <3>3. /\ Len(up'[s]) = Len(up[s]) + 1 /\ Len(up[s]) \in Nat /\ Len(up[s]) + 1 \in DOMAIN up'[s]
          /\ up'[s][Len(up[s]) + 1] = [cmd |-> c, what |-> w]
      BY <1>6, <2>1, <3>2, SendFacts
    <3>. QED BY <1>1, <1>6, <2>1, <3>1, <3>2, <3>3 DEF Before
  <2>2. CASE t # s
    <3>1. reader[t] = d /\ d # c
      BY <1>1, <1>6, <2>2, ReadFacts DEF HandlingOK
    <3>2. at[d] = Mark[kind[d]]
      BY <1>6, <3>1, ReadFacts
    <3>3. up'[t] = up[t]
      BY <1>2, <2>2, SendFacts
    <3>4. Before(t, n, d)
      BY <1>6, <3>1, <3>2, <3>3 DEF OrderOK
    <3>. QED BY <1>4, <3>4
  <2>. QED BY <2>1, <2>2
<1>7. \A t \in Stream : \A i \in DOMAIN up'[t] :
        kind'[up'[t][i].cmd] \in DOMAIN Need /\ up'[t][i].what = "SUCCEEDED" => Before(t, i, up[t][i].cmd)'
  BY <1>1, <1>5 DEF Before
<1>8. \A t \in Stream :
        reader'[t] \in Cmd /\ kind'[reader'[t]] \in DOMAIN Need /\ at'[reader'[t]] = Mark[kind'[reader'[t]]] /\ wire'[t] = "up"
          => Before(t, Len(up[t]) + 1, reader[t])'
  BY <1>1, <1>6 DEF Before
<1>9. \A d \in Cmd : kind'[d] \in DOMAIN Need /\ "SUCCEEDED" \in ToSet(log'[d]) => Need[kind'[d]] \in ToSet(log'[d])
  BY <1>1 DEF OrderOK
<1>. QED BY <1>7, <1>8, <1>9 DEF OrderOK

LEMMA ReadKeeps ==
  ASSUME ActInv, NEW s \in Stream, NEW c \in Cmd, ReadStep(s, c) PROVE ActInv'
BY ReadType, ReadHandling, ReadTruth, ReadOrder DEF ActInv

\* --- Every step of a handler is one of these: a result, a step, a message.
LEMMA ResultStep ==
  ASSUME ActTypeOK, HandlingOK, NEW s \in Stream, NEW c \in Cmd, reader[s] = c,
         NEW w \in What, SendResult(s, c, w), UNCHANGED <<downlink, at, procs>>,
         temps' \ {c} = temps \ {c}, placed' \ {c} = placed \ {c},
         w = "SUCCEEDED" /\ wire[s] = "up" => Done(c)' /\ (kind[c] \in DOMAIN Need => at[c] = Mark[kind[c]])
  PROVE  ReadStep(s, c)
<1>1. Send(s, c, w, Free) /\ Free # c
  BY ActAssumption DEF SendResult
<1>2. PICK x \in {c, Free, Gone} : reader' = [reader EXCEPT ![s] = x] /\ x # c
  BY <1>1, Sending
<1>3. reader'[s] # c
  BY <1>2 DEF ActTypeOK
<1>4. Sends(s, c, w) /\ UNCHANGED <<kind, cur, wire, log>>
  BY <1>1, Sending
<1>5. at' = [at EXCEPT ![c] = at[c]] /\ at[c] \in Steps \ {"new", "queued"}
  BY DEF ActTypeOK, HandlingOK
<1>6. procs' = [procs EXCEPT ![c] = procs[c]] /\ procs[c] \in SUBSET {"script", "child", "daemon"}
  BY DEF ActTypeOK
<1>8. "script" \in procs'[c] => at'[c] = "run"
  BY DEF HandlingOK
<1>. QED BY <1>2, <1>3, <1>4, <1>5, <1>6, <1>8 DEF ReadStep

LEMMA LocalStep ==
  ASSUME ActTypeOK, HandlingOK, NEW s \in Stream, NEW c \in Cmd, reader[s] = c, kind[c] \notin DOMAIN Need,
         NEW n \in Steps \ {"new", "queued", "start", "abandoned"}, at' = [at EXCEPT ![c] = n],
         NEW p \in SUBSET {"script", "child", "daemon"}, procs' = [procs EXCEPT ![c] = p], "script" \in p => n = "run",
         UNCHANGED <<kind, cur, wire, downlink, up, reader, placed, log>>,
         temps' \ {c} = temps \ {c}
  PROVE  ReadStep(s, c)
<1>1. at'[c] = n /\ procs'[c] = p
  BY DEF ActTypeOK
<1>2. reader' = [reader EXCEPT ![s] = c]
  BY DEF ActTypeOK
<1>. QED BY <1>1, <1>2 DEF ReadStep

LEMMA TellStep ==
  ASSUME ActTypeOK, HandlingOK, NEW s \in Stream, NEW c \in Cmd, reader[s] = c,
         NEW w \in What \ {"SUCCEEDED"}, Send(s, c, w, c),
         NEW n \in Steps \ {"new", "queued", "start", "abandoned", "run"}, at' = [at EXCEPT ![c] = n],
         at[c] # "run", UNCHANGED <<downlink, temps, placed, procs>>,
         kind[c] \in DOMAIN Need /\ n = Mark[kind[c]] => w = Need[kind[c]]
  PROVE  ReadStep(s, c)
<1>1. at'[c] = n
  BY DEF ActTypeOK
<1>2. Sends(s, c, w) /\ UNCHANGED <<kind, cur, wire, log>>
      /\ \E x \in {c, Free, Gone} : reader' = [reader EXCEPT ![s] = x]
  BY Sending
<1>3. procs' = [procs EXCEPT ![c] = procs[c]] /\ procs[c] \in SUBSET {"script", "child", "daemon"}
  BY DEF ActTypeOK
<1>4. "script" \notin procs'[c]
  BY DEF HandlingOK
<1>. QED BY <1>1, <1>2, <1>3, <1>4 DEF ReadStep

LEMMA ScriptSteps ==
  ASSUME ActTypeOK, HandlingOK, NEW s \in Stream, NEW c, reader[s] = c, Scripts(s)
  PROVE  c \in Cmd /\ ReadStep(s, c)
<1>0. c \in Cmd /\ reader[s] = c /\ kind[c] = "script"
  BY DEF Scripts, InterpreterMissing, RunScript, Timeout, RunScriptCommand, Handling
<1>3. kind[c] \notin DOMAIN Need
  BY <1>0 DEF Need
<1>4. CASE InterpreterMissing(s)
  BY <1>4, <1>0, ResultStep DEF InterpreterMissing, What
<1>5. CASE RunScript(s)
  <2>1. PICK more \in SUBSET {"child", "daemon"} : procs' = [procs EXCEPT ![c] = {"script"} \cup more]
    BY <1>5 DEF RunScript
  <2>2. {"script"} \cup more \in SUBSET {"script", "child", "daemon"}
    OBVIOUS
  <2>3. at' = [at EXCEPT ![c] = "run"] /\ "run" \in Steps \ {"new", "queued", "start", "abandoned"}
        /\ UNCHANGED <<kind, cur, wire, downlink, up, reader, temps, placed, log>>
    BY <1>5 DEF RunScript, Step, Steps
  <2>. QED BY <2>1, <2>2, <2>3, <1>0, <1>3, LocalStep
<1>6. CASE Timeout(s)
  <2>1. procs' = [procs EXCEPT ![c] = KillProcessGroup(c)] /\ at' = [at EXCEPT ![c] = "killed"]
        /\ UNCHANGED <<kind, cur, wire, downlink, up, reader, temps, placed, log>>
    BY <1>6 DEF Timeout, Step
  <2>2. KillProcessGroup(c) \in SUBSET {"script", "child", "daemon"} /\ "script" \notin KillProcessGroup(c)
    BY DEF KillProcessGroup
  <2>3. "killed" \in Steps \ {"new", "queued", "start", "abandoned"}
    BY DEF Steps
  <2>. QED BY <2>1, <2>2, <2>3, <1>0, <1>3, LocalStep
<1>7. CASE RunScriptCommand(s)
  <2>1. procs[c] = {} /\ UNCHANGED <<downlink, at, temps, placed, procs>>
    BY <1>7 DEF RunScriptCommand
  <2>2. \/ at[c] = "exit0" /\ SendResult(s, c, "SUCCEEDED")
        \/ SendResult(s, c, "FAILED") \/ SendResult(s, c, "TIMED_OUT")
    BY <1>7 DEF RunScriptCommand, Handling
  <2>3. UNCHANGED kind
    BY <2>2 DEF SendResult, Send
  <2>4. at[c] = "exit0" => Done(c)'
    BY <2>1, <2>3, <1>0 DEF Done
  <2>5. {"SUCCEEDED", "FAILED", "TIMED_OUT"} \subseteq What
    BY DEF What
  <2>. QED BY <2>1, <2>2, <2>4, <2>5, <1>0, <1>3, ResultStep
<1>. QED BY <1>0, <1>4, <1>5, <1>6, <1>7 DEF Scripts

LEMMA PullSteps ==
  ASSUME ActTypeOK, HandlingOK, NEW s \in Stream, NEW c, reader[s] = c,
         PullRefused(s) \/ SendPull(s) \/ FilePullCommand(s)
  PROVE  c \in Cmd /\ ReadStep(s, c)
<1>1. c \in Cmd /\ kind[c] = "pull"
  BY DEF PullRefused, SendPull, FilePullCommand, Handling
<1>2. Need["pull"] = "eof" /\ Mark["pull"] = "read"
  BY DEF Need, Mark
<1>3. What = {"RECEIVED", "SUCCEEDED", "FAILED", "TIMED_OUT", "chunk", "eof"}
  BY DEF What
<1>4. CASE PullRefused(s)
  BY <1>1, <1>3, <1>4, ResultStep DEF PullRefused
<1>5. CASE SendPull(s)
  <2>1. at[c] \in {"start", "reading"} /\ UNCHANGED <<downlink, temps, placed, procs>>
    BY <1>5, <1>1 DEF SendPull, Handling
  <2>2. {"chunk", "eof"} \subseteq What \ {"SUCCEEDED"}
    BY DEF What
  <2>3. {"reading", "read"} \subseteq Steps \ {"new", "queued", "start", "abandoned", "run"}
    BY DEF Steps
  <2>4. \/ at' = [at EXCEPT ![c] = "reading"] /\ Send(s, c, "chunk", c)
        \/ at' = [at EXCEPT ![c] = "read"] /\ Send(s, c, "eof", c)
    BY <1>5 DEF SendPull, Step
  <2>5. CASE at' = [at EXCEPT ![c] = "reading"] /\ Send(s, c, "chunk", c)
    BY <1>1, <1>2, <2>1, <2>2, <2>3, <2>5, TellStep
  <2>6. CASE at' = [at EXCEPT ![c] = "read"] /\ Send(s, c, "eof", c)
    BY <1>1, <1>2, <2>1, <2>2, <2>3, <2>6, TellStep
  <2>. QED BY <1>1, <2>4, <2>5, <2>6
<1>6. CASE FilePullCommand(s)
  <2>1. at[c] = "read" /\ SendResult(s, c, "SUCCEEDED") /\ UNCHANGED <<downlink, at, temps, placed, procs, kind>>
    BY <1>6 DEF FilePullCommand, Handling, SendResult, Send
  <2>2. Done(c)'
    BY <1>1, <2>1 DEF Done
  <2>. QED BY <1>1, <1>2, <1>3, <2>1, <2>2, ResultStep
<1>. QED BY <1>4, <1>5, <1>6

LEMMA PushSteps ==
  ASSUME ActTypeOK, HandlingOK, NEW s \in Stream, NEW c, reader[s] = c,
         CreateTempFails(s) \/ InlinePush(s) \/ WriteFails(s) \/ WriteContent(s) \/ StartPush(s) \/ FilePushCommand(s)
  PROVE  c \in Cmd /\ ReadStep(s, c)
<1>1. c \in Cmd /\ kind[c] \in {"push", "chunked"}
  BY DEF CreateTempFails, InlinePush, WriteFails, WriteContent, StartPush, FilePushCommand, Handling
<1>2. kind[c] \notin DOMAIN Need
  BY <1>1 DEF Need
<1>3. What = {"RECEIVED", "SUCCEEDED", "FAILED", "TIMED_OUT", "chunk", "eof"}
  BY DEF What
<1>4. CASE CreateTempFails(s)
  BY <1>1, <1>3, <1>4, ResultStep DEF CreateTempFails
<1>5. CASE InlinePush(s) \/ StartPush(s)
  <2>1. PICK n \in {"written", "waiting"} : at' = [at EXCEPT ![c] = n]
    BY <1>5 DEF InlinePush, StartPush, Step
  <2>2. {"written", "waiting"} \subseteq Steps \ {"new", "queued", "start", "abandoned"}
    BY DEF Steps
  <2>3. /\ UNCHANGED <<kind, cur, wire, downlink, up, reader, placed, procs, log>>
        /\ temps' = temps \cup {c} /\ at[c] = "start"
    BY <1>5 DEF InlinePush, StartPush, Handling
  <2>4. procs' = [procs EXCEPT ![c] = procs[c]] /\ procs[c] \in SUBSET {"script", "child", "daemon"} /\ "script" \notin procs[c]
    BY <1>1, <2>3 DEF ActTypeOK, HandlingOK
  <2>5. temps' \ {c} = temps \ {c}
    BY <2>3
  <2>. QED BY <1>1, <1>2, <2>1, <2>2, <2>3, <2>4, <2>5, LocalStep
<1>6. CASE WriteFails(s)
  <2>1. temps' \ {c} = temps \ {c} /\ placed' \ {c} = placed \ {c}
    BY <1>6 DEF WriteFails
  <2>. QED BY <1>1, <1>3, <1>6, <2>1, ResultStep DEF WriteFails
<1>7. CASE WriteContent(s)
  <2>1. PICK status \in {"SUCCEEDED", "FAILED"} : SendResult(s, c, status)
    BY <1>7 DEF WriteContent, ParseMode
  <2>2. /\ temps' = temps \ {c} /\ placed' = placed \cup {c} /\ UNCHANGED <<downlink, at, procs, kind>>
    BY <1>7, <2>1 DEF WriteContent, SendResult, Send
  <2>3. temps' \ {c} = temps \ {c} /\ placed' \ {c} = placed \ {c}
    BY <2>2
  <2>4. Done(c)'
    BY <1>1, <2>2 DEF Done
  <2>. QED BY <1>1, <1>2, <1>3, <2>1, <2>2, <2>3, <2>4, ResultStep
<1>8. CASE FilePushCommand(s)
  <2>1. wire[s] # "up"
    BY <1>1, <1>8 DEF FilePushCommand, Handling, HandlingOK
  <2>. QED BY <1>1, <1>3, <1>8, <2>1, ResultStep DEF FilePushCommand
<1>. QED BY <1>4, <1>5, <1>6, <1>7, <1>8

\* --- A command is taken off its stream.
LEMMA HandleFacts ==
  ASSUME ActTypeOK, HandlingOK, NEW s \in Stream, HandleCommand(s), NEW c, c = Head(downlink[s])
  PROVE  /\ c \in Cmd /\ at[c] = "queued" /\ \A t \in Stream : reader[t] # c
         /\ at' = [at EXCEPT ![c] = "start"] /\ Sends(s, c, "RECEIVED") /\ wire[s] \notin {"new", "off"}
         /\ UNCHANGED <<kind, cur, wire, log, temps, placed, procs>>
         /\ \E x \in {c, Free, Gone} : reader' = [reader EXCEPT ![s] = x]
         /\ downlink' \in [Stream -> Seq(Cmd)] /\ \A t \in Stream \ {s} : downlink'[t] = downlink[t]
         /\ 1 \in DOMAIN downlink[s] /\ downlink[s][1] = c
         /\ \A i \in DOMAIN downlink'[s] : i \in Nat /\ i >= 1 /\ i + 1 \in DOMAIN downlink[s] /\ downlink'[s][i] = downlink[s][i + 1]
<1>1. /\ reader[s] = Free /\ wire[s] # "off" /\ downlink[s] # <<>> /\ downlink[s] \in Seq(Cmd)
      /\ downlink' = [downlink EXCEPT ![s] = Tail(downlink[s])] /\ at' = [at EXCEPT ![c] = "start"]
      /\ Send(s, c, "RECEIVED", c) /\ UNCHANGED <<temps, placed, procs>>
  BY DEF HandleCommand, ActTypeOK
<1>2. /\ c \in Cmd /\ c = downlink[s][1] /\ Tail(downlink[s]) \in Seq(Cmd) /\ 1 \in DOMAIN downlink[s]
      /\ DOMAIN downlink[s] = 1 .. Len(downlink[s]) /\ Len(downlink[s]) \in Nat
      /\ DOMAIN Tail(downlink[s]) = 1 .. Len(downlink[s]) - 1
      /\ \A i \in 1 .. Len(downlink[s]) - 1 : Tail(downlink[s])[i] = downlink[s][i + 1]
  BY <1>1, TailIs
<1>3. at[c] = "queued"
  BY <1>2 DEF HandlingOK
<1>4. \A t \in Stream : reader[t] # c
  BY <1>2, <1>3 DEF HandlingOK
<1>5. /\ downlink' \in [Stream -> Seq(Cmd)] /\ (\A t \in Stream \ {s} : downlink'[t] = downlink[t])
      /\ downlink'[s] = Tail(downlink[s])
  BY <1>1, <1>2 DEF ActTypeOK
<1>6. wire[s] # "new"
  BY <1>2 DEF HandlingOK
<1>7. "RECEIVED" \in What
  BY DEF What
<1>8. Sends(s, c, "RECEIVED") /\ UNCHANGED <<kind, cur, wire, log>>
      /\ \E x \in {c, Free, Gone} : reader' = [reader EXCEPT ![s] = x]
  BY <1>1, <1>2, <1>7, Sending
<1>9. \A i \in DOMAIN downlink'[s] : i \in Nat /\ i >= 1 /\ i + 1 \in DOMAIN downlink[s] /\ downlink'[s][i] = downlink[s][i + 1]
  BY <1>2, <1>5
<1>. QED BY <1>1, <1>2, <1>3, <1>4, <1>5, <1>6, <1>8, <1>9

LEMMA HandleKeeps ==
  ASSUME ActInv, NEW s \in Stream, HandleCommand(s) PROVE ActInv'
<1>. DEFINE h == Head(downlink[s])
<1>1. PICK c : c = h
  OBVIOUS
<1>. HIDE DEF h
<1>2. ActTypeOK /\ HandlingOK /\ OrderOK /\ \A d \in Cmd : Told(d) => Settled(d)
  BY DEF ActInv
<1>3. /\ c \in Cmd /\ at[c] = "queued" /\ \A t \in Stream : reader[t] # c
      /\ at' = [at EXCEPT ![c] = "start"] /\ Sends(s, c, "RECEIVED") /\ wire[s] \notin {"new", "off"}
      /\ UNCHANGED <<kind, cur, wire, log, temps, placed, procs>>
      /\ \E x \in {c, Free, Gone} : reader' = [reader EXCEPT ![s] = x]
      /\ downlink' \in [Stream -> Seq(Cmd)] /\ \A t \in Stream \ {s} : downlink'[t] = downlink[t]
      /\ 1 \in DOMAIN downlink[s] /\ downlink[s][1] = c
      /\ \A i \in DOMAIN downlink'[s] : i \in Nat /\ i >= 1 /\ i + 1 \in DOMAIN downlink[s] /\ downlink'[s][i] = downlink[s][i + 1]
  BY <1>1, <1>2, HandleFacts DEF h
<1>4. /\ at' \in [Cmd -> Steps] /\ at'[c] = "start" /\ \A d \in Cmd \ {c} : at'[d] = at[d]
  BY <1>2, <1>3 DEF ActTypeOK, Steps
<1>5. /\ reader' \in [Stream -> Cmd \cup {Free, Gone}] /\ \A t \in Stream \ {s} : reader'[t] = reader[t]
      /\ reader'[s] \in {c, Free, Gone} /\ {Free, Gone} \cap Cmd = {}
  BY <1>2, <1>3, ActAssumption DEF ActTypeOK
<1>6. "RECEIVED" \in What /\ "RECEIVED" # "SUCCEEDED"
  BY DEF What
<1>7. /\ up' \in [Stream -> Seq(Frame)]
      /\ \A t \in Stream : \A i \in DOMAIN up[t] : i \in DOMAIN up'[t] /\ up'[t][i] = up[t][i]
      /\ \A t \in Stream : \A i \in DOMAIN up'[t] :
           i \in DOMAIN up[t] \/ up'[t][i] = [cmd |-> c, what |-> "RECEIVED"]
      /\ \A t \in Stream \ {s} : up'[t] = up[t]
  BY <1>2, <1>3, <1>6, SendFacts
<1>8. ActTypeOK'
  BY <1>2, <1>3, <1>4, <1>5, <1>7 DEF ActTypeOK
<1>9. \A t \in Stream : \A i \in DOMAIN downlink'[t] :
        \E k \in DOMAIN downlink[t] : /\ downlink[t][k] = downlink'[t][i] /\ downlink[t][k] # c
                                      /\ k = IF t = s THEN i + 1 ELSE i
  <2>1. \A t \in Stream \ {s} : \A i \in DOMAIN downlink[t] : downlink[t][i] # c
    BY <1>2, <1>3 DEF HandlingOK
  <2>2. \A i \in DOMAIN downlink[s] : i \in Nat /\ (downlink[s][i] = c => i = 1)
    BY <1>2, <1>3 DEF HandlingOK, ActTypeOK
  <2>3. \A i \in DOMAIN downlink'[s] : i + 1 # 1
    BY <1>3
  <2>. QED BY <1>3, <2>1, <2>2, <2>3
<1>10. HandlingOK'
  <2>1. \A t \in Stream : \A i \in DOMAIN downlink'[t] : at'[downlink'[t][i]] = "queued" /\ wire[t] # "new"
    <3>1. \A t \in Stream : \A i \in DOMAIN downlink[t] : downlink[t][i] \in Cmd
      BY <1>2 DEF ActTypeOK
    <3>. QED BY <1>2, <1>4, <1>9, <3>1 DEF HandlingOK
  <2>2. \A t, r \in Stream : \A i \in DOMAIN downlink'[t], j \in DOMAIN downlink'[r] :
          downlink'[t][i] = downlink'[r][j] => t = r /\ i = j
    <3>. SUFFICES ASSUME NEW t \in Stream, NEW r \in Stream, NEW i \in DOMAIN downlink'[t], NEW j \in DOMAIN downlink'[r],
                         downlink'[t][i] = downlink'[r][j]
                  PROVE  t = r /\ i = j
      OBVIOUS
    <3>1. PICK k \in DOMAIN downlink[t] : downlink[t][k] = downlink'[t][i] /\ k = IF t = s THEN i + 1 ELSE i
      BY <1>9
    <3>2. PICK m \in DOMAIN downlink[r] : downlink[r][m] = downlink'[r][j] /\ m = IF r = s THEN j + 1 ELSE j
      BY <1>9
    <3>3. t = r /\ k = m
      BY <1>2, <3>1, <3>2 DEF HandlingOK
    <3>4. i \in Nat /\ j \in Nat
      BY <1>3 DEF ActTypeOK
    <3>. QED BY <3>1, <3>2, <3>3, <3>4
  <2>3. \A t \in Stream : reader'[t] \in Cmd => reader'[t] = reader[t] \/ (t = s /\ reader'[t] = c)
    BY <1>5
  <2>4. \A t \in Stream : reader'[t] \in Cmd =>
       /\ wire[t] # "new" /\ at'[reader'[t]] \notin {"new", "queued"}
       /\ at'[reader'[t]] = "abandoned" => wire[t] = "off"
    BY <1>2, <1>3, <1>4, <2>3 DEF HandlingOK
  <2>5. \A t, r \in Stream : reader'[t] \in Cmd /\ reader'[t] = reader'[r] => t = r
    BY <1>2, <1>3, <1>5, <2>3 DEF HandlingOK
  <2>6. \A d \in Cmd : "script" \in procs[d] => at'[d] = "run"
    BY <1>2, <1>3, <1>4 DEF HandlingOK
  <2>. QED BY <1>2, <1>3, <2>1, <2>2, <2>4, <2>5, <2>6 DEF HandlingOK
<1>11. \A d \in Cmd : Told(d)' => Settled(d)'
  <2>. SUFFICES ASSUME NEW d \in Cmd, Told(d)' PROVE Settled(d)'
    OBVIOUS
  <2>1. \A e : [cmd |-> e, what |-> "RECEIVED"] # [cmd |-> d, what |-> "SUCCEEDED"]
    OBVIOUS
  <2>2. Told(d)
    BY <1>3, <1>7, <2>1 DEF Told
  <2>3. Settled(d)
    BY <1>2, <2>2
  <2>4. d # c
    BY <1>3, <2>3 DEF Settled
  <2>5. \A t \in Stream : reader'[t] # d
    BY <1>5, <2>3, <2>4 DEF Settled
  <2>. QED BY <1>3, <1>4, <2>3, <2>4, <2>5 DEF Settled
<1>12. OrderOK'
  <2>1. \A t \in Stream : \A n, d : Before(t, n, d) => Before(t, n, d)'
    BY <1>3, <1>7 DEF Before
  <2>2. \A e : [cmd |-> e, what |-> "RECEIVED"].what # "SUCCEEDED"
    OBVIOUS
  <2>3. \A t \in Stream : \A i \in DOMAIN up'[t] :
          kind[up'[t][i].cmd] \in DOMAIN Need /\ up'[t][i].what = "SUCCEEDED" => Before(t, i, up[t][i].cmd)'
    <3>. SUFFICES ASSUME NEW t \in Stream, NEW i \in DOMAIN up'[t], NEW d, up'[t][i].cmd = d,
                         kind[d] \in DOMAIN Need, up'[t][i].what = "SUCCEEDED"
                  PROVE  Before(t, i, d)'
      BY DEF Before
    <3>1. i \in DOMAIN up[t] /\ up'[t][i] = up[t][i]
      BY <1>7, <2>2
    <3>2. Before(t, i, d)
      BY <1>2, <3>1 DEF OrderOK
    <3>. QED BY <2>1, <3>2
  <2>4. \A t \in Stream :
        reader'[t] \in Cmd /\ kind[reader'[t]] \in DOMAIN Need /\ at'[reader'[t]] = Mark[kind[reader'[t]]] /\ wire[t] = "up"
          => Before(t, Len(up[t]) + 1, reader[t])'
    <3>. SUFFICES ASSUME NEW t \in Stream, NEW d \in Cmd, reader'[t] = d, kind[d] \in DOMAIN Need, at'[d] = Mark[kind[d]],
                         wire[t] = "up", NEW n, n = Len(up'[t]) + 1
                  PROVE  Before(t, n, d)'
      BY DEF Before
    <3>1. Mark[kind[d]] # "start"
      BY DEF Need, Mark
    <3>2. d # c
      BY <1>4, <3>1
    <3>3. t # s /\ reader[t] = d /\ up'[t] = up[t] /\ at[d] = Mark[kind[d]]
      BY <1>4, <1>5, <1>7, <3>2
    <3>4. Before(t, n, d)
      BY <1>2, <3>3 DEF OrderOK
    <3>. QED BY <2>1, <3>4
  <2>5. \A d \in Cmd : kind[d] \in DOMAIN Need /\ "SUCCEEDED" \in ToSet(log[d]) => Need[kind[d]] \in ToSet(log[d])
    BY <1>2 DEF OrderOK
  <2>. QED BY <1>3, <2>3, <2>4, <2>5 DEF OrderOK
<1>. QED BY <1>8, <1>10, <1>11, <1>12 DEF ActInv

\* --- Steps that send nothing.
LEMMA TruthKept ==
  ASSUME \A d \in Cmd : Told(d) => Settled(d), UNCHANGED log,
         \A t \in Stream : up'[t] = up[t] \/ up'[t] = <<>>,
         \A d \in Cmd : Settled(d) => Settled(d)'
  PROVE  \A d \in Cmd : Told(d)' => Settled(d)'
<1>1. DOMAIN <<>> = {}
  OBVIOUS
<1>. QED BY <1>1 DEF Told

LEMMA OrderKept ==
  ASSUME OrderOK, UNCHANGED <<kind, log>>,
         \A t \in Stream : up'[t] = up[t] \/ (up'[t] = <<>> /\ wire'[t] # "up"),
         \A t \in Stream, d \in Cmd :
            reader'[t] = d /\ kind[d] \in DOMAIN Need /\ at'[d] = Mark[kind[d]] /\ wire'[t] = "up"
              => reader[t] = d /\ at[d] = Mark[kind[d]] /\ wire[t] = "up"
  PROVE  OrderOK'
<1>1. \A t \in Stream : up'[t] = up[t] => \A n, d : Before(t, n, d)' <=> Before(t, n, d)
  BY DEF Before
<1>2. \A t \in Stream : \A i \in DOMAIN up'[t] :
        kind[up'[t][i].cmd] \in DOMAIN Need /\ up'[t][i].what = "SUCCEEDED" => Before(t, i, up[t][i].cmd)'
  <2>. SUFFICES ASSUME NEW t \in Stream, NEW i \in DOMAIN up'[t], NEW d, up'[t][i].cmd = d,
                       kind[d] \in DOMAIN Need, up'[t][i].what = "SUCCEEDED"
                PROVE  Before(t, i, d)'
    BY DEF Before
  <2>1. DOMAIN <<>> = {}
    OBVIOUS
  <2>2. up'[t] = up[t]
    BY <2>1
  <2>3. Before(t, i, d)
    BY <2>2 DEF OrderOK
  <2>. QED BY <1>1, <2>2, <2>3
<1>3. \A t \in Stream :
      reader'[t] \in Cmd /\ kind[reader'[t]] \in DOMAIN Need /\ at'[reader'[t]] = Mark[kind[reader'[t]]] /\ wire'[t] = "up"
        => Before(t, Len(up[t]) + 1, reader[t])'
  <2>. SUFFICES ASSUME NEW t \in Stream, NEW d \in Cmd, reader'[t] = d, kind[d] \in DOMAIN Need, at'[d] = Mark[kind[d]],
                       wire'[t] = "up", NEW n, n = Len(up'[t]) + 1
                PROVE  Before(t, n, d)'
    BY DEF Before
  <2>1. up'[t] = up[t] /\ reader[t] = d /\ at[d] = Mark[kind[d]] /\ wire[t] = "up"
    OBVIOUS
  <2>2. Before(t, n, d)
    BY <2>1 DEF OrderOK
  <2>. QED BY <1>1, <2>1, <2>2
<1>4. \A d \in Cmd : kind[d] \in DOMAIN Need /\ "SUCCEEDED" \in ToSet(log[d]) => Need[kind[d]] \in ToSet(log[d])
  BY DEF OrderOK
<1>. QED BY <1>2, <1>3, <1>4 DEF OrderOK

\* --- Streams come and go.
LEMMA OpenKeeps ==
  ASSUME ActInv, NEW s \in Stream, OpenStream(s) PROVE ActInv'
<1>1. ActTypeOK /\ HandlingOK /\ OrderOK /\ \A d \in Cmd : Told(d) => Settled(d)
  BY DEF ActInv
<1>2. /\ cur = 0 /\ wire[s] = "new" /\ cur' = s /\ wire' = [wire EXCEPT ![s] = "up"] /\ reader' = [reader EXCEPT ![s] = Free]
      /\ UNCHANGED <<kind, downlink, up, at, temps, placed, procs, log>>
  BY DEF OpenStream
<1>3. wire \in [Stream -> {"new", "up", "cut", "off"}] /\ reader \in [Stream -> Cmd \cup {Free, Gone}] /\ Free \notin Cmd
  BY <1>1, ActAssumption DEF ActTypeOK
<1>4. /\ wire'[s] = "up" /\ reader'[s] = Free
      /\ \A t \in Stream \ {s} : wire'[t] = wire[t] /\ reader'[t] = reader[t]
  BY <1>2, <1>3
<1>5. ActTypeOK'
  <2>1. s \in Int
    BY DEF Stream
  <2>. QED BY <1>1, <1>2, <1>3, <2>1 DEF ActTypeOK
<1>6. HandlingOK'
  <2>0. \A t \in Stream : t # 0
    BY DEF Stream
  <2>1. \A t \in Stream : wire'[t] \in {"up", "cut"} => t = s
    BY <1>1, <1>2, <1>4, <2>0 DEF HandlingOK
  <2>2. \A t \in Stream : reader'[t] \in Cmd => t # s /\ reader'[t] = reader[t] /\ wire'[t] = wire[t]
    BY <1>3, <1>4
  <2>3. \A t \in Stream : wire'[t] = "new" => wire[t] = "new"
    BY <1>4
  <2>. QED BY <1>1, <1>2, <2>1, <2>2, <2>3 DEF HandlingOK
<1>7. \A d \in Cmd : Settled(d) => Settled(d)'
  BY <1>2, <1>3, <1>4 DEF Settled
<1>8. \A d \in Cmd : Told(d)' => Settled(d)'
  BY <1>1, <1>2, <1>7, TruthKept
<1>9. OrderOK'
  BY <1>1, <1>2, <1>3, <1>4, OrderKept
<1>. QED BY <1>5, <1>6, <1>8, <1>9 DEF ActInv

LEMMA CutKeeps ==
  ASSUME ActInv, NEW s \in Stream, Cut(s) PROVE ActInv'
<1>1. ActTypeOK /\ HandlingOK /\ OrderOK /\ \A d \in Cmd : Told(d) => Settled(d)
  BY DEF ActInv
<1>2. /\ wire[s] = "up" /\ wire' = [wire EXCEPT ![s] = "cut"]
      /\ UNCHANGED <<kind, cur, downlink, up, reader, at, temps, placed, procs, log>>
  BY DEF Cut
<1>3. wire'[s] = "cut" /\ \A t \in Stream \ {s} : wire'[t] = wire[t]
  BY <1>1, <1>2 DEF ActTypeOK
<1>4. ActTypeOK'
  BY <1>1, <1>2 DEF ActTypeOK
<1>5. HandlingOK'
  <2>1. \A t \in Stream : /\ wire'[t] \in {"up", "cut"} => wire[t] \in {"up", "cut"}
                          /\ wire'[t] = "new" <=> wire[t] = "new"
                          /\ wire'[t] = "off" <=> wire[t] = "off"
    BY <1>2, <1>3
  <2>. QED BY <1>1, <1>2, <2>1 DEF HandlingOK
<1>6. \A d \in Cmd : Settled(d) => Settled(d)'
  BY <1>2 DEF Settled
<1>7. \A d \in Cmd : Told(d)' => Settled(d)'
  BY <1>1, <1>2, <1>6, TruthKept
<1>8. OrderOK'
  BY <1>1, <1>2, <1>3, OrderKept
<1>. QED BY <1>4, <1>5, <1>7, <1>8 DEF ActInv

LEMMA SessionKeeps ==
  ASSUME ActInv, NEW s \in Stream, StreamSession(s) PROVE ActInv'
<1>1. ActTypeOK /\ HandlingOK /\ OrderOK /\ \A d \in Cmd : Told(d) => Settled(d)
  BY DEF ActInv
<1>2. /\ cur = s /\ cur' = 0 /\ wire' = [wire EXCEPT ![s] = "off"] /\ downlink' = [downlink EXCEPT ![s] = <<>>]
      /\ reader' = [reader EXCEPT ![s] = IF reader[s] = Free THEN Gone ELSE reader[s]]
      /\ at' = [c \in Cmd |-> IF at[c] = "waiting" THEN "abandoned" ELSE at[c]] /\ temps' = temps \ Pushes
      /\ UNCHANGED <<kind, up, placed, procs, log>>
  BY DEF StreamSession, AbandonAllPushes, Pushes
<1>3. /\ wire'[s] = "off" /\ DOMAIN downlink'[s] = {}
      /\ \A t \in Stream \ {s} : wire'[t] = wire[t] /\ downlink'[t] = downlink[t]
      /\ \A t \in Stream : reader'[t] = reader[t] \/ reader'[t] = Gone
      /\ \A c \in Cmd : at'[c] = at[c] \/ (at[c] = "waiting" /\ at'[c] = "abandoned")
  BY <1>1, <1>2 DEF ActTypeOK
<1>4. ActTypeOK'
  <2>1. at' \in [Cmd -> Steps] /\ temps' \in SUBSET Cmd
    BY <1>1, <1>2 DEF ActTypeOK, Steps
  <2>2. downlink' \in [Stream -> Seq(Cmd)]
    BY <1>1, <1>2 DEF ActTypeOK
  <2>3. wire' \in [Stream -> {"new", "up", "cut", "off"}] /\ reader' \in [Stream -> Cmd \cup {Free, Gone}]
    BY <1>1, <1>2 DEF ActTypeOK
  <2>. QED BY <1>1, <1>2, <2>1, <2>2, <2>3 DEF ActTypeOK
<1>5. Gone \notin Cmd
  BY ActAssumption
<1>6. HandlingOK'
  <2>1. \A t \in Stream : wire'[t] \notin {"up", "cut"}
    BY <1>1, <1>2, <1>3 DEF HandlingOK
  <2>2. \A t \in Stream : \A i \in DOMAIN downlink'[t] : /\ t # s /\ downlink'[t] = downlink[t] /\ wire'[t] = wire[t]
                                                         /\ at'[downlink[t][i]] = at[downlink[t][i]]
    <3>1. \A t \in Stream : \A i \in DOMAIN downlink[t] : downlink[t][i] \in Cmd /\ at[downlink[t][i]] = "queued"
      BY <1>1 DEF ActTypeOK, HandlingOK
    <3>. QED BY <1>3, <3>1
  <2>3. \A t \in Stream : reader'[t] \in Cmd => /\ reader'[t] = reader[t] /\ wire'[t] = "off"
                                                /\ at'[reader[t]] \notin {"new", "queued"}
    <3>1. \A t \in Stream : reader'[t] \in Cmd => reader'[t] = reader[t] /\ wire[t] # "new" /\ at[reader[t]] \notin {"new", "queued"}
      BY <1>1, <1>3, <1>5 DEF HandlingOK
    <3>2. wire' \in [Stream -> {"new", "up", "cut", "off"}]
      BY <1>4 DEF ActTypeOK
    <3>. QED BY <1>3, <2>1, <3>1, <3>2
  <2>4. \A d \in Cmd : "script" \in procs[d] => at'[d] = "run"
    BY <1>1, <1>3 DEF HandlingOK
  <2>. QED BY <1>1, <1>2, <2>1, <2>2, <2>3, <2>4 DEF HandlingOK
<1>7. \A d \in Cmd : Settled(d) => Settled(d)'
  <2>. SUFFICES ASSUME NEW d \in Cmd, Settled(d) PROVE Settled(d)'
    OBVIOUS
  <2>1. at'[d] \notin {"new", "queued"} /\ (at[d] \in {"exit0"} => at'[d] = at[d])
    BY <1>3 DEF Settled
  <2>2. \A t \in Stream : reader'[t] # d
    BY <1>3, <1>5 DEF Settled
  <2>3. d \notin temps => d \notin temps'
    BY <1>2
  <2>. QED BY <1>2, <2>1, <2>2, <2>3 DEF Settled
<1>8. \A d \in Cmd : Told(d)' => Settled(d)'
  BY <1>1, <1>2, <1>7, TruthKept
<1>9. OrderOK'
  <2>1. \A k \in DOMAIN Need : Mark[k] # "abandoned"
    BY DEF Need, Mark
  <2>2. \A t \in Stream : wire'[t] # "up"
    BY <1>1, <1>2, <1>3 DEF HandlingOK
  <2>. QED BY <1>1, <1>2, <2>2, OrderKept
<1>. QED BY <1>4, <1>6, <1>8, <1>9 DEF ActInv

LEMMA DispatchKeeps ==
  ASSUME ActInv, NEW s \in Stream, NEW c \in Cmd, DispatchCommand(c, s) PROVE ActInv'
<1>1. ActTypeOK /\ HandlingOK /\ OrderOK /\ \A d \in Cmd : Told(d) => Settled(d)
  BY DEF ActInv
<1>2. /\ at[c] = "new" /\ wire[s] = "up" /\ at' = [at EXCEPT ![c] = "queued"]
      /\ downlink' = [downlink EXCEPT ![s] = Append(downlink[s], c)]
      /\ UNCHANGED <<kind, cur, wire, up, reader, temps, placed, procs, log>>
  BY DEF DispatchCommand
<1>3. /\ downlink[s] \in Seq(Cmd) /\ Append(downlink[s], c) \in Seq(Cmd) /\ Len(downlink[s]) \in Nat
      /\ DOMAIN downlink[s] = 1 .. Len(downlink[s]) /\ DOMAIN Append(downlink[s], c) = 1 .. Len(downlink[s]) + 1
      /\ \A i \in 1 .. Len(downlink[s]) : Append(downlink[s], c)[i] = downlink[s][i]
      /\ Append(downlink[s], c)[Len(downlink[s]) + 1] = c
  <2>1. downlink[s] \in Seq(Cmd)
    BY <1>1 DEF ActTypeOK
  <2>. QED BY <2>1, AppendIs
<1>4. /\ at' \in [Cmd -> Steps] /\ at'[c] = "queued" /\ \A d \in Cmd \ {c} : at'[d] = at[d]
  BY <1>1, <1>2 DEF ActTypeOK, Steps
<1>5. /\ downlink' \in [Stream -> Seq(Cmd)] /\ (\A t \in Stream \ {s} : downlink'[t] = downlink[t])
      /\ downlink'[s] = Append(downlink[s], c)
  BY <1>1, <1>2, <1>3 DEF ActTypeOK
<1>6. \A t \in Stream : \A i \in DOMAIN downlink'[t] :
        \/ i \in DOMAIN downlink[t] /\ downlink'[t][i] = downlink[t][i] /\ downlink[t][i] \in Cmd \ {c}
        \/ t = s /\ i = Len(downlink[s]) + 1 /\ downlink'[t][i] = c
  <2>1. \A t \in Stream : \A i \in DOMAIN downlink[t] : downlink[t][i] \in Cmd \ {c}
    BY <1>1, <1>2 DEF HandlingOK, ActTypeOK
  <2>. QED BY <1>3, <1>5, <2>1
<1>7. ActTypeOK'
  BY <1>1, <1>2, <1>4, <1>5 DEF ActTypeOK
<1>8. \A t \in Stream : reader[t] # c
  BY <1>1, <1>2 DEF HandlingOK
<1>9. HandlingOK'
  <2>1. \A t \in Stream : \A i \in DOMAIN downlink'[t] : at'[downlink'[t][i]] = "queued" /\ wire[t] # "new"
    BY <1>1, <1>2, <1>4, <1>6 DEF HandlingOK
  <2>2. \A t, r \in Stream : \A i \in DOMAIN downlink'[t], j \in DOMAIN downlink'[r] :
          downlink'[t][i] = downlink'[r][j] => t = r /\ i = j
    BY <1>1, <1>6 DEF HandlingOK
  <2>3. \A t \in Stream : reader[t] \in Cmd => at'[reader[t]] = at[reader[t]]
    BY <1>4, <1>8
  <2>4. \A d \in Cmd : "script" \in procs[d] => at'[d] = "run"
    BY <1>1, <1>2, <1>4 DEF HandlingOK
  <2>. QED BY <1>1, <1>2, <2>1, <2>2, <2>3, <2>4 DEF HandlingOK
<1>10. \A d \in Cmd : Settled(d) => Settled(d)'
  BY <1>2, <1>4 DEF Settled
<1>11. \A d \in Cmd : Told(d)' => Settled(d)'
  BY <1>1, <1>2, <1>10, TruthKept
<1>12. OrderOK'
  <2>1. \A k \in DOMAIN Need : Mark[k] # "queued"
    BY DEF Need, Mark
  <2>. QED BY <1>1, <1>2, <1>4, <2>1, OrderKept
<1>. QED BY <1>7, <1>9, <1>11, <1>12 DEF ActInv

\* --- Processes end by themselves.
LEMMA ExitKeeps ==
  ASSUME ActInv, NEW c \in Cmd, ScriptExits(c) \/ ChildExits(c) PROVE ActInv'
<1>1. ActTypeOK /\ HandlingOK /\ OrderOK /\ \A d \in Cmd : Told(d) => Settled(d)
  BY DEF ActInv
<1>2. UNCHANGED <<kind, cur, wire, downlink, up, reader, temps, placed, log>>
  BY DEF ScriptExits, ChildExits
<1>3. \E p \in {"script", "child", "daemon"} :
        /\ p \in procs[c] /\ procs' = [procs EXCEPT ![c] = procs[c] \ {p}]
        /\ \/ at' = at /\ p # "script"
           \/ p = "script" /\ \E code \in {"exit0", "exit1"} : at' = [at EXCEPT ![c] = code]
  BY DEF ScriptExits, ChildExits, Step
<1>4. PICK p \in {"script", "child", "daemon"} :
        /\ p \in procs[c] /\ procs' = [procs EXCEPT ![c] = procs[c] \ {p}]
        /\ \/ at' = at /\ p # "script"
           \/ p = "script" /\ \E code \in {"exit0", "exit1"} : at' = [at EXCEPT ![c] = code]
  BY <1>3
<1>5. /\ procs' \in [Cmd -> SUBSET {"script", "child", "daemon"}] /\ procs'[c] = procs[c] \ {p}
      /\ \A d \in Cmd \ {c} : procs'[d] = procs[d]
  BY <1>1, <1>4 DEF ActTypeOK
<1>6. /\ at' \in [Cmd -> Steps] /\ \A d \in Cmd \ {c} : at'[d] = at[d]
      /\ at'[c] = at[c] \/ (at[c] = "run" /\ p = "script" /\ at'[c] \in {"exit0", "exit1"})
  <2>1. p = "script" => at[c] = "run"
    BY <1>1, <1>4 DEF HandlingOK
  <2>. QED BY <1>1, <1>4, <2>1 DEF ActTypeOK, Steps
<1>7. ActTypeOK'
  BY <1>1, <1>2, <1>5, <1>6 DEF ActTypeOK
<1>8. HandlingOK'
  <2>1. \A t \in Stream : \A i \in DOMAIN downlink[t] : downlink[t][i] \in Cmd /\ at[downlink[t][i]] = "queued"
    BY <1>1 DEF HandlingOK, ActTypeOK
  <2>2. \A t \in Stream : \A i \in DOMAIN downlink[t] : at'[downlink[t][i]] = "queued"
    BY <1>6, <2>1
  <2>3. \A d \in Cmd : /\ at'[d] \in {"new", "queued", "abandoned"} => at'[d] = at[d]
    BY <1>6
  <2>4. \A d \in Cmd : "script" \in procs'[d] => at'[d] = "run"
    <3>1. "script" \in procs'[c] => p # "script" /\ "script" \in procs[c]
      BY <1>5
    <3>2. \A d \in Cmd : "script" \in procs[d] => at[d] = "run"
      BY <1>1 DEF HandlingOK
    <3>. QED BY <1>5, <1>6, <3>1, <3>2
  <2>. QED BY <1>1, <1>2, <2>2, <2>3, <2>4 DEF HandlingOK
<1>9. \A d \in Cmd : Settled(d) => Settled(d)'
  <2>. SUFFICES ASSUME NEW d \in Cmd, Settled(d) PROVE Settled(d)'
    OBVIOUS
  <2>1. at'[d] \notin {"new", "queued"} /\ (at[d] \in {"exit0"} => at'[d] = at[d])
    BY <1>6 DEF Settled
  <2>2. procs[d] = {} => procs'[d] = {}
    BY <1>5
  <2>. QED BY <1>2, <2>1, <2>2 DEF Settled
<1>10. \A d \in Cmd : Told(d)' => Settled(d)'
  BY <1>1, <1>2, <1>9, TruthKept
<1>11. OrderOK'
  <2>1. \A k \in DOMAIN Need : Mark[k] \notin {"exit0", "exit1"}
    BY DEF Need, Mark
  <2>. QED BY <1>1, <1>2, <1>6, <2>1, OrderKept
<1>. QED BY <1>7, <1>8, <1>10, <1>11 DEF ActInv

\* --- The server's end.
LEMMA EndsKeeps ==
  ASSUME ActInv, NEW s \in Stream, HandlerEnds(s) PROVE ActInv'
<1>1. ActTypeOK /\ HandlingOK /\ OrderOK /\ \A d \in Cmd : Told(d) => Settled(d)
  BY DEF ActInv
<1>2. /\ wire[s] \in {"cut", "off"} /\ up' = [up EXCEPT ![s] = <<>>]
      /\ UNCHANGED <<kind, cur, wire, downlink, reader, at, temps, placed, procs, log>>
  BY DEF HandlerEnds
<1>3. /\ up' \in [Stream -> Seq(Frame)] /\ up'[s] = <<>> /\ \A t \in Stream \ {s} : up'[t] = up[t]
  BY <1>1, <1>2 DEF ActTypeOK
<1>5. ActTypeOK'
  BY <1>1, <1>2, <1>3 DEF ActTypeOK
<1>6. HandlingOK'
  BY <1>1, <1>2 DEF HandlingOK
<1>7. \A d \in Cmd : Settled(d) => Settled(d)'
  BY <1>2 DEF Settled
<1>8. \A d \in Cmd : Told(d)' => Settled(d)'
  BY <1>1, <1>2, <1>3, <1>7, TruthKept
<1>9. OrderOK'
  BY <1>1, <1>2, <1>3, OrderKept
<1>. QED BY <1>5, <1>6, <1>8, <1>9 DEF ActInv

LEMMA RecvKeeps ==
  ASSUME ActInv, NEW s \in Stream, Recv(s) PROVE ActInv'
<1>1. ActTypeOK /\ HandlingOK /\ OrderOK /\ \A d \in Cmd : Told(d) => Settled(d)
  BY DEF ActInv
<1>2. PICK f : f = Head(up[s])
  OBVIOUS
<1>3. /\ up[s] # <<>> /\ log' = [log EXCEPT ![f.cmd] = Append(log[f.cmd], f.what)] /\ up' = [up EXCEPT ![s] = Tail(up[s])]
      /\ UNCHANGED <<kind, cur, wire, downlink, reader, at, temps, placed, procs>>
  BY <1>2 DEF Recv
<1>4. /\ f \in Frame /\ f = up[s][1] /\ Tail(up[s]) \in Seq(Frame) /\ Len(Tail(up[s])) = Len(up[s]) - 1
      /\ DOMAIN up[s] = 1 .. Len(up[s]) /\ Len(up[s]) \in Nat /\ Len(up[s]) >= 1 /\ 1 \in DOMAIN up[s]
      /\ DOMAIN Tail(up[s]) = 1 .. Len(up[s]) - 1
      /\ \A i \in 1 .. Len(up[s]) - 1 : Tail(up[s])[i] = up[s][i + 1]
  <2>1. up[s] \in Seq(Frame)
    BY <1>1 DEF ActTypeOK
  <2>. QED BY <1>2, <1>3, <2>1, TailIs
<1>5. f.cmd \in Cmd /\ f.what \in What /\ f = [cmd |-> f.cmd, what |-> f.what]
  BY <1>4 DEF Frame
<1>6. /\ up' \in [Stream -> Seq(Frame)] /\ (\A t \in Stream \ {s} : up'[t] = up[t]) /\ up'[s] = Tail(up[s])
  BY <1>1, <1>3, <1>4 DEF ActTypeOK
<1>7. /\ log' \in [Cmd -> Seq(What)] /\ (\A d \in Cmd \ {f.cmd} : log'[d] = log[d])
      /\ ToSet(log'[f.cmd]) = ToSet(log[f.cmd]) \cup {f.what}
  <2>1. log \in [Cmd -> Seq(What)] /\ log[f.cmd] \in Seq(What)
    BY <1>1, <1>5 DEF ActTypeOK
  <2>2. Append(log[f.cmd], f.what) \in Seq(What) /\ ToSet(Append(log[f.cmd], f.what)) = ToSet(log[f.cmd]) \cup {f.what}
    BY <1>5, <2>1, AppendIs
  <2>. QED BY <1>3, <1>5, <2>1, <2>2
<1>9. ActTypeOK'
  BY <1>1, <1>3, <1>6, <1>7 DEF ActTypeOK
<1>10. HandlingOK'
  BY <1>1, <1>3 DEF HandlingOK
<1>11. \A t \in Stream : \A i \in DOMAIN up'[t] :
         \/ t # s /\ i \in DOMAIN up[t] /\ up'[t][i] = up[t][i]
         \/ t = s /\ i \in Nat /\ i >= 1 /\ i + 1 \in DOMAIN up[t] /\ up'[t][i] = up[t][i + 1]
  <2>1. \A i \in DOMAIN up'[s] : i \in Nat /\ i >= 1 /\ i + 1 \in DOMAIN up[s] /\ up'[s][i] = up[s][i + 1]
    BY <1>4, <1>6
  <2>. QED BY <1>6, <2>1
<1>12. \A d \in Cmd : Told(d)' => Settled(d)'
  <2>. SUFFICES ASSUME NEW d \in Cmd, Told(d)' PROVE Settled(d)'
    OBVIOUS
  <2>1. CASE "SUCCEEDED" \in ToSet(log'[d])
    <3>1. "SUCCEEDED" \in ToSet(log[d]) \/ (d = f.cmd /\ f.what = "SUCCEEDED")
      BY <1>7, <2>1
    <3>2. Told(d)
      BY <1>4, <1>5, <3>1 DEF Told
    <3>. QED BY <1>1, <1>3, <3>2 DEF Settled
  <2>2. CASE \E t \in Stream : \E i \in DOMAIN up'[t] : up'[t][i] = [cmd |-> d, what |-> "SUCCEEDED"]
    <3>1. Told(d)
      BY <1>11, <2>2 DEF Told
    <3>. QED BY <1>1, <1>3, <3>1 DEF Settled
  <2>. QED BY <2>1, <2>2 DEF Told
<1>13. OrderOK'
  <2>1. ASSUME NEW t \in Stream, NEW n \in Nat, NEW d \in Cmd, Before(t, IF t = s THEN n + 1 ELSE n, d) PROVE Before(t, n, d)'
    <3>1. CASE Need[kind[d]] \in ToSet(log[d])
      <4>1. Need[kind[d]] \in ToSet(log'[d])
        BY <1>7, <3>1
      <4>. QED BY <1>3, <4>1 DEF Before
    <3>2. CASE \E j \in DOMAIN up[t] : j < (IF t = s THEN n + 1 ELSE n) /\ up[t][j] = [cmd |-> d, what |-> Need[kind[d]]]
      <4>1. PICK j \in DOMAIN up[t] : j < (IF t = s THEN n + 1 ELSE n) /\ up[t][j] = [cmd |-> d, what |-> Need[kind[d]]]
        BY <3>2
      <4>2. CASE t # s
        BY <1>3, <1>6, <4>1, <4>2 DEF Before
      <4>3. CASE t = s /\ j = 1
        <5>1. f.cmd = d /\ f.what = Need[kind[d]]
          BY <1>4, <4>1, <4>3
        <5>. QED BY <1>3, <1>7, <5>1 DEF Before
      <4>4. CASE t = s /\ j # 1
        <5>1. j - 1 \in DOMAIN up'[s] /\ up'[s][j - 1] = up[s][j] /\ j - 1 < n
          BY <1>4, <1>6, <4>1, <4>4
        <5>. QED BY <1>3, <4>1, <4>4, <5>1 DEF Before
      <4>. QED BY <4>2, <4>3, <4>4
    <3>. QED BY <2>1, <3>1, <3>2 DEF Before
  <2>2. \A t \in Stream : \A i \in DOMAIN up'[t] :
          kind[up'[t][i].cmd] \in DOMAIN Need /\ up'[t][i].what = "SUCCEEDED" => Before(t, i, up[t][i].cmd)'
    <3>. SUFFICES ASSUME NEW t \in Stream, NEW i \in DOMAIN up'[t], NEW d, up'[t][i].cmd = d,
                         kind[d] \in DOMAIN Need, up'[t][i].what = "SUCCEEDED"
                  PROVE  Before(t, i, d)'
      BY DEF Before
    <3>1. i \in Nat /\ d \in Cmd
      <4>1. up'[t] \in Seq(Frame)
        BY <1>6
      <4>2. i \in Nat /\ up'[t][i] \in Frame
        BY <4>1
      <4>. QED BY <4>2 DEF Frame
    <3>2. PICK k \in DOMAIN up[t] : k = (IF t = s THEN i + 1 ELSE i) /\ up[t][k] = up'[t][i]
      BY <1>11
    <3>3. Before(t, k, d)
      BY <1>1, <3>2 DEF OrderOK
    <3>. QED BY <2>1, <3>1, <3>2, <3>3
  <2>0. UNCHANGED <<kind, reader>>
    BY <1>3
  <2>3. \A t \in Stream :
        reader[t] \in Cmd /\ kind[reader[t]] \in DOMAIN Need /\ at[reader[t]] = Mark[kind[reader[t]]] /\ wire[t] = "up"
          => Before(t, Len(up[t]) + 1, reader[t])'
    <3>. SUFFICES ASSUME NEW t \in Stream, NEW d \in Cmd, reader[t] = d, kind[d] \in DOMAIN Need, at[d] = Mark[kind[d]],
                         wire[t] = "up", NEW n, n = Len(up'[t]) + 1
                  PROVE  Before(t, n, d)'
      BY <2>0 DEF Before
    <3>1. n \in Nat /\ (IF t = s THEN n + 1 ELSE n) = Len(up[t]) + 1
      BY <1>4, <1>6
    <3>2. Before(t, Len(up[t]) + 1, d)
      BY <1>1 DEF OrderOK
    <3>. QED BY <2>1, <3>1, <3>2
  <2>4. \A d \in Cmd : kind[d] \in DOMAIN Need /\ "SUCCEEDED" \in ToSet(log'[d]) => Need[kind[d]] \in ToSet(log'[d])
    <3>. SUFFICES ASSUME NEW d \in Cmd, kind[d] \in DOMAIN Need, "SUCCEEDED" \in ToSet(log'[d])
                  PROVE  Need[kind[d]] \in ToSet(log'[d])
      OBVIOUS
    <3>1. CASE "SUCCEEDED" \in ToSet(log[d])
      BY <1>1, <1>7, <3>1 DEF OrderOK
    <3>2. CASE "SUCCEEDED" \notin ToSet(log[d])
      <4>1. d = f.cmd /\ f.what = "SUCCEEDED"
        BY <1>7, <3>2
      <4>2. Before(s, 1, d)
        BY <1>1, <1>4, <4>1 DEF OrderOK
      <4>3. Need[kind[d]] \in ToSet(log[d])
        BY <1>4, <4>2 DEF Before
      <4>. QED BY <1>7, <4>3
    <3>. QED BY <3>1, <3>2
  <2>. QED BY <1>3, <2>2, <2>3, <2>4 DEF OrderOK
<1>. QED BY <1>9, <1>10, <1>12, <1>13 DEF ActInv

LEMMA ActInitInv == ActInit => ActInv
<1>. SUFFICES ASSUME ActInit PROVE ActInv
  OBVIOUS
<1>1. /\ kind \in [Cmd -> ForAction] /\ cur = 0 /\ wire = [s \in Stream |-> "new"]
      /\ downlink = [s \in Stream |-> <<>>] /\ up = [s \in Stream |-> <<>>]
      /\ reader = [s \in Stream |-> Gone] /\ at = [c \in Cmd |-> "new"]
      /\ temps = {} /\ placed = {} /\ procs = [c \in Cmd |-> {}]
      /\ log = [c \in Cmd |-> <<>>]
  BY DEF ActInit
<1>2. DOMAIN <<>> = {} /\ (\A S : <<>> \in Seq(S)) /\ ToSet(<<>>) = {} /\ Gone \notin Cmd
  BY ActAssumption DEF ToSet
<1>3. ActTypeOK
  BY <1>1, <1>2 DEF ActTypeOK, Steps
<1>4. HandlingOK
  BY <1>1, <1>2 DEF HandlingOK
<1>5. \A c \in Cmd : ~Told(c)
  BY <1>1, <1>2 DEF Told
<1>6. OrderOK
  BY <1>1, <1>2 DEF OrderOK
<1>. QED BY <1>3, <1>4, <1>5, <1>6 DEF ActInv

LEMMA ActInvariant == ActSpec => []ActInv
<1>1. ActInv /\ [ActNext]_actVars => ActInv'
  <2>. SUFFICES ASSUME ActInv, [ActNext]_actVars PROVE ActInv'
    OBVIOUS
  <2>1. ActTypeOK /\ HandlingOK
    BY DEF ActInv
  <2>2. ASSUME NEW s \in Stream, Reading(s) PROVE ActInv'
    <3>1. CASE HandleCommand(s)
      BY <3>1, HandleKeeps
    <3>2. ASSUME Scripts(s) \/ Files(s) PROVE ActInv'
      <4>1. PICK c : c = reader[s]
        OBVIOUS
      <4>2. c \in Cmd /\ ReadStep(s, c)
        BY <2>1, <3>2, <4>1, ScriptSteps, PullSteps, PushSteps DEF Files
      <4>. QED BY <4>2, ReadKeeps
    <3>. QED BY <2>2, <3>1, <3>2 DEF Reading
  <2>4. CASE UNCHANGED actVars
    <3>1. ActTypeOK' /\ HandlingOK' /\ OrderOK'
      BY <2>4 DEF ActInv, actVars, ActTypeOK, HandlingOK, OrderOK, Before
    <3>2. \A d \in Cmd : Told(d)' => Settled(d)'
      BY <2>4 DEF ActInv, actVars, Told, Settled
    <3>. QED BY <3>1, <3>2 DEF ActInv
  <2>. QED BY <2>2, <2>4, EndsKeeps, RecvKeeps, OpenKeeps, CutKeeps, SessionKeeps, DispatchKeeps, ExitKeeps DEF ActNext
<1>. QED BY ActInitInv, <1>1, PTL DEF ActSpec

\* handleCommand (SucceededIsTrue): a success the server has handled is true,
\* through dropped streams, lost frames and two readers at once; a push that
\* the end of its stream abandons never gets its success out.
THEOREM SuccessIsTrue == ActSpec => []SucceededIsTrue
<1>1. ActInv => SucceededIsTrue
  <2>. SUFFICES ASSUME ActInv, NEW c \in Cmd, "SUCCEEDED" \in ToSet(log[c]) PROVE Effect(c)
    BY DEF SucceededIsTrue
  <2>1. kind[c] \in ForAction
    BY DEF ActInv, ActTypeOK
  <2>2. Settled(c)
    BY DEF ActInv, Told
  <2>3. kind[c] = "pull" => "eof" \in ToSet(log[c])
    BY DEF ActInv, OrderOK, Need
  <2>. QED BY <2>1, <2>2, <2>3 DEF Effect, Settled, ForAction, BuildCommandAction
<1>. QED BY ActInvariant, <1>1, PTL

\* --- A command is at a step of its kind; a killed script has lost its group.
KindOK(c) ==
  /\ at[c] \in {"new", "queued", "killed", "waiting"} \cup Onward[kind[c]]
  /\ at[c] = "waiting" => kind[c] = "chunked"
  /\ at[c] = "killed" => kind[c] = "script" /\ procs[c] \subseteq {"daemon"}

LEMMA OnwardIs ==
  /\ Onward["script"] = {"start", "run", "exit0", "exit1"} /\ Onward["pull"] = {"start", "reading", "read"}
  /\ Onward["push"] = {"start", "written"} /\ Onward["chunked"] = {"start", "abandoned"}
BY DEF Onward

LEMMA KindKept ==
  ASSUME NEW c \in Cmd, KindOK(c), UNCHANGED kind, at'[c] = at[c], procs'[c] \subseteq procs[c] PROVE KindOK(c)'
BY DEF KindOK

LEMMA KindMoved ==
  ASSUME ActTypeOK, NEW c \in Cmd, UNCHANGED kind, at'[c] \in {"new", "queued"} \cup Onward[kind[c]] PROVE KindOK(c)'
<1>1. kind[c] \in ForAction
  BY DEF ActTypeOK
<1>2. at'[c] \notin {"waiting", "killed"}
  BY <1>1, OnwardIs DEF ForAction, BuildCommandAction
<1>. QED BY <1>2 DEF KindOK

\* What the reader of s does leaves the other commands where they are.
LEMMA KindOfOne ==
  ASSUME ActTypeOK, \A d \in Cmd : KindOK(d), NEW c \in Cmd, UNCHANGED kind, KindOK(c)',
         at' \in {[at EXCEPT ![c] = n] : n \in Steps}, \A d \in Cmd \ {c} : procs'[d] \subseteq procs[d]
  PROVE  \A d \in Cmd : KindOK(d)'
<1>1. \A d \in Cmd \ {c} : at'[d] = at[d]
  BY DEF ActTypeOK
<1>. QED BY <1>1, KindKept

LEMMA KindStep ==
  ASSUME ActTypeOK, \A d \in Cmd : KindOK(d), NEW c \in Cmd, UNCHANGED kind, UNCHANGED procs,
         NEW n \in Steps, n \in {"new", "queued"} \cup Onward[kind[c]], at' = [at EXCEPT ![c] = n]
  PROVE  \A d \in Cmd : KindOK(d)'
<1>1. at'[c] = n
  BY DEF ActTypeOK
<1>. QED BY <1>1, KindMoved, KindOfOne

LEMMA KindAtRest ==
  ASSUME \A d \in Cmd : KindOK(d), UNCHANGED <<kind, at, procs>> PROVE \A d \in Cmd : KindOK(d)'
BY KindKept

LEMMA ScriptKinds ==
  ASSUME ActTypeOK, \A d \in Cmd : KindOK(d), NEW s \in Stream, Scripts(s) PROVE \A d \in Cmd : KindOK(d)'
<1>1. CASE InterpreterMissing(s) \/ RunScriptCommand(s)
  BY <1>1, KindAtRest DEF InterpreterMissing, RunScriptCommand, SendResult, Send
<1>2. CASE RunScript(s)
  <2>1. PICK c \in Cmd, more \in SUBSET {"child", "daemon"} :
          /\ kind[c] = "script" /\ at' = [at EXCEPT ![c] = "run"] /\ UNCHANGED kind
          /\ procs' = [procs EXCEPT ![c] = {"script"} \cup more]
    BY <1>2 DEF RunScript, Handling, Step
  <2>2. at'[c] = "run" /\ "run" \in Steps /\ \A d \in Cmd \ {c} : procs'[d] = procs[d]
    BY <2>1 DEF ActTypeOK, Steps
  <2>3. KindOK(c)'
    BY <2>1, <2>2, OnwardIs, KindMoved
  <2>. QED BY <2>1, <2>2, <2>3, KindOfOne
<1>3. CASE Timeout(s)
  <2>1. PICK c \in Cmd : /\ kind[c] = "script" /\ at' = [at EXCEPT ![c] = "killed"] /\ UNCHANGED kind
                         /\ procs' = [procs EXCEPT ![c] = KillProcessGroup(c)]
    BY <1>3 DEF Timeout, Handling, Step
  <2>2. at'[c] = "killed" /\ "killed" \in Steps /\ procs'[c] \subseteq {"daemon"} /\ \A d \in Cmd \ {c} : procs'[d] = procs[d]
    BY <2>1 DEF ActTypeOK, Steps, KillProcessGroup
  <2>3. KindOK(c)'
    BY <2>1, <2>2 DEF KindOK
  <2>. QED BY <2>1, <2>2, <2>3, KindOfOne
<1>. QED BY <1>1, <1>2, <1>3 DEF Scripts

LEMMA FileKinds ==
  ASSUME ActTypeOK, \A d \in Cmd : KindOK(d), NEW s \in Stream, Files(s) PROVE \A d \in Cmd : KindOK(d)'
<1>1. CASE PullRefused(s) \/ FilePullCommand(s) \/ CreateTempFails(s) \/ WriteFails(s) \/ WriteContent(s) \/ FilePushCommand(s)
  BY <1>1, KindAtRest DEF PullRefused, FilePullCommand, CreateTempFails, WriteFails, WriteContent, FilePushCommand, SendResult, Send
<1>2. CASE SendPull(s)
  <2>1. PICK c \in Cmd, n \in {"reading", "read"} : kind[c] = "pull" /\ at' = [at EXCEPT ![c] = n] /\ UNCHANGED <<kind, procs>>
    BY <1>2 DEF SendPull, Handling, Step, Send
  <2>2. n \in Steps /\ n \in Onward[kind[c]]
    BY <2>1, OnwardIs DEF Steps
  <2>. QED BY <2>1, <2>2, KindStep
<1>3. CASE InlinePush(s)
  <2>1. PICK c \in Cmd : kind[c] = "push" /\ at' = [at EXCEPT ![c] = "written"] /\ UNCHANGED <<kind, procs>>
    BY <1>3 DEF InlinePush, Handling, Step
  <2>2. "written" \in Steps /\ "written" \in Onward[kind[c]]
    BY <2>1, OnwardIs DEF Steps
  <2>. QED BY <2>1, <2>2, KindStep
<1>4. CASE StartPush(s)
  <2>1. PICK c \in Cmd : kind[c] = "chunked" /\ at' = [at EXCEPT ![c] = "waiting"] /\ UNCHANGED <<kind, procs>>
    BY <1>4 DEF StartPush, Handling, Step
  <2>2. at'[c] = "waiting" /\ "waiting" \in Steps
    BY <2>1 DEF ActTypeOK, Steps
  <2>3. KindOK(c)'
    BY <2>1, <2>2 DEF KindOK
  <2>. QED BY <2>1, <2>2, <2>3, KindOfOne
<1>. QED BY <1>1, <1>2, <1>3, <1>4 DEF Files

LEMMA KindInvariant == ActSpec => [](\A c \in Cmd : KindOK(c))
<1>1. ActInit => \A c \in Cmd : KindOK(c)
  BY DEF ActInit, KindOK
<1>2. ActInv /\ (\A c \in Cmd : KindOK(c)) /\ [ActNext]_actVars => (\A c \in Cmd : KindOK(c))'
  <2>. SUFFICES ASSUME ActInv, \A c \in Cmd : KindOK(c), [ActNext]_actVars PROVE \A c \in Cmd : KindOK(c)'
    OBVIOUS
  <2>1. ActTypeOK /\ HandlingOK
    BY DEF ActInv
  <2>2. ASSUME NEW s \in Stream, HandleCommand(s) PROVE \A d \in Cmd : KindOK(d)'
    <3>1. PICK c : c = Head(downlink[s])
      OBVIOUS
    <3>2. c \in Cmd /\ at' = [at EXCEPT ![c] = "start"] /\ UNCHANGED <<kind, procs>>
      BY <2>1, <2>2, <3>1, HandleFacts
    <3>3. kind[c] \in ForAction
      BY <2>1, <3>2 DEF ActTypeOK
    <3>4. "start" \in Steps /\ "start" \in Onward[kind[c]]
      BY <3>3, OnwardIs DEF ForAction, BuildCommandAction, Steps
    <3>. QED BY <2>1, <3>2, <3>4, KindStep
  <2>3. ASSUME NEW s \in Stream, Recv(s) \/ HandlerEnds(s) \/ OpenStream(s) \/ Cut(s) PROVE \A d \in Cmd : KindOK(d)'
    BY <2>3, KindAtRest DEF Recv, HandlerEnds, OpenStream, Cut
  <2>4. ASSUME NEW s \in Stream, StreamSession(s) PROVE \A d \in Cmd : KindOK(d)'
    <3>1. UNCHANGED <<kind, procs>> /\ at' = [c \in Cmd |-> IF at[c] = "waiting" THEN "abandoned" ELSE at[c]]
      BY <2>4 DEF StreamSession, AbandonAllPushes, Pushes
    <3>2. ASSUME NEW c \in Cmd, at[c] = "waiting" PROVE KindOK(c)'
      <4>1. kind[c] = "chunked"
        BY <3>2 DEF KindOK
      <4>. QED BY <2>1, <3>1, <3>2, <4>1, OnwardIs, KindMoved
    <3>3. ASSUME NEW c \in Cmd, at[c] # "waiting" PROVE KindOK(c)'
      BY <3>1, <3>3, KindKept
    <3>. QED BY <3>2, <3>3
  <2>5. ASSUME NEW s \in Stream, NEW c \in Cmd, DispatchCommand(c, s) PROVE \A d \in Cmd : KindOK(d)'
    BY <2>1, <2>5, KindStep DEF DispatchCommand, Steps
  <2>6. ASSUME NEW c \in Cmd, ScriptExits(c) PROVE \A d \in Cmd : KindOK(d)'
    <3>1. PICK code \in {"exit0", "exit1"} : at' = [at EXCEPT ![c] = code]
      BY <2>6 DEF ScriptExits, Step
    <3>2. UNCHANGED kind /\ at[c] = "run" /\ (\A d \in Cmd \ {c} : procs'[d] = procs[d]) /\ at'[c] = code /\ code \in Steps
      BY <2>1, <2>6, <3>1 DEF ScriptExits, HandlingOK, ActTypeOK, Steps
    <3>3. kind[c] = "script"
      <4>1. kind[c] \in ForAction /\ at[c] \in {"new", "queued", "killed", "waiting"} \cup Onward[kind[c]]
        BY <2>1 DEF ActTypeOK, KindOK
      <4>. QED BY <3>2, <4>1, OnwardIs DEF ForAction, BuildCommandAction
    <3>4. KindOK(c)'
      BY <2>1, <3>1, <3>2, <3>3, OnwardIs, KindMoved
    <3>. QED BY <2>1, <3>1, <3>2, <3>4, KindOfOne
  <2>7. ASSUME NEW c \in Cmd, ChildExits(c) PROVE \A d \in Cmd : KindOK(d)'
    <3>1. PICK p : procs' = [procs EXCEPT ![c] = procs[c] \ {p}]
      BY <2>7 DEF ChildExits
    <3>2. UNCHANGED <<kind, at>> /\ \A d \in Cmd : procs'[d] \subseteq procs[d]
      BY <2>1, <2>7, <3>1 DEF ChildExits, ActTypeOK
    <3>. QED BY <3>2, KindKept
  <2>8. CASE UNCHANGED actVars
    BY <2>8, KindAtRest DEF actVars
  <2>9. ASSUME NEW s \in Stream, Reading(s) PROVE \A d \in Cmd : KindOK(d)'
    BY <2>1, <2>2, <2>9, ScriptKinds, FileKinds DEF Reading
  <2>. QED BY <2>3, <2>4, <2>5, <2>6, <2>7, <2>8, <2>9 DEF ActNext
<1>. QED BY ActInvariant, <1>1, <1>2, PTL DEF ActSpec

\* handleCommand (the first half of StuckOnlyWhenHeld): a command a reader has is at
\* one of the steps listed for its kind in Onward, or is killed and has no process
\* left, or is a push that waits for chunks, or a process that left the script's
\* group holds its output; a killed script's children never hold it.  That the
\* reader is enabled at each of these steps is the other half, which is checked only.
THEOREM ReaderGoesOn == ActSpec => []GoesOnUnlessHeld
<1>1. ActInv /\ (\A c \in Cmd : KindOK(c)) => GoesOnUnlessHeld
  <2>. SUFFICES ASSUME ActInv, \A d \in Cmd : KindOK(d), NEW s \in Stream, NEW c \in Cmd, reader[s] = c
                PROVE  GoesOn(s) \/ Held(s)
    BY DEF GoesOnUnlessHeld
  <2>1. at[c] \notin {"new", "queued"}
    BY DEF ActInv, HandlingOK
  <2>2. KindOK(c)
    OBVIOUS
  <2>3. at[c] = "killed" => procs[c] = {} \/ "daemon" \in procs[c]
    BY <2>2 DEF KindOK
  <2>. QED BY <2>1, <2>2, <2>3 DEF KindOK, GoesOn, Held
<1>. QED BY ActInvariant, KindInvariant, <1>1, PTL
=============================================================================
