----------------------------- MODULE SelfUpdate -----------------------------
(***************************************************************************)
(* Agent releases: the publisher that rewrites the releases directory file *)
(* by file, the server that serves it as it is, and the agent's update     *)
(* passes (the service's own and one started by hand) that fetch, verify,  *)
(* install and re-exec.                                                    *)
(*                                                                         *)
(* A build is its version and the key it was signed with.  The manifest    *)
(* names a version, a key and, unless it leaves it out, the checksum of a  *)
(* build; a signature is the build it was made for.  On Windows a running executable cannot be       *)
(* replaced.                                                               *)
(***************************************************************************)
EXTENDS Integers

CONSTANTS
  Updater,   \* processes with an update pass, which may overlap
  Service,   \* the agent's own; any other is started by hand
  MaxVer,    \* bound: versions
  MaxPub,    \* bound: publications
  MaxStart,  \* bound: restarts of the agent
  NoFile,
  Torn       \* a file whose copy has not ended

Build == [ver : 0..MaxVer, key : {"ours", "other"}]
First == [ver |-> 1, key |-> "ours"]

ASSUME UpdateAssumption ==
  /\ MaxVer \in Nat \ {0} /\ {MaxPub, MaxStart} \subseteq Nat /\ Service \in Updater
  /\ NoFile # Torn /\ {NoFile, Torn} \cap Build = {}

VARIABLES
  os,        \* "unix" or "windows"
  dir,       \* the releases directory: binary, signature, manifest and whether it has the checksum
  pub,       \* the publication in progress: the files still to write
  exe,       \* the build installed as the agent's executable
  pend,      \* the build staged for the next start
  staged,    \* the file every install copies to first
  run,       \* the build the agent runs
  pass,      \* updater -> its pass
  clash,     \* two passes overlapped
  bare,      \* since the agent's start one installed what no checksum tied to its version
  pubs, starts

dirVars == <<dir, pub, pubs>>
binVars == <<exe, pend, staged, bare>>
updVars == <<os, dirVars, binVars, run, pass, clash, starts>>

NoPass == [at |-> "idle"]

UpdInit ==
  /\ os \in {"unix", "windows"}
  /\ dir = [bin |-> NoFile, sig |-> NoFile, man |-> NoFile, sum |-> TRUE] /\ pub = NoFile
  /\ exe = First /\ pend = NoFile /\ staged = NoFile /\ run = First
  /\ pass = [u \in Updater |-> NoPass] /\ clash = FALSE /\ bare = FALSE /\ pubs = 0 /\ starts = 0

(***************************************************************************)
(* The publisher.                                                          *)
(***************************************************************************)

SignOne(b) == b

\* Only signed builds are published, under the key of the publisher; a later
\* publication may be of an older build.  The publisher here writes checksums; a
\* manifest need not have them.
PublishRelease ==
  /\ pub = NoFile /\ pubs < MaxPub /\ pubs' = pubs + 1
  /\ \E b \in Build, sum \in BOOLEAN : pub' = [build |-> b, sum |-> sum, left |-> {"bin", "sig", "man"}]
  /\ UNCHANGED <<os, dir, binVars, run, pass, clash, starts>>

\* The binary, then its signature, then the manifest, each over the old file.
PublishDir ==
  /\ pub # NoFile
  /\ \E f \in pub.left :
       /\ f = "bin" \/ (f = "sig" /\ "bin" \notin pub.left) \/ pub.left = {"man"}
       /\ dir' = [dir EXCEPT ![f] = IF f = "sig" THEN SignOne(pub.build) ELSE pub.build,
                              !.sum = IF f = "man" THEN pub.sum ELSE @]
       /\ pub' = IF f = "man" THEN NoFile ELSE [pub EXCEPT !.left = @ \ {f}]
  /\ UNCHANGED <<os, pubs, binVars, run, pass, clash, starts>>

\* What the server hands out: the files a manifest names, as they are now.
Manifest == dir.man

AssetPath(f) == IF Manifest = NoFile THEN NoFile ELSE dir[f]

(***************************************************************************)
(* An update pass.                                                         *)
(***************************************************************************)

Newer(have, want) == want > have

SameKey(a, b) == a = b

\* The build that runs the pass: the service's own, or the one on disk.
Current(u) == IF u = Service THEN run ELSE exe

Busy(u) == pass[u].at \notin {"idle", "ended"}

\* No release, an old one, or another publisher's ends the pass.
Latest(u) ==
  /\ pass[u].at = "idle" /\ Manifest # NoFile /\ Current(u) # Torn
  /\ Newer(Current(u).ver, Manifest.ver) /\ SameKey(Manifest.key, "ours")
  /\ pass' = [pass EXCEPT ![u] = [at |-> "manifest", man |-> Manifest, sum |-> dir.sum]]
  /\ clash' = (clash \/ \E w \in Updater \ {u} : Busy(w))
  /\ UNCHANGED <<os, dirVars, binVars, run, starts>>

DownloadBinary(u) ==
  /\ pass[u].at = "manifest"
  /\ pass' = [pass EXCEPT ![u] = [at |-> "binary", man |-> @.man, sum |-> @.sum, bin |-> AssetPath("bin")]]
  /\ UNCHANGED <<os, dirVars, binVars, run, clash, starts>>

DownloadSignature(u) ==
  /\ pass[u].at = "binary"
  /\ pass' = [pass EXCEPT ![u] = [at |-> "files", man |-> @.man, sum |-> @.sum, bin |-> @.bin, sig |-> AssetPath("sig")]]
  /\ UNCHANGED <<os, dirVars, binVars, run, clash, starts>>

NoChecksum(p) == TRUE

\* Skipped when the manifest has no checksum.
VerifySHA256(p) == p.sum => p.bin = p.man

VerifySignature(p) == p.bin # NoFile /\ p.sig = p.bin /\ p.bin.key = "ours"

\* A release that lacks a file or fails a check is refused and nothing is touched.
Verify(u) ==
  /\ pass[u].at = "files"
  /\ pass' = [pass EXCEPT ![u] = IF VerifySHA256(@) /\ VerifySignature(@) THEN [at |-> "verified", sum |-> @.sum, bin |-> @.bin, sig |-> @.sig] ELSE NoPass]
  /\ UNCHANGED <<os, dirVars, binVars, run, clash, starts>>

CopyFileStarts(u) ==
  /\ pass[u].at = "verified"
  /\ staged' = Torn
  /\ pass' = [pass EXCEPT ![u].at = "copying"]
  /\ UNCHANGED <<os, dirVars, exe, pend, bare, run, clash, starts>>

\* The copy ends in the file it began, under whatever name that has by now.
CopyFileEnds(u) ==
  /\ pass[u].at = "copying"
  /\ \/ staged # NoFile /\ staged' = pass[u].bin /\ UNCHANGED <<exe, pend>>
     \/ staged = NoFile /\ exe = Torn /\ exe' = pass[u].bin /\ UNCHANGED <<staged, pend>>
     \/ staged = NoFile /\ exe # Torn /\ pend' = pass[u].bin /\ UNCHANGED <<staged, exe>>
  /\ pass' = [pass EXCEPT ![u].at = "copied"]
  /\ UNCHANGED <<os, dirVars, bare, run, clash, starts>>

\* The staged file replaces the executable, or is kept for the next start
\* where that is in use; a staged file already moved fails the install.
DefaultInstall(u) ==
  /\ pass[u].at = "copied"
  /\ \/ staged = NoFile /\ pass' = [pass EXCEPT ![u] = NoPass] /\ UNCHANGED binVars
     \/ /\ staged # NoFile /\ staged' = NoFile
        /\ pass' = [pass EXCEPT ![u].at = "installed"]
        /\ bare' = (bare \/ ~pass[u].sum)
        /\ \/ os = "unix" /\ exe' = staged /\ UNCHANGED pend
           \/ os = "windows" /\ pend' = staged /\ UNCHANGED exe
  /\ UNCHANGED <<os, dirVars, run, clash, starts>>

ReexecStale(u) ==
  /\ pass[u].at = "installed"
  /\ pass' = [pass EXCEPT ![u] = [at |-> "ended"]] /\ UNCHANGED <<os, dirVars, binVars, run, clash, starts>>

\* The service becomes the new build at once, or at its next start; a pass
\* started by hand re-executes only itself.
DefaultReexec(u) ==
  /\ pass[u].at = "installed"
  /\ IF os = "unix" /\ u = Service /\ exe # Torn
     THEN run' = exe /\ bare' = FALSE /\ pass' = [pass EXCEPT ![u] = NoPass]
     ELSE UNCHANGED <<run, bare>> /\ pass' = [pass EXCEPT ![u] = [at |-> "ended"]]
  /\ UNCHANGED <<os, dirVars, exe, pend, staged, clash, starts>>

\* At start a staged build is verified again and renamed over the executable,
\* which on Windows is the one that is running.
ApplyPending ==
  \/ (pend = NoFile \/ os = "windows") /\ UNCHANGED <<exe, pend>>
  \/ pend # NoFile /\ os = "unix" /\ exe' = pend /\ pend' = NoFile

\* The service is stopped and started; a torn executable does not start.
Restart ==
  /\ exe # Torn /\ starts < MaxStart /\ starts' = starts + 1
  /\ run' = exe /\ bare' = FALSE /\ ApplyPending
  /\ pass' = [pass EXCEPT ![Service] = NoPass] /\ UNCHANGED staged
  /\ UNCHANGED <<os, dirVars, clash>>

Pass(u) == Latest(u) \/ DownloadBinary(u) \/ DownloadSignature(u) \/ Verify(u)
           \/ CopyFileStarts(u) \/ CopyFileEnds(u) \/ DefaultInstall(u) \/ DefaultReexec(u)
Passes == \E u \in Updater : Pass(u)

UpdNext == PublishRelease \/ PublishDir \/ Passes \/ Restart

UpdSpec == UpdInit /\ [][UpdNext]_updVars

(***************************************************************************)
(* Properties.                                                             *)
(***************************************************************************)

\* The version gate, the checksum and the signature together: the executable
\* is always a whole build of ours, never older than the one that runs, although
\* files are published one by one and an older build may be published again -
\* unless two passes overlapped, since all copy to the one staging file and none
\* looks again at what is installed by then.  The age is vouched for by the
\* checksum only: a manifest without one may go with a binary of another version.
ExecutableIsSound ==
  clash \/ (exe # Torn /\ exe.key = "ours" /\ (exe.ver >= run.ver \/ bare))

\* Updater.Run: a newer release of ours, completely published, is running in
\* the end (or a newer publication replaced it), where a running executable
\* can be replaced and passes do not overlap.
UpdateLands ==
  \A v \in 1..MaxVer :
    (pub = NoFile /\ dir.man # NoFile /\ dir.man.ver = v /\ dir.man.key = "ours" /\ run.ver < v)
      ~> (run.ver >= v \/ os = "windows" \/ pub # NoFile \/ clash)
=============================================================================
