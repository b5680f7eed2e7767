----------------------------- MODULE Installer -----------------------------
(***************************************************************************)
(* The workstation installer the gateway serves (assets/install.sh), run     *)
(* again and again on one machine.  Under "set -e" a command that fails ends *)
(* the script and runs the EXIT trap, except where "|| true" masks it; a     *)
(* kill or a power cut ends it anywhere and runs nothing.  Writing over a     *)
(* file truncates it first, so cp and cat are two steps.                      *)
(***************************************************************************)
EXTENDS Naturals

CONSTANTS
    Profiles,    \* the shell profiles of CLEAN_PROFILES
    Releases,    \* ORBIT_VERSION, the latest tag and the fallback
    MaxRuns      \* bound: runs in one behaviour

ASSUME RunsAssumption == MaxRuns \in Nat

ASSUME ReleasesAssumption == "absent" \notin Releases /\ "partial" \notin Releases

VARIABLES
    pc,         \* the command the script is at; "idle" between runs
    outcome,    \* how the last run ended
    version,    \* ORBIT_RELEASE_VERSION
    args,       \* there are arguments besides -y and --yes
    fetched,    \* TMP_DIR holds the whole binary
    binary,     \* INSTALL_DIR/orbit
    link,       \* INSTALL_DIR/o points to it
    profile,    \* profile[rc]: the user's file
    todo,       \* profiles the clean-up loop has still to visit
    rc,         \* the profile being rewritten and the content of tmp_rc
    tmpDir,     \* this run's TMP_DIR exists
    before,     \* ghost: what the run found
    runs        \* ghost: runs so far

vars == <<pc, outcome, version, args, fetched, binary, link, profile, todo, rc,
          tmpDir, before, runs>>

\* "legacy": holds the old alias lines next to the user's own; "locked": so, but
\* not writable; "lost": own lines are missing.
Contents == {"absent", "clean", "legacy", "locked", "lost"}

home == <<binary, link, profile>>

NoProfile == [file |-> "none", content |-> "none"]

\* The state of the script and the machine: tmp_rc exists only while a profile is
\* being written, and a downloaded binary only with its TMP_DIR.
TypeOK ==
    /\ pc \in {"idle", "host", "confirm", "mktemp", "download", "cp", "copying", "ln",
               "profiles", "cat"}
    /\ outcome \in {"none", "running", "failed", "cancelled", "killed", "installed", "exec"}
    /\ version \in Releases
    /\ binary \in Releases \cup {"absent", "partial"}
    /\ link \in BOOLEAN /\ args \in BOOLEAN /\ fetched \in BOOLEAN /\ tmpDir \in BOOLEAN
    /\ profile \in [Profiles -> Contents]
    /\ todo \subseteq Profiles
    /\ pc # "cat" => rc = NoProfile
    /\ fetched => tmpDir \/ pc = "idle"
    /\ runs \in Nat

Init ==
    /\ pc = "idle" /\ outcome = "none" /\ runs = 0
    /\ version \in Releases /\ args = FALSE /\ fetched = FALSE
    /\ binary \in Releases \cup {"absent"}
    /\ link = FALSE
    /\ profile \in [Profiles -> Contents \ {"lost"}]
    /\ todo = {} /\ rc = NoProfile /\ tmpDir = FALSE
    /\ before = home

-----------------------------------------------------------------------------
\* Helpers.

inputs == <<version, args, before, runs>>

\* The script ends by itself, and its EXIT trap removes TMP_DIR.
Exit(how) ==
    /\ pc' = "idle" /\ outcome' = how
    /\ tmpDir' = FALSE
    /\ rc' = NoProfile

\* The next command.
Goto(to) == pc' = to /\ UNCHANGED <<outcome, tmpDir, rc>>

-----------------------------------------------------------------------------
\* One action per command that can end the run or change the machine.

\* The release is the requested one, the latest, or the fallback when the lookup
\* fails.
Run ==
    /\ pc = "idle" /\ runs < MaxRuns
    /\ runs' = runs + 1
    /\ pc' = "host" /\ outcome' = "running"
    /\ version' \in Releases
    /\ args' \in BOOLEAN
    /\ fetched' = FALSE /\ tmpDir' = FALSE
    /\ todo' = {} /\ before' = home
    /\ UNCHANGED <<home, rc>>

\* Linux, amd64, Ubuntu LTS, no WSL1, zsh.
CheckHost ==
    /\ pc = "host"
    /\ Goto("confirm") \/ Exit("failed")
    /\ UNCHANGED <<inputs, fetched, home, todo>>

\* prompt_confirm: agreed by flag, variable or answer; declined; or no terminal.
Confirm ==
    /\ pc = "confirm"
    /\ Goto("mktemp") \/ Exit("cancelled") \/ Exit("failed")
    /\ UNCHANGED <<inputs, fetched, home, todo>>

MakeTemp ==
    /\ pc = "mktemp"
    /\ \/ pc' = "download" /\ tmpDir' = TRUE /\ UNCHANGED <<outcome, rc>>
       \/ Exit("failed")
    /\ UNCHANGED <<inputs, fetched, home, todo>>

\* A download whose failure goes unnoticed.
Download_Unchecked ==
    /\ pc = "download"
    /\ Goto("cp")
    /\ fetched' \in BOOLEAN
    /\ UNCHANGED <<inputs, home, todo>>

\* download, chmod of the copy in TMP_DIR, mkdir of INSTALL_DIR.
Download ==
    /\ pc = "download"
    /\ \/ Goto("cp") /\ fetched' = TRUE
       \/ Exit("failed") /\ UNCHANGED fetched
    /\ UNCHANGED <<inputs, home, todo>>

\* cp opens and truncates the target, or cannot (it is being executed).
BeginCopy ==
    /\ pc = "cp"
    /\ \/ Goto("copying") /\ binary' = "partial"
       \/ Exit("failed") /\ UNCHANGED binary
    /\ UNCHANGED <<inputs, fetched, link, profile, todo>>

\* A copy that runs out of space goes unnoticed.
EndCopy_Unchecked ==
    /\ pc = "copying"
    /\ Goto("ln")
    /\ binary' \in {version, "partial"}
    /\ UNCHANGED <<inputs, fetched, link, profile, todo>>

\* cp writes the rest and chmod 755 follows, or one of them fails.
EndCopy ==
    /\ pc = "copying"
    /\ \/ Goto("ln") /\ binary' = version
       \/ Exit("failed") /\ binary' \in {version, "partial"}
    /\ UNCHANGED <<inputs, fetched, link, profile, todo>>

\* The shortcut is best effort.
Link ==
    /\ pc = "ln"
    /\ link' \in {link, TRUE}
    /\ todo' = Profiles
    /\ Goto("profiles")
    /\ UNCHANGED <<inputs, fetched, binary, profile>>

\* The loop leaves the other profiles alone.
SkipProfile(f) ==
    /\ pc = "profiles" /\ f \in todo /\ profile[f] # "legacy"
    /\ todo' = todo \ {f}
    /\ Goto("profiles")
    /\ UNCHANGED <<inputs, fetched, home>>

\* grep -v into tmp_rc: "|| true" is there for a file with nothing else in it,
\* and masks a failed write as well.  Then the shell truncates the profile.
\* mktemp may fail.
FilterProfile(f) ==
    /\ pc = "profiles" /\ f \in todo /\ profile[f] = "legacy"
    /\ \/ /\ \E content \in {"clean", "lost"} : rc' = [file |-> f, content |-> content]
          /\ pc' = "cat"
          /\ profile' = [profile EXCEPT ![f] = "lost"]
          /\ UNCHANGED <<outcome, tmpDir>>
       \/ Exit("failed") /\ UNCHANGED profile
    /\ UNCHANGED <<inputs, fetched, binary, link, todo>>

\* The loop goes on with tmp_rc still there.
RewriteProfile_LeavesTemp ==
    /\ pc = "cat"
    /\ profile' = [profile EXCEPT ![rc.file] = rc.content]
    /\ todo' = todo \ {rc.file}
    /\ Goto("profiles")
    /\ UNCHANGED <<inputs, fetched, binary, link>>

\* cat writes the filtered lines back; rm -f follows.
RewriteProfile ==
    /\ pc = "cat"
    /\ \/ /\ profile' = [profile EXCEPT ![rc.file] = rc.content]
          /\ todo' = todo \ {rc.file}
          /\ pc' = "profiles" /\ rc' = NoProfile
          /\ UNCHANGED <<outcome, tmpDir>>
       \/ Exit("failed") /\ UNCHANGED <<profile, todo>>
    /\ UNCHANGED <<inputs, fetched, binary, link>>

\* With arguments the script becomes the installed binary, and no trap runs; if
\* that fails the script ends.
ExecOrbit ==
    /\ pc = "profiles" /\ todo = {} /\ args
    /\ \/ pc' = "idle" /\ outcome' = "exec" /\ UNCHANGED <<tmpDir, rc>>
       \/ Exit("failed")
    /\ UNCHANGED <<inputs, fetched, home, todo>>

\* Without, INSTALL_DIR has to be on PATH.
CheckPath ==
    /\ pc = "profiles" /\ todo = {} /\ ~args
    /\ Exit("installed") \/ Exit("failed")
    /\ UNCHANGED <<inputs, fetched, home, todo>>

\* SIGKILL or a power cut.
Kill ==
    /\ pc # "idle"
    /\ pc' = "idle" /\ outcome' = "killed" /\ rc' = NoProfile
    /\ UNCHANGED <<inputs, fetched, home, todo, tmpDir>>

Next ==
    \/ Run \/ CheckHost \/ Confirm \/ MakeTemp \/ Download \/ BeginCopy \/ EndCopy \/ Link
    \/ \E f \in Profiles : SkipProfile(f) \/ FilterProfile(f)
    \/ RewriteProfile \/ ExecOrbit \/ CheckPath \/ Kill

Spec == Init /\ [][Next]_vars

-----------------------------------------------------------------------------
\* Properties.

\* A run that reports success, or hands over to the binary, has installed the
\* whole release it names, left no old alias it could remove and touched no other
\* profile, whatever earlier failed, cancelled and killed runs left behind.
SuccessIsComplete ==
    outcome \in {"installed", "exec"} =>
        /\ binary = version
        /\ \A f \in Profiles :
              /\ profile[f] # "legacy"
              /\ before[3][f] # "legacy" => profile[f] = before[3][f]

\* Until the release is completely downloaded the machine is as it was, so a run
\* refused, cancelled, failed or killed by then has changed nothing ("No changes
\* were made to your system").
NothingBeforeDownload ==
    /\ ~fetched => home = before
    /\ outcome = "cancelled" => ~fetched /\ ~tmpDir
=============================================================================
