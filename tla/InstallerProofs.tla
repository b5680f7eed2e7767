-------------------------- MODULE InstallerProofs --------------------------
(***************************************************************************)
(* Proofs about the workstation installer, for any profiles, any releases    *)
(* and any number of runs: a run that reports success is complete, and a run *)
(* that ends before its download is whole has changed nothing, whatever the  *)
(* runs before it left behind.                                               *)
(***************************************************************************)
EXTENDS Installer, TLAPS

\* The commands before the release is in TMP_DIR, and those from the copy on.
Preparing  == {"host", "confirm", "mktemp", "download"}
Installing == {"cp", "copying", "ln", "profiles", "cat"}

\* The script runs exactly while its outcome is open.
RunIsOpen == pc # "idle" <=> outcome = "running"

\* The position of the script tells whether TMP_DIR and the release are there.
FetchedByNow ==
    /\ pc \in Preparing => ~fetched
    /\ pc \in Installing => fetched
    /\ pc = "download" => tmpDir

\* Past the copy the installed binary is the release of this run.
CopiedByNow == pc \in {"ln", "profiles", "cat"} => binary = version

\* The clean-up loop starts from the profiles the run found.
ProfilesKept == pc \in {"cp", "copying", "ln"} => profile = before[3]

\* The clean-up loop has not touched what it has still to visit, except the one
\* it is rewriting, and the visited ones are as a finished run leaves them.
LoopProgress ==
    pc \in {"profiles", "cat"} =>
        \A f \in Profiles :
            /\ f \in todo /\ (pc = "cat" => f # rc.file) => profile[f] = before[3][f]
            /\ f \notin todo => /\ profile[f] # "legacy"
                                /\ before[3][f] # "legacy" => profile[f] = before[3][f]

\* The profile being rewritten is one the run found with the old lines, and what
\* is written back has none.
Rewriting ==
    pc = "cat" => /\ rc.file \in todo /\ before[3][rc.file] = "legacy"
                  /\ rc.content \in {"clean", "lost"}
                  /\ profile[rc.file] = "lost"

\* The inductive invariant.
IInv ==
    /\ TypeOK /\ RunIsOpen /\ FetchedByNow /\ CopiedByNow
    /\ ProfilesKept /\ LoopProgress /\ Rewriting
    /\ NothingBeforeDownload /\ SuccessIsComplete

\* A profile without the old lines, or one that is not writable, is never
\* written: the clean-up rewrites only what it found with old lines in it.
OthersUntouched ==
    [][\A f \in Profiles : profile[f] \in {"absent", "clean", "locked"} => profile'[f] = profile[f]]_vars

-----------------------------------------------------------------------------
\* Before any run the machine is as found.
LEMMA InitInv ==
    Init => IInv
  <1> SUFFICES ASSUME Init PROVE IInv
    OBVIOUS
  <1> USE DEF Init
  <1>1. /\ args \in BOOLEAN /\ fetched \in BOOLEAN /\ link \in BOOLEAN /\ tmpDir \in BOOLEAN
        /\ ~fetched
    OBVIOUS
  <1>2. pc = "idle" /\ outcome = "none" /\ rc = NoProfile /\ home = before
    OBVIOUS
  <1>3. TypeOK
    BY <1>1 DEF TypeOK, Contents
  <1> QED
    BY <1>1, <1>2, <1>3 DEF IInv, RunIsOpen, FetchedByNow, CopiedByNow, ProfilesKept,
       LoopProgress, Rewriting, NothingBeforeDownload, SuccessIsComplete, Preparing, Installing

\* A run starts from whatever the runs before it left.
LEMMA RunInv ==
    ASSUME IInv, Run PROVE IInv'
  <1>1. TypeOK'
    <2>1. /\ args' \in BOOLEAN /\ fetched' \in BOOLEAN /\ tmpDir' \in BOOLEAN
          /\ ~fetched'
      BY DEF Run
    <2> QED BY <2>1 DEF IInv, Run, TypeOK, home
  <1>2. NothingBeforeDownload'
    BY DEF IInv, Run, NothingBeforeDownload, home
  <1> QED
    BY <1>1, <1>2 DEF IInv, Run, RunIsOpen, FetchedByNow, CopiedByNow, ProfilesKept, LoopProgress,
        Rewriting, SuccessIsComplete, Preparing, Installing

\* An unsupported host ends the run before anything is done.
LEMMA CheckHostInv ==
    ASSUME IInv, CheckHost PROVE IInv'
  <1> USE DEF CheckHost, Goto, Exit, inputs, home, Preparing, Installing
  <1>1. TypeOK'
    BY DEF IInv, TypeOK, FetchedByNow, Contents, NoProfile
  <1>2. NothingBeforeDownload'
    BY DEF IInv, TypeOK, FetchedByNow, RunIsOpen, NothingBeforeDownload
  <1>3. (RunIsOpen /\ FetchedByNow /\ CopiedByNow)'
    BY DEF IInv, TypeOK, RunIsOpen, FetchedByNow, CopiedByNow
  <1>4. (ProfilesKept /\ LoopProgress /\ Rewriting)'
    BY DEF IInv, TypeOK, ProfilesKept, LoopProgress, Rewriting, NothingBeforeDownload, FetchedByNow, Contents, NoProfile
  <1>5. SuccessIsComplete'
    BY DEF IInv, TypeOK, RunIsOpen, SuccessIsComplete, CopiedByNow, LoopProgress
  <1> QED BY <1>1, <1>2, <1>3, <1>4, <1>5 DEF IInv

\* A declined run has fetched nothing.
LEMMA ConfirmInv ==
    ASSUME IInv, Confirm PROVE IInv'
  <1> USE DEF Confirm, Goto, Exit, inputs, home, Preparing, Installing
  <1>1. TypeOK'
    BY DEF IInv, TypeOK, FetchedByNow, Contents, NoProfile
  <1>2. NothingBeforeDownload'
    BY DEF IInv, TypeOK, FetchedByNow, RunIsOpen, NothingBeforeDownload
  <1>3. (RunIsOpen /\ FetchedByNow /\ CopiedByNow)'
    BY DEF IInv, TypeOK, RunIsOpen, FetchedByNow, CopiedByNow
  <1>4. (ProfilesKept /\ LoopProgress /\ Rewriting)'
    BY DEF IInv, TypeOK, ProfilesKept, LoopProgress, Rewriting, NothingBeforeDownload, FetchedByNow, Contents, NoProfile
  <1>5. SuccessIsComplete'
    BY DEF IInv, TypeOK, RunIsOpen, SuccessIsComplete, CopiedByNow, LoopProgress
  <1> QED BY <1>1, <1>2, <1>3, <1>4, <1>5 DEF IInv

\* The temporary directory is the first thing made.
LEMMA MakeTempInv ==
    ASSUME IInv, MakeTemp PROVE IInv'
  <1> USE DEF MakeTemp, Goto, Exit, inputs, home, Preparing, Installing
  <1>1. TypeOK'
    BY DEF IInv, TypeOK, FetchedByNow, Contents, NoProfile
  <1>2. NothingBeforeDownload'
    BY DEF IInv, TypeOK, FetchedByNow, RunIsOpen, NothingBeforeDownload
  <1>3. (RunIsOpen /\ FetchedByNow /\ CopiedByNow)'
    BY DEF IInv, TypeOK, RunIsOpen, FetchedByNow, CopiedByNow
  <1>4. (ProfilesKept /\ LoopProgress /\ Rewriting)'
    BY DEF IInv, TypeOK, ProfilesKept, LoopProgress, Rewriting, NothingBeforeDownload, FetchedByNow, Contents, NoProfile
  <1>5. SuccessIsComplete'
    BY DEF IInv, TypeOK, RunIsOpen, SuccessIsComplete, CopiedByNow, LoopProgress
  <1> QED BY <1>1, <1>2, <1>3, <1>4, <1>5 DEF IInv

\* The copy is reached only with the whole release.
LEMMA DownloadInv ==
    ASSUME IInv, Download PROVE IInv'
  <1> USE DEF Download, Goto, Exit, inputs, home, Preparing, Installing
  <1>1. TypeOK'
    <2>1. fetched' \in BOOLEAN /\ tmpDir' \in BOOLEAN
      BY DEF IInv, TypeOK
    <2>2. pc' # "idle" => tmpDir' /\ rc' = NoProfile
      BY DEF IInv, TypeOK, FetchedByNow
    <2> QED BY <2>1, <2>2 DEF IInv, TypeOK, FetchedByNow, NoProfile
  <1>2. NothingBeforeDownload'
    BY DEF IInv, TypeOK, FetchedByNow, RunIsOpen, NothingBeforeDownload
  <1>3. (RunIsOpen /\ FetchedByNow /\ CopiedByNow)'
    BY DEF IInv, TypeOK, RunIsOpen, FetchedByNow, CopiedByNow
  <1>4. (ProfilesKept /\ LoopProgress /\ Rewriting)'
    <2>1. profile = before[3]
      BY DEF IInv, FetchedByNow, NothingBeforeDownload
    <2>2. pc' \in {"cp", "idle"} /\ UNCHANGED <<profile, before>>
      OBVIOUS
    <2> QED BY <2>1, <2>2 DEF ProfilesKept, LoopProgress, Rewriting
  <1>5. SuccessIsComplete'
    BY DEF IInv, TypeOK, RunIsOpen, SuccessIsComplete, CopiedByNow, LoopProgress
  <1> QED BY <1>1, <1>2, <1>3, <1>4, <1>5 DEF IInv

\* Truncating the installed binary changes no profile.
LEMMA BeginCopyInv ==
    ASSUME IInv, BeginCopy PROVE IInv'
  <1> USE DEF BeginCopy, Goto, Exit, inputs, home, Preparing, Installing
  <1>1. TypeOK'
    BY DEF IInv, TypeOK, FetchedByNow, Contents, NoProfile
  <1>2. NothingBeforeDownload'
    BY DEF IInv, TypeOK, FetchedByNow, RunIsOpen, NothingBeforeDownload
  <1>3. (RunIsOpen /\ FetchedByNow /\ CopiedByNow)'
    BY DEF IInv, TypeOK, RunIsOpen, FetchedByNow, CopiedByNow
  <1>4. (ProfilesKept /\ LoopProgress /\ Rewriting)'
    BY DEF IInv, TypeOK, ProfilesKept, LoopProgress, Rewriting, NothingBeforeDownload, FetchedByNow, Contents, NoProfile
  <1>5. SuccessIsComplete'
    BY DEF IInv, TypeOK, RunIsOpen, SuccessIsComplete, CopiedByNow, LoopProgress
  <1> QED BY <1>1, <1>2, <1>3, <1>4, <1>5 DEF IInv

\* Only a completed copy reaches the link.
LEMMA EndCopyInv ==
    ASSUME IInv, EndCopy PROVE IInv'
  <1> USE DEF EndCopy, Goto, Exit, inputs, home, Preparing, Installing
  <1>1. TypeOK'
    BY DEF IInv, TypeOK, FetchedByNow, Contents, NoProfile
  <1>2. NothingBeforeDownload'
    BY DEF IInv, TypeOK, FetchedByNow, RunIsOpen, NothingBeforeDownload
  <1>3. (RunIsOpen /\ FetchedByNow /\ CopiedByNow)'
    BY DEF IInv, TypeOK, RunIsOpen, FetchedByNow, CopiedByNow
  <1>4. (ProfilesKept /\ LoopProgress /\ Rewriting)'
    BY DEF IInv, TypeOK, ProfilesKept, LoopProgress, Rewriting, NothingBeforeDownload, FetchedByNow, Contents, NoProfile
  <1>5. SuccessIsComplete'
    BY DEF IInv, TypeOK, RunIsOpen, SuccessIsComplete, CopiedByNow, LoopProgress
  <1> QED BY <1>1, <1>2, <1>3, <1>4, <1>5 DEF IInv

\* The loop begins with every profile to visit.
LEMMA LinkInv ==
    ASSUME IInv, Link PROVE IInv'
  <1> USE DEF Link, Goto, Exit, inputs, home, Preparing, Installing
  <1>1. TypeOK'
    BY DEF IInv, TypeOK, FetchedByNow, Contents, NoProfile
  <1>2. NothingBeforeDownload'
    BY DEF IInv, TypeOK, FetchedByNow, RunIsOpen, NothingBeforeDownload
  <1>3. (RunIsOpen /\ FetchedByNow /\ CopiedByNow)'
    BY DEF IInv, TypeOK, RunIsOpen, FetchedByNow, CopiedByNow
  <1>4. (ProfilesKept /\ LoopProgress /\ Rewriting)'
    BY DEF IInv, TypeOK, ProfilesKept, LoopProgress, Rewriting, NothingBeforeDownload, FetchedByNow, Contents, NoProfile
  <1>5. SuccessIsComplete'
    BY DEF IInv, TypeOK, RunIsOpen, SuccessIsComplete, CopiedByNow, LoopProgress
  <1> QED BY <1>1, <1>2, <1>3, <1>4, <1>5 DEF IInv

\* A skipped profile has no old lines and is as found.
LEMMA SkipProfileInv ==
    ASSUME IInv, NEW f \in Profiles, SkipProfile(f) PROVE IInv'
  <1> USE DEF SkipProfile, Goto, Exit, inputs, home, Preparing, Installing
  <1>1. TypeOK'
    BY DEF IInv, TypeOK, FetchedByNow, Contents, NoProfile
  <1>2. NothingBeforeDownload'
    BY DEF IInv, TypeOK, FetchedByNow, RunIsOpen, NothingBeforeDownload
  <1>3. (RunIsOpen /\ FetchedByNow /\ CopiedByNow)'
    BY DEF IInv, TypeOK, RunIsOpen, FetchedByNow, CopiedByNow
  <1>4. (ProfilesKept /\ LoopProgress /\ Rewriting)'
    BY DEF IInv, TypeOK, ProfilesKept, LoopProgress, Rewriting, NothingBeforeDownload, FetchedByNow, Contents, NoProfile
  <1>5. SuccessIsComplete'
    BY DEF IInv, TypeOK, RunIsOpen, SuccessIsComplete, CopiedByNow, LoopProgress
  <1> QED BY <1>1, <1>2, <1>3, <1>4, <1>5 DEF IInv

\* A profile is truncated only when it held the old lines.
LEMMA FilterProfileInv ==
    ASSUME IInv, NEW f \in Profiles, FilterProfile(f) PROVE IInv'
  <1>1. /\ pc = "profiles" /\ f \in todo /\ profile[f] = "legacy"
        /\ UNCHANGED <<version, args, before, runs, fetched, binary, link, todo>>
    BY DEF FilterProfile, inputs
  <1>2. CASE Exit("failed") /\ UNCHANGED profile
    <2> USE <1>1, <1>2 DEF Exit
    <2>1. TypeOK'
      BY DEF IInv, TypeOK
    <2>2. NothingBeforeDownload' /\ SuccessIsComplete'
      BY DEF IInv, FetchedByNow, Installing, NothingBeforeDownload, SuccessIsComplete
    <2> QED
      BY <2>1, <2>2 DEF IInv, RunIsOpen, FetchedByNow, CopiedByNow, ProfilesKept, LoopProgress,
         Rewriting, Preparing, Installing
  <1>3. CASE ~(Exit("failed") /\ UNCHANGED profile)
    <2>1. PICK content \in {"clean", "lost"} :
             /\ rc' = [file |-> f, content |-> content]
             /\ pc' = "cat"
             /\ profile' = [profile EXCEPT ![f] = "lost"]
             /\ UNCHANGED <<outcome, tmpDir>>
      BY <1>3 DEF FilterProfile
    <2>2. TypeOK'
      BY <1>1, <2>1 DEF IInv, TypeOK, Contents
    <2>3. NothingBeforeDownload' /\ SuccessIsComplete'
      BY <1>1, <2>1 DEF IInv, FetchedByNow, RunIsOpen, Installing, NothingBeforeDownload, SuccessIsComplete
    <2>4. rc'.file = f /\ rc'.content \in {"clean", "lost"}
      BY <2>1
    <2>5. profile'[f] = "lost" /\ \A g \in Profiles : g # f => profile'[g] = profile[g]
      BY <2>1 DEF IInv, TypeOK
    <2>6. before[3][f] = "legacy"
      BY <1>1 DEF IInv, LoopProgress
    <2>7. LoopProgress' /\ Rewriting'
      BY <1>1, <2>1, <2>4, <2>5, <2>6 DEF IInv, LoopProgress, Rewriting
    <2> QED
      BY <1>1, <2>1, <2>2, <2>3, <2>7 DEF IInv, RunIsOpen, FetchedByNow, CopiedByNow, ProfilesKept,
         Preparing, Installing
  <1> QED BY <1>2, <1>3

\* What is written back is free of the old lines.
LEMMA RewriteProfileInv ==
    ASSUME IInv, RewriteProfile PROVE IInv'
  <1>1. /\ pc = "cat"
        /\ UNCHANGED <<version, args, before, runs, fetched, binary, link>>
    BY DEF RewriteProfile, inputs
  <1>2. CASE Exit("failed") /\ UNCHANGED <<profile, todo>>
    <2> USE <1>1, <1>2 DEF Exit
    <2>1. TypeOK'
      BY DEF IInv, TypeOK
    <2>2. NothingBeforeDownload' /\ SuccessIsComplete'
      BY DEF IInv, FetchedByNow, Installing, NothingBeforeDownload, SuccessIsComplete
    <2> QED
      BY <2>1, <2>2 DEF IInv, RunIsOpen, FetchedByNow, CopiedByNow, ProfilesKept, LoopProgress,
         Rewriting, Preparing, Installing
  <1>3. CASE ~(Exit("failed") /\ UNCHANGED <<profile, todo>>)
    <2>1. /\ profile' = [profile EXCEPT ![rc.file] = rc.content]
          /\ todo' = todo \ {rc.file}
          /\ pc' = "profiles" /\ rc' = NoProfile
          /\ UNCHANGED <<outcome, tmpDir>>
      BY <1>3 DEF RewriteProfile
    <2>2. /\ rc.file \in todo /\ rc.file \in Profiles /\ before[3][rc.file] = "legacy"
          /\ rc.content \in {"clean", "lost"}
      BY <1>1 DEF IInv, TypeOK, Rewriting
    <2>3. TypeOK'
      BY <1>1, <2>1, <2>2 DEF IInv, TypeOK, Contents
    <2>4. NothingBeforeDownload' /\ SuccessIsComplete'
      BY <1>1, <2>1 DEF IInv, FetchedByNow, RunIsOpen, Installing, NothingBeforeDownload, SuccessIsComplete
    <2>5. /\ profile'[rc.file] # "legacy"
          /\ \A g \in Profiles : g # rc.file => profile'[g] = profile[g]
      BY <2>1, <2>2 DEF IInv, TypeOK
    <2>6. LoopProgress'
      BY <1>1, <2>1, <2>2, <2>5 DEF IInv, LoopProgress
    <2> QED
      BY <1>1, <2>1, <2>3, <2>4, <2>6 DEF IInv, RunIsOpen, FetchedByNow, CopiedByNow, ProfilesKept,
         Rewriting, Preparing, Installing
  <1> QED BY <1>2, <1>3

\* The binary takes over only after every profile was visited.
LEMMA ExecOrbitInv ==
    ASSUME IInv, ExecOrbit PROVE IInv'
  <1> USE DEF ExecOrbit, Goto, Exit, inputs, home, Preparing, Installing
  <1>1. TypeOK'
    BY DEF IInv, TypeOK, FetchedByNow, Contents, NoProfile
  <1>2. NothingBeforeDownload'
    BY DEF IInv, TypeOK, FetchedByNow, RunIsOpen, NothingBeforeDownload
  <1>3. (RunIsOpen /\ FetchedByNow /\ CopiedByNow)'
    BY DEF IInv, TypeOK, RunIsOpen, FetchedByNow, CopiedByNow
  <1>4. (ProfilesKept /\ LoopProgress /\ Rewriting)'
    BY DEF IInv, TypeOK, ProfilesKept, LoopProgress, Rewriting, NothingBeforeDownload, FetchedByNow, Contents, NoProfile
  <1>5. SuccessIsComplete'
    BY DEF IInv, TypeOK, RunIsOpen, SuccessIsComplete, CopiedByNow, LoopProgress
  <1> QED BY <1>1, <1>2, <1>3, <1>4, <1>5 DEF IInv

\* So does a report of success.
LEMMA CheckPathInv ==
    ASSUME IInv, CheckPath PROVE IInv'
  <1> USE DEF CheckPath, Goto, Exit, inputs, home, Preparing, Installing
  <1>1. TypeOK'
    BY DEF IInv, TypeOK, FetchedByNow, Contents, NoProfile
  <1>2. NothingBeforeDownload'
    BY DEF IInv, TypeOK, FetchedByNow, RunIsOpen, NothingBeforeDownload
  <1>3. (RunIsOpen /\ FetchedByNow /\ CopiedByNow)'
    BY DEF IInv, TypeOK, RunIsOpen, FetchedByNow, CopiedByNow
  <1>4. (ProfilesKept /\ LoopProgress /\ Rewriting)'
    BY DEF IInv, TypeOK, ProfilesKept, LoopProgress, Rewriting, NothingBeforeDownload, FetchedByNow, Contents, NoProfile
  <1>5. SuccessIsComplete'
    BY DEF IInv, TypeOK, RunIsOpen, SuccessIsComplete, CopiedByNow, LoopProgress
  <1> QED BY <1>1, <1>2, <1>3, <1>4, <1>5 DEF IInv

\* A kill ends the run where it is and is no success.
LEMMA KillInv ==
    ASSUME IInv, Kill PROVE IInv'
  <1> USE DEF Kill, Goto, Exit, inputs, home, Preparing, Installing
  <1>1. TypeOK'
    BY DEF IInv, TypeOK, FetchedByNow, Contents, NoProfile
  <1>2. NothingBeforeDownload'
    BY DEF IInv, TypeOK, FetchedByNow, RunIsOpen, NothingBeforeDownload
  <1>3. (RunIsOpen /\ FetchedByNow /\ CopiedByNow)'
    BY DEF IInv, TypeOK, RunIsOpen, FetchedByNow, CopiedByNow
  <1>4. (ProfilesKept /\ LoopProgress /\ Rewriting)'
    BY DEF IInv, TypeOK, ProfilesKept, LoopProgress, Rewriting, NothingBeforeDownload, FetchedByNow, Contents, NoProfile
  <1>5. SuccessIsComplete'
    BY DEF IInv, TypeOK, RunIsOpen, SuccessIsComplete, CopiedByNow, LoopProgress
  <1> QED BY <1>1, <1>2, <1>3, <1>4, <1>5 DEF IInv

\* The invariant holds in every reachable state.
THEOREM Invariance ==
    Spec => []IInv
  <1>1. ASSUME IInv, [Next]_vars PROVE IInv'
    <2>1. CASE Next
      <3>1. CASE \E f \in Profiles : SkipProfile(f) \/ FilterProfile(f)
        BY <1>1, <3>1, SkipProfileInv, FilterProfileInv
      <3> QED
        BY <1>1, <2>1, <3>1, RunInv, CheckHostInv, ConfirmInv, MakeTempInv, DownloadInv, BeginCopyInv,
           EndCopyInv, LinkInv, RewriteProfileInv, ExecOrbitInv, CheckPathInv, KillInv DEF Next
    <2>2. CASE UNCHANGED vars
      BY <1>1, <2>2 DEF vars, IInv, TypeOK, RunIsOpen, FetchedByNow, CopiedByNow, ProfilesKept, LoopProgress,
         Rewriting, NothingBeforeDownload, SuccessIsComplete, home
    <2> QED BY <1>1, <2>1, <2>2
  <1> QED BY InitInv, <1>1, PTL DEF Spec

\* The script and the machine stay in their types: in particular a downloaded
\* binary has its TMP_DIR for as long as the script runs.
THEOREM TypeCorrect ==
    Spec => []TypeOK
  <1>1. IInv => TypeOK
    BY DEF IInv
  <1> QED BY <1>1, Invariance, PTL

\* A run that reports success, or becomes the binary, has installed its whole
\* release and cleaned every profile it may touch, after any earlier runs.
THEOREM CompleteSuccess ==
    Spec => []SuccessIsComplete
  <1>1. IInv => SuccessIsComplete
    BY DEF IInv
  <1> QED BY <1>1, Invariance, PTL

\* A run that ends before its download is whole has changed nothing.
THEOREM UntouchedBeforeDownload ==
    Spec => []NothingBeforeDownload
  <1>1. IInv => NothingBeforeDownload
    BY DEF IInv
  <1> QED BY <1>1, Invariance, PTL

\* No step of any run writes a profile without the old lines or one that is not
\* writable.
THEOREM OtherProfilesUntouched ==
    Spec => OthersUntouched
  <1> DEFINE Kept == \A f \in Profiles :
                        profile[f] \in {"absent", "clean", "locked"} => profile'[f] = profile[f]
  <1>1. ASSUME IInv, [Next]_vars PROVE [Kept]_vars
    <2>1. CASE \E f \in Profiles : FilterProfile(f)
      BY <1>1, <2>1 DEF FilterProfile, IInv, TypeOK
    <2>2. CASE RewriteProfile
      BY <1>1, <2>2 DEF RewriteProfile, IInv, TypeOK, Rewriting
    <2>3. CASE UNCHANGED profile
      BY <2>3
    <2>4. CASE \E f \in Profiles : SkipProfile(f)
      BY <2>3, <2>4 DEF SkipProfile, home
    <2> QED
      BY <1>1, <2>1, <2>2, <2>3, <2>4 DEF Next, vars, Run, CheckHost, Confirm, MakeTemp, Download,
         BeginCopy, EndCopy, Link, ExecOrbit, CheckPath, Kill, home
  <1> QED BY <1>1, Invariance, PTL DEF Spec, OthersUntouched
=============================================================================
