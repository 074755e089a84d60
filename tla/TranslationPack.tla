--------------------------- MODULE TranslationPack ---------------------------
(***************************************************************************)
(* The language pack of one language: the files of a pinned manifest,      *)
(* downloaded to a directory of their own, verified, and renamed into      *)
(* place (install_model).  Every window may ask for it, and a conversation *)
(* that is left goes on downloading, so that several installations of one  *)
(* pack may run; they share the temporary directory and the flag by which  *)
(* the user cancels.  The settings remove the pack, and the translator     *)
(* loads it.                                                               *)
(*                                                                         *)
(* A file being written holds the installation that created it last: only  *)
(* when that one has written it all is it whole, wherever it is by then.   *)
(* Removing a directory is one step.                                       *)
(***************************************************************************)
EXTENDS Naturals

CONSTANTS Installers,  \* calls of translation_install_model
          Files,       \* how many files a pack has
          MaxFaults,   \* bound: downloads that break or are corrupt, and crashes
          MaxUses      \* bound: cancellations, removals and loads

PackAssumption ==
    /\ Files \in Nat \ {0} /\ MaxFaults \in Nat /\ MaxUses \in Nat
    /\ Installers \cap {"none", "good", "torn"} = {}

VARIABLES
    temp, pack,  \* the two directories: do they exist, and what is in their files
    flag,        \* translation_downloads: whose flag a cancellation sets
    job,         \* installation -> where it is, its file, and whether it is cancelled
    engine,      \* the translator: where it is, and what it has loaded
    crashed,     \* history: the temporary directory may be of a process that ended
    faults, uses

vars == <<temp, pack, flag, job, engine, crashed, faults, uses>>

Nobody == "none"
Empty  == [k \in 1..Files |-> "none"]
NoDir  == [there |-> FALSE, file |-> Empty]
Fresh  == [there |-> TRUE, file |-> Empty]
Idle   == [at |-> "idle", k |-> 1, cancelled |-> FALSE]

Init == /\ temp = NoDir /\ pack = NoDir /\ flag = Nobody
        /\ job = [i \in Installers |-> Idle]
        /\ engine = [at |-> "idle", k |-> 1, got |-> {}]
        /\ crashed = FALSE /\ faults = 0 /\ uses = 0

At(i, at)   == job[i].at = at
Go(i, at)   == job' = [job EXCEPT ![i].at = at]
Ended       == {"idle", "ok", "failed"}
Verified    == \A k \in 1..Files : pack.file[k] = "good"

(* The command's answer: it takes the flag out of the map, whoever's it is. *)
Answer(i, at) == /\ job' = [job EXCEPT ![i] = [Idle EXCEPT !.at = at]]
                 /\ flag' = Nobody

(* What installation i was writing is now c. *)
Wrote(dir, i, c) ==
    [dir EXCEPT !.file = [k \in 1..Files |-> IF dir.file[k] = i THEN c ELSE dir.file[k]]]
Leaves(i, c) == temp' = Wrote(temp, i, c) /\ pack' = Wrote(pack, i, c)

-----------------------------------------------------------------------------
(* translation_install_model and install_model *)

Install(i) ==
    /\ job[i].at \in Ended
    /\ IF Verified THEN Answer(i, "ok")
       ELSE flag' = i /\ job' = [job EXCEPT ![i] = [Idle EXCEPT !.at = "clear"]]
    /\ UNCHANGED <<temp, pack, engine, crashed, faults, uses>>

Clear(i) ==
    /\ At(i, "clear") /\ Go(i, "make") /\ temp' = NoDir /\ crashed' = FALSE
    /\ UNCHANGED <<pack, flag, engine, faults, uses>>

(* The directory must not exist; a failure here cleans nothing up. *)
Make(i) ==
    /\ At(i, "make")
    /\ IF temp.there THEN Answer(i, "failed") /\ UNCHANGED temp
       ELSE temp' = Fresh /\ Go(i, "get") /\ UNCHANGED flag
    /\ UNCHANGED <<pack, engine, crashed, faults, uses>>

Request(i) ==
    /\ At(i, "get")
    /\ Go(i, IF job[i].cancelled THEN "undo" ELSE "asked")
    /\ UNCHANGED <<temp, pack, flag, engine, crashed, faults, uses>>

Create(i) ==
    /\ At(i, "asked")
    /\ IF temp.there THEN temp' = [temp EXCEPT !.file[job[i].k] = i] /\ Go(i, "write")
       ELSE Go(i, "undo") /\ UNCHANGED temp
    /\ UNCHANGED <<pack, flag, engine, crashed, faults, uses>>

Advance(i) ==
    IF job[i].k = Files THEN Go(i, "swap")
    ELSE job' = [job EXCEPT ![i].at = "get", ![i].k = @ + 1]

(* The chunks of a file; its bytes and its hash are counted as they come. *)
Write(i) ==
    /\ At(i, "write")
    /\ IF job[i].cancelled THEN Go(i, "undo") /\ Leaves(i, "torn")
       ELSE Advance(i) /\ Leaves(i, "good")
    /\ UNCHANGED <<flag, engine, crashed, faults, uses>>

(* A corrupt file, by its size or hash; as a mutant, only the size counts. *)
SizeOnly(i) == Advance(i)
OnCorrupt(i) == Go(i, "undo")
Corrupt(i) ==
    /\ At(i, "write") /\ faults < MaxFaults /\ faults' = faults + 1
    /\ Leaves(i, "torn") /\ OnCorrupt(i)
    /\ UNCHANGED <<flag, engine, crashed, uses>>

(* The server answers with an error, stalls or breaks off; the user cancels *)
(* while it is waited for.                                                  *)
Broken(i) ==
    /\ job[i].at \in {"asked", "write"}
    /\ IF job[i].cancelled THEN UNCHANGED faults ELSE faults < MaxFaults /\ faults' = faults + 1
    /\ Leaves(i, "torn") /\ Go(i, "undo")
    /\ UNCHANGED <<flag, engine, crashed, uses>>

Swap(i) ==
    /\ At(i, "swap") /\ Go(i, "rename") /\ pack' = NoDir
    /\ UNCHANGED <<temp, flag, engine, crashed, faults, uses>>

Rename(i) ==
    /\ At(i, "rename")
    /\ IF temp.there /\ ~pack.there
       THEN pack' = temp /\ temp' = NoDir /\ Answer(i, "ok")
       ELSE Go(i, "undo") /\ UNCHANGED <<temp, pack, flag>>
    /\ UNCHANGED <<engine, crashed, faults, uses>>

Undo(i) ==
    /\ At(i, "undo") /\ temp' = NoDir /\ Answer(i, "failed")
    /\ UNCHANGED <<pack, engine, crashed, faults, uses>>

-----------------------------------------------------------------------------
(* The windows *)

Uses == uses < MaxUses /\ uses' = uses + 1

(* translation_cancel_install *)
Cancel ==
    /\ Uses /\ flag # Nobody /\ job' = [job EXCEPT ![flag].cancelled = TRUE]
    /\ UNCHANGED <<temp, pack, flag, engine, crashed, faults>>

(* translation_remove_model, after resetOfflineTranslator in its window *)
Remove ==
    /\ Uses /\ pack.there /\ pack' = NoDir
    /\ UNCHANGED <<temp, flag, job, engine, crashed, faults>>

(* translation_model_files, then one request per file (loadTranslationModel). *)
Load ==
    /\ Uses /\ engine.at = "idle" /\ Verified
    /\ engine' = [at |-> "read", k |-> 1, got |-> {}]
    /\ UNCHANGED <<temp, pack, flag, job, crashed, faults>>

Read ==
    /\ engine.at = "read"
    /\ LET c == pack.file[engine.k]
       IN engine' = [at  |-> IF c = "none" \/ engine.k = Files THEN "idle" ELSE "read",
                     k   |-> IF c = "none" \/ engine.k = Files THEN 1 ELSE engine.k + 1,
                     got |-> IF c = "none" THEN {} ELSE engine.got \cup {c}]
    /\ UNCHANGED <<temp, pack, flag, job, crashed, faults, uses>>

(* The process ends: what was being written stays torn. *)
Torn(dir) ==
    [dir EXCEPT !.file = [k \in 1..Files |-> IF dir.file[k] \in Installers THEN "torn"
                                             ELSE dir.file[k]]]
Crash ==
    /\ faults < MaxFaults /\ faults' = faults + 1
    /\ temp' = Torn(temp) /\ pack' = Torn(pack) /\ flag' = Nobody
    /\ job' = [i \in Installers |-> Idle]
    /\ engine' = [at |-> "idle", k |-> 1, got |-> {}]
    /\ crashed' = TRUE /\ UNCHANGED uses

Next ==
    \/ \E i \in Installers :
          \/ Install(i) \/ Clear(i) \/ Make(i) \/ Request(i) \/ Create(i) \/ Write(i)
          \/ Corrupt(i) \/ Broken(i) \/ Swap(i) \/ Rename(i) \/ Undo(i)
    \/ Cancel \/ Remove \/ Load \/ Read \/ Crash

Spec == Init /\ [][Next]_vars

-----------------------------------------------------------------------------
(* Properties *)

(* "Every file is verified before the pack is installed"                    *)
(* (docs/offline-translation.md:51), whatever breaks, is cancelled or ends; *)
(* while one installation runs at a time.                                   *)
PackIsVerified == pack.there => Verified

(* The translator loads no file that is not whole, though the pack may be   *)
(* removed and installed again after translation_model_files has looked;    *)
(* likewise.                                                                *)
LoadsOnlyVerified == engine.got \subseteq {"good"}

(* No partial download is left once nothing downloads, though any number of *)
(* installations take each other's directory away: whoever makes it removes *)
(* or renames whatever is there in the end, and the next installation what  *)
(* a process that ended has left.                                           *)
Holding == {"get", "asked", "write", "swap", "rename", "undo"}
NothingPartialLeft == temp.there => crashed \/ \E i \in Installers : job[i].at \in Holding

(* All three; the first two where one window installs the pack.             *)
OneAtATime == \A i, j \in Installers : i = j
PackSafe   == /\ OneAtATime => PackIsVerified /\ LoadsOnlyVerified
              /\ NothingPartialLeft
=============================================================================
