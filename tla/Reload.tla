------------------------------- MODULE Reload -------------------------------
(***************************************************************************)
(* Hot reload of a policy source or of the TLS material (watch_and_reload, *)
(* run_policy_reload, run_tls_reload): the watcher compares the files'     *)
(* fingerprint, path with modification time and length, with the one of    *)
(* its last successful reload, and reads the files when it differs or when *)
(* a SIGHUP forces it.  Somebody edits the files meanwhile, between any    *)
(* two reads of a fingerprint or of a load.                                *)
(*                                                                         *)
(* Files are numbered in the order in which they are read.  A write gives  *)
(* a file a fresh stamp, which stands for what the fingerprint records.    *)
(***************************************************************************)
EXTENDS Integers, FiniteSets

CONSTANTS NFiles,      \* files of the source; the TLS source has two
          MaxWrites,   \* bound: writes and removals
          MaxHups      \* bound: SIGHUPs

ASSUME ReloadAssumption == NFiles \in Nat

VARIABLES kind,      \* what is watched: a directory, a list of files, a certificate and its key
          disk,      \* the files: stamp (0: absent), revision and whether it parses
          writes,    \* writes and removals so far
          hups,      \* SIGHUPs sent so far, and whether one is pending
          watch,     \* the gateway's startup load, then its watcher
          inForce,   \* the revision of each file in force (0: not part of it)
          gap        \* whether the startup load and the first fingerprint saw different files

rvars == <<kind, disk, writes, hups, watch, inForce, gap>>

Files == 1..NFiles
Absent == [stamp |-> 0, rev |-> 0, good |-> FALSE]
Nothing == [f \in Files |-> Absent]
Stamps(files) == [f \in Files |-> files[f].stamp]
Revs(files) == [f \in Files |-> files[f].rev]

\* `at` is the next file to look at, `next` the fingerprint being taken,
\* `current` the one of the last successful reload, `got` what was read.
Watching == [pc |-> "load", at |-> 1, listed |-> Files, next |-> Stamps(Nothing),
             current |-> Stamps(Nothing), got |-> Nothing]

RInit ==
    /\ kind \in {"dir", "files", "tls"}
    /\ disk = [f \in Files |-> [stamp |-> 1, rev |-> 1, good |-> TRUE]]
    /\ writes = 1
    /\ hups = [sent |-> 0, pending |-> FALSE]
    /\ watch = [Watching EXCEPT !.pc = "list"]
    /\ inForce = Revs(Nothing)
    /\ gap = FALSE

-----------------------------------------------------------------------------
\* PolicySet::from_documents parses every document; rustls refuses a key that
\* is not the certificate's.
Loadable(files, listed) ==
    /\ \A f \in listed : files[f].good
    /\ kind = "tls" => \A f, g \in listed : files[f].rev = files[g].rev

Starting == watch.pc \in {"list", "load", "built"}

\* A load that fails: at startup the gateway exits, later what is in force stays
\* and the fingerprint too, so that the next tick tries again.
Fails == watch' = [watch EXCEPT !.pc = IF Starting THEN "exited" ELSE "wait", !.got = Nothing,
                                !.listed = Files, !.next = Stamps(Nothing), !.at = 1]

\* load_dir lists the directory and refuses an empty one; a list of files, or
\* certificate and key, is read as given.
List ==
    /\ watch.pc \in {"list", "relist"}
    /\ LET listed == IF kind = "dir" THEN {f \in Files : disk[f].stamp # 0} ELSE Files
       IN IF listed = {} THEN Fails
          ELSE watch' = [watch EXCEPT !.pc = IF @ = "list" THEN "load" ELSE "reload",
                                      !.at = 1, !.listed = listed]
    /\ UNCHANGED <<kind, disk, writes, hups, inForce, gap>>

\* load_files reads the files one after the other; one that is gone is an error.
ReadFile ==
    /\ watch.pc \in {"load", "reload"} /\ watch.at <= NFiles
    /\ IF watch.at \in watch.listed /\ disk[watch.at].stamp = 0 THEN Fails
       ELSE watch' = [watch EXCEPT !.at = @ + 1,
                        !.got = IF watch.at \in watch.listed
                                THEN [@ EXCEPT ![watch.at] = disk[watch.at]] ELSE @]
    /\ UNCHANGED <<kind, disk, writes, hups, inForce, gap>>

\* The set is parsed and takes effect (handle.store, reloader.reload); only then
\* the fingerprint taken before the load becomes the current one.
TakeEffect ==
    /\ watch.pc \in {"load", "reload"} /\ watch.at > NFiles
    /\ IF Loadable(watch.got, watch.listed)
       THEN /\ inForce' = Revs(watch.got)
            /\ gap' = FALSE
            /\ watch' = IF Starting
                        THEN [watch EXCEPT !.pc = "built", !.at = 1]
                        ELSE [Watching EXCEPT !.pc = "wait", !.current = watch.next]
       ELSE Fails /\ UNCHANGED <<inForce, gap>>
    /\ UNCHANGED <<kind, disk, writes, hups>>

\* The watcher's first tick comes at once; it takes the fingerprint it will
\* compare with, file by file.
FirstFingerprint ==
    /\ watch.pc = "built" /\ watch.at <= NFiles
    /\ watch' = [watch EXCEPT !.at = @ + 1, !.current[watch.at] = disk[watch.at].stamp]
    /\ gap' = (gap \/ watch.got[watch.at].stamp # disk[watch.at].stamp)
    /\ UNCHANGED <<kind, disk, writes, hups, inForce>>

StartWatching ==
    /\ watch.pc = "built" /\ watch.at > NFiles
    /\ watch' = [Watching EXCEPT !.pc = "wait", !.current = watch.current]
    /\ UNCHANGED <<kind, disk, writes, hups, inForce, gap>>

\* A tick of the interval, or a SIGHUP, starts a fingerprint.
Wake(forced) ==
    /\ watch.pc = "wait"
    /\ forced => hups.pending
    /\ hups' = [hups EXCEPT !.pending = @ /\ ~forced]
    /\ watch' = [watch EXCEPT !.pc = IF forced THEN "stat_forced" ELSE "stat", !.at = 1]
    /\ UNCHANGED <<kind, disk, writes, inForce, gap>>

Fingerprint ==
    /\ watch.pc \in {"stat", "stat_forced"} /\ watch.at <= NFiles
    /\ watch' = [watch EXCEPT !.at = @ + 1, !.next[watch.at] = disk[watch.at].stamp]
    /\ UNCHANGED <<kind, disk, writes, hups, inForce, gap>>

\* Mutant: the new fingerprint is kept whether or not the load succeeds.
Compare_TakenAtOnce ==
    /\ watch.pc \in {"stat", "stat_forced"} /\ watch.at > NFiles
    /\ watch' = IF watch.pc = "stat" /\ watch.next = watch.current
                THEN [Watching EXCEPT !.pc = "wait", !.current = watch.current]
                ELSE [watch EXCEPT !.pc = "relist", !.at = 1, !.current = watch.next]
    /\ UNCHANGED <<kind, disk, writes, hups, inForce, gap>>

\* Mutant: only a SIGHUP reloads.
Compare_OnlyForced ==
    /\ watch.pc \in {"stat", "stat_forced"} /\ watch.at > NFiles
    /\ watch' = IF watch.pc = "stat"
                THEN [Watching EXCEPT !.pc = "wait", !.current = watch.current]
                ELSE [watch EXCEPT !.pc = "relist", !.at = 1]
    /\ UNCHANGED <<kind, disk, writes, hups, inForce, gap>>

\* Nothing to do unless the fingerprint has changed or a SIGHUP came.
Compare ==
    /\ watch.pc \in {"stat", "stat_forced"} /\ watch.at > NFiles
    /\ watch' = IF watch.pc = "stat" /\ watch.next = watch.current
                THEN [Watching EXCEPT !.pc = "wait", !.current = watch.current]
                ELSE [watch EXCEPT !.pc = "relist", !.at = 1]
    /\ UNCHANGED <<kind, disk, writes, hups, inForce, gap>>

\* The supervisor starts the gateway again.
RestartGateway ==
    /\ watch.pc = "exited"
    /\ watch' = [Watching EXCEPT !.pc = "list"]
    /\ gap' = FALSE
    /\ inForce' = Revs(Nothing)
    /\ UNCHANGED <<kind, disk, writes, hups>>

-----------------------------------------------------------------------------
\* The administrator writes a file, the same revision again or the next one.
Write(f, step, good) ==
    /\ writes < MaxWrites
    /\ writes' = writes + 1
    /\ disk' = [disk EXCEPT ![f] = [stamp |-> writes + 1, good |-> good,
                                    rev |-> IF @.rev = 0 THEN 1 ELSE @.rev + step]]
    /\ UNCHANGED <<kind, hups, watch, inForce, gap>>

Remove(f) ==
    /\ writes < MaxWrites
    /\ writes' = writes + 1
    /\ disk' = [disk EXCEPT ![f] = Absent]
    /\ UNCHANGED <<kind, hups, watch, inForce, gap>>

Hup ==
    /\ hups.sent < MaxHups /\ watch.pc \notin {"list", "load", "built", "exited"}
    /\ hups' = [sent |-> hups.sent + 1, pending |-> TRUE]
    /\ UNCHANGED <<kind, disk, writes, watch, inForce, gap>>

Watcher ==
    \/ List \/ ReadFile \/ TakeEffect \/ FirstFingerprint \/ StartWatching
    \/ \E forced \in BOOLEAN : Wake(forced)
    \/ Fingerprint \/ Compare \/ RestartGateway

RNext ==
    \/ Watcher
    \/ \E f \in Files, step \in 0..1, good \in BOOLEAN : Write(f, step, good)
    \/ \E f \in Files : Remove(f)
    \/ Hup

RSpec == RInit /\ [][RNext]_rvars /\ WF_rvars(Watcher)

-----------------------------------------------------------------------------
RTypeOK ==
    /\ kind \in {"dir", "files", "tls"}
    /\ watch.pc \in {"list", "load", "built", "wait", "stat", "stat_forced", "relist", "reload", "exited"}
    /\ watch.at \in 1..(NFiles + 1) /\ watch.listed \subseteq Files
    /\ gap \in BOOLEAN /\ DOMAIN inForce = Files

ListedOf(files) == IF kind = "dir" THEN {f \in Files : files[f].stamp # 0} ELSE Files

\* "A revision that fails to load is kept out; the current certificate stays in
\* use": certificate and key in force are always of one revision, although an
\* edit replaces them one at a time and the watcher may read in between.
PairInForce == kind = "tls" => \A f, g \in Files : inForce[f] = inForce[g]

\* The files that are there are in force as they are.
AsOnDisk == \A f \in Files : disk[f].stamp # 0 => inForce[f] = disk[f].rev

\* No edit is lost: while the watcher waits with a fingerprint that matches the
\* files, every file that is there is in force as it is.  An edit that falls
\* between a fingerprint and its load, or between two reads of a load, shows at
\* the next tick, because the fingerprint is taken before the load and kept only
\* if the load succeeds (watch_and_reload).  Two exceptions: an edit between the
\* gateway's startup load and the first fingerprint, which `gap` marks, and a
\* file gone at the fingerprint, back at the load and gone again, which has no
\* stamp to compare.
NoEditIsLost == watch.pc = "wait" /\ watch.current = Stamps(disk) /\ ~gap => AsOnDisk

\* watch_and_reload: a certificate and a key in force belong together, and a
\* watcher that has settled on what it saw has loaded it.
ReloadInv == RTypeOK /\ PairInForce /\ NoEditIsLost

\* Once the edits end with files that load, they are in force for good.
EditInForce == ListedOf(disk) # {} /\ Loadable(disk, ListedOf(disk)) /\ ~gap => AsOnDisk
LastEditTakesEffect == <>[]EditInForce
=============================================================================
