----------------------------- MODULE TaskProofs -----------------------------
(***************************************************************************)
(* Proofs about two tasks of the gateway: the poll for revoked sessions    *)
(* (RevocationSync) and the watcher of the policy and certificate files    *)
(* (Reload).  They hold for any set of sessions and any number of files,   *)
(* and for any number of crashes, failed writes and edits.                 *)
(***************************************************************************)
EXTENDS RevocationSync, Reload, TLAPS

(* Every step of the control plane and of the gateway keeps the types.     *)
THEOREM TypeCorrect == Spec => []TypeOK
<1> USE RevocationSyncAssumption DEF TypeOK
<1>1. Init => TypeOK
    BY DEF Init, NoList
<1>2. TypeOK /\ [Next]_vars => TypeOK'
    <2> SUFFICES ASSUME TypeOK, [Next]_vars PROVE TypeOK'
        OBVIOUS
    <2>1. ASSUME NEW s \in Sids, session[s] # "over", ChangeList(s) PROVE TypeOK'
        BY <2>1 DEF ChangeList
    <2>2. CASE Reach
        BY <2>2 DEF Reach
    <2>3. CASE Crash \/ BodyLost \/ NotCached
        BY <2>3 DEF Crash, BodyLost, NotCached, Fault, NoList, plane
    <2>4. CASE Start \/ PollFails \/ BackedOff
        BY <2>4 DEF Start, PollFails, BackedOff, plane
    <2>5. CASE Answered \/ Staged
        BY <2>5 DEF Answered, Staged, Listed, plane
    <2>6. CASE Renamed \/ Apply
        BY <2>6 DEF Renamed, Apply, NoList, plane
    <2>7. CASE UNCHANGED vars
        BY <2>7 DEF vars
    <2> QED BY <2>1, <2>2, <2>3, <2>4, <2>5, <2>6, <2>7 DEF Next, Gateway
<1> QED BY <1>1, <1>2, PTL DEF Spec

SafeInv == RevocationInv /\ NotRevived

(* A step of the control plane takes no listed session back to live; a     *)
(* step of the gateway caches a list, or notes that it could not, before   *)
(* it applies it.                                                          *)
LEMMA SafeStep ==
    ASSUME TypeOK, SafeInv, [Next]_vars
    PROVE  SafeInv'
<1> USE RevocationSyncAssumption DEF TypeOK, SafeInv, RevocationInv, NotRevived
<1>1. ASSUME NEW s \in Sids, session[s] # "over", ChangeList(s) PROVE SafeInv'
    <2>1. \A t \in Sids : /\ session'[t] # session[t] => t = s
                          /\ session'[t] = "ended" /\ session[t] # "ended" =>
                                session[t] = "live"
                          /\ session[t] # "live" => session'[t] # "live"
        BY <1>1 DEF ChangeList
    <2> QED BY <1>1, <2>1 DEF ChangeList
<1>2. CASE Reach
    BY <1>2 DEF Reach
<1>3. CASE Crash
    BY <1>3 DEF Crash, Fault, NoList, plane
<1>4. CASE BodyLost
    BY <1>4 DEF BodyLost, Fault, NoList, plane
<1>5. CASE NotCached
    BY <1>5 DEF NotCached, Fault, plane
<1>6. CASE Start
    BY <1>6 DEF Start, plane
<1>7. CASE PollFails \/ BackedOff \/ Staged
    BY <1>7 DEF PollFails, BackedOff, Staged, plane
<1>8. CASE Answered
    <2>1. \A s \in Sids : session[s] = "ended" <=> s \in answer'.sids
        BY <1>8 DEF Answered, Listed
    <2>2. answer'.sids \subseteq Sids
        BY <1>8 DEF Answered, Listed
    <2> QED BY <1>8, <2>1, <2>2 DEF Answered, plane
<1>9. CASE Renamed
    BY <1>9 DEF Renamed, plane
<1>10. CASE Apply
    BY <1>10 DEF Apply, NoList, plane
<1>11. CASE UNCHANGED vars
    BY <1>11 DEF vars
<1> QED BY <1>1, <1>2, <1>3, <1>4, <1>5, <1>6, <1>7, <1>8, <1>9, <1>10, <1>11
        DEF Next, Gateway

(* However often it crashes and however long the control plane is out of   *)
(* reach, a gateway that has refused a session refuses it while any of its *)
(* credentials verifies, if the list could be cached.                      *)
THEOREM SessionStaysRefused == Spec => []NotRevived
<1>1. Init => SafeInv
    BY DEF Init, SafeInv, RevocationInv, NotRevived, NoList
<1>2. SafeInv => NotRevived
    BY DEF SafeInv
<1> QED BY <1>1, <1>2, TypeCorrect, SafeStep, PTL DEF Spec

(***************************************************************************)
(* The reload watcher.                                                     *)
(***************************************************************************)
ReloadEntry == [stamp : Nat, rev : Nat, good : BOOLEAN]

WatcherType ==
    [pc : {"list", "load", "built", "wait", "stat", "stat_forced", "relist", "reload",
           "exited"},
     at : 1..(NFiles + 1), listed : SUBSET Files,
     next : [Files -> Nat], current : [Files -> Nat],
     got : [Files -> ReloadEntry]]

(* Certificate and key are always both listed, so that both are compared.  *)
ReloadTypes ==
    /\ kind \in {"dir", "files", "tls"} /\ writes \in Nat /\ gap \in BOOLEAN
    /\ disk \in [Files -> ReloadEntry]
    /\ inForce \in [Files -> Nat]
    /\ watch \in WatcherType
    /\ kind # "dir" => watch.listed = Files
    /\ PairInForce

(* A stamp is never used twice: it stands for one revision of the file.    *)
ReloadStamps ==
    \A f \in Files :
        /\ disk[f].stamp <= writes /\ watch.next[f] <= writes
        /\ watch.current[f] <= writes /\ watch.got[f].stamp <= writes
        /\ watch.got[f].stamp # 0 /\ watch.got[f].stamp = disk[f].stamp =>
            watch.got[f].rev = disk[f].rev

(* A file whose stamp is that of the current fingerprint is in force; one  *)
(* whose stamp is that of the fingerprint being tried is read as it is.    *)
ReloadMatches ==
    /\ watch.pc \in {"wait", "stat", "stat_forced", "relist", "reload"} /\ ~gap =>
        \A f \in Files :
            disk[f].stamp # 0 /\ disk[f].stamp = watch.current[f] => inForce[f] = disk[f].rev
    /\ watch.pc = "reload" =>
        \A f \in Files :
            disk[f].stamp # 0 /\ disk[f].stamp = watch.next[f] =>
                f \in watch.listed /\ (f < watch.at => watch.got[f] = disk[f])
    /\ watch.pc = "built" =>
        \A f \in Files :
            /\ inForce[f] = watch.got[f].rev
            /\ ~gap /\ f < watch.at => watch.got[f].stamp = watch.current[f]

(* Nothing that was read, and no set of files, has entries or stamps.      *)
LEMMA NothingType ==
    /\ Nothing \in [Files -> ReloadEntry]
    /\ Stamps(Nothing) \in [Files -> Nat]
    /\ Revs(Nothing) \in [Files -> Nat]
    /\ \A f \in Files :
        /\ Nothing[f].stamp = 0
        /\ Stamps(Nothing)[f] = 0 /\ Revs(Nothing)[f] = 0
BY DEF Nothing, Absent, Stamps, Revs, ReloadEntry

(* The files are numbered from 1 to NFiles.                                *)
LEMMA FilesAre ==
    /\ \A f \in Files : f \in Nat /\ f >= 1 /\ f <= NFiles
    /\ \A n \in Nat : n >= 1 /\ n <= NFiles => n \in Files
BY ReloadAssumption DEF Files

(* What each step of the watcher leaves of its state.                      *)
LEMMA WatcherFails ==
    ASSUME watch \in WatcherType, Fails
    PROVE  /\ watch' \in WatcherType
           /\ watch'.pc \in {"exited", "wait"} /\ watch'.at = 1 /\ watch'.listed = Files
           /\ (watch.pc \in {"relist", "reload"} => watch'.pc = "wait")
           /\ (watch.pc \in {"list", "load"} => watch'.pc = "exited")
           /\ watch'.next = Stamps(Nothing) /\ watch'.current = watch.current
           /\ watch'.got = Nothing
<1> DEFINE p == IF Starting THEN "exited" ELSE "wait"
            n == Stamps(Nothing)
<1>1. /\ p \in {"exited", "wait"} /\ 1 \in 1..(NFiles + 1)
      /\ (watch.pc \in {"relist", "reload"} => p = "wait")
      /\ (watch.pc \in {"list", "load"} => p = "exited")
    BY ReloadAssumption DEF Starting
<1>2. watch' = [watch EXCEPT !.pc = p, !.got = Nothing, !.listed = Files,
                             !.next = n, !.at = 1]
    BY DEF Fails
<1>3. n \in [Files -> Nat] /\ Nothing \in [Files -> ReloadEntry]
    BY NothingType
<1> HIDE DEF p, n
<1>4. watch' \in WatcherType
    BY <1>1, <1>2, <1>3 DEF WatcherType
<1>5. /\ watch'.pc = p /\ watch'.at = 1 /\ watch'.listed = Files
      /\ watch'.next = n /\ watch'.current = watch.current /\ watch'.got = Nothing
    BY <1>2 DEF WatcherType
<1> QED BY <1>1, <1>4, <1>5 DEF n

(* load_dir lists the directory at the start of a load.                    *)
LEMMA WatcherList ==
    ASSUME watch \in WatcherType, List, ~Fails
    PROVE  /\ watch' \in WatcherType
           /\ \/ watch.pc = "list" /\ watch'.pc = "load"
              \/ watch.pc = "relist" /\ watch'.pc = "reload"
           /\ watch'.at = 1
           /\ watch'.listed =
                IF kind = "dir" THEN {f \in Files : disk[f].stamp # 0} ELSE Files
           /\ watch'.next = watch.next /\ watch'.current = watch.current
           /\ watch'.got = watch.got
<1> DEFINE listed == IF kind = "dir" THEN {f \in Files : disk[f].stamp # 0} ELSE Files
            p == IF watch.pc = "list" THEN "load" ELSE "reload"
<1>1. listed \in SUBSET Files /\ 1 \in 1..(NFiles + 1)
    BY ReloadAssumption
<1>2. watch.pc \in {"list", "relist"} /\ watch' = [watch EXCEPT !.pc = p, !.at = 1, !.listed = listed]
    BY DEF List
<1>3. \/ watch.pc = "list" /\ p = "load" 
      \/ watch.pc = "relist" /\ p = "reload"
    BY <1>2
<1> HIDE DEF listed, p
<1>4. watch' \in WatcherType
    BY <1>1, <1>2, <1>3 DEF WatcherType
<1>5. /\ watch'.pc = p /\ watch'.at = 1 /\ watch'.listed = listed
      /\ watch'.next = watch.next /\ watch'.current = watch.current /\ watch'.got = watch.got
    BY <1>2 DEF WatcherType
<1> QED BY <1>3, <1>4, <1>5, Zenon DEF listed

(* load_files reads one file after the other.                              *)
LEMMA WatcherRead ==
    ASSUME watch \in WatcherType, disk \in [Files -> ReloadEntry], ReadFile, ~Fails
    PROVE  /\ watch' \in WatcherType
           /\ watch'.pc = watch.pc /\ watch'.at = watch.at + 1 /\ watch'.listed = watch.listed
           /\ watch'.next = watch.next /\ watch'.current = watch.current
           /\ watch'.got = IF watch.at \in watch.listed
                           THEN [watch.got EXCEPT ![watch.at] = disk[watch.at]] ELSE watch.got
<1> DEFINE g == IF watch.at \in watch.listed
                THEN [watch.got EXCEPT ![watch.at] = disk[watch.at]] ELSE watch.got
<1>0. watch.at \in Nat /\ watch.at >= 1 /\ watch.at <= NFiles /\ watch.at + 1 \in 1..(NFiles + 1)
    BY ReloadAssumption DEF ReadFile, WatcherType
<1>1. g \in [Files -> ReloadEntry]
    BY <1>0, FilesAre DEF WatcherType
<1>2. watch' = [watch EXCEPT !.at = @ + 1, !.got = g]
    BY DEF ReadFile, WatcherType
<1> HIDE DEF g
<1>3. watch' \in WatcherType /\ watch'.got = g
    BY <1>0, <1>1, <1>2 DEF WatcherType
<1> QED BY <1>2, <1>3 DEF WatcherType, g

(* The startup load is done and the first fingerprint begins.              *)
LEMMA WatcherBuilt ==
    ASSUME watch \in WatcherType, watch' = [watch EXCEPT !.pc = "built", !.at = 1]
    PROVE  /\ watch' \in WatcherType
           /\ watch'.pc = "built" /\ watch'.at = 1 /\ watch'.listed = watch.listed
           /\ watch'.next = watch.next /\ watch'.current = watch.current
           /\ watch'.got = watch.got
<1>1. 1 \in 1..(NFiles + 1)
    BY ReloadAssumption
<1>2. watch' \in WatcherType
    BY <1>1 DEF WatcherType
<1> QED BY <1>2 DEF WatcherType

(* The watcher settles on a fingerprint, or a start begins anew.           *)
LEMMA WatcherWaits ==
    ASSUME NEW p \in {"list", "wait"}, NEW c \in [Files -> Nat],
           watch' = [Watching EXCEPT !.pc = p, !.current = c]
    PROVE  /\ watch' \in WatcherType
           /\ watch'.pc = p /\ watch'.at = 1 /\ watch'.listed = Files
           /\ watch'.next = Stamps(Nothing) /\ watch'.current = c
           /\ watch'.got = Nothing
<1>1. /\ Watching \in WatcherType /\ Watching.at = 1
      /\ Watching.listed = Files
      /\ Watching.next = Stamps(Nothing)
      /\ Watching.got = Nothing
    BY NothingType, ReloadAssumption DEF Watching, WatcherType
<1>2. watch' \in WatcherType
    BY <1>1 DEF WatcherType
<1> QED BY <1>1, <1>2 DEF WatcherType

(* The first fingerprint stamps one file at a time.                        *)
LEMMA WatcherFirst ==
    ASSUME watch \in WatcherType, disk \in [Files -> ReloadEntry], FirstFingerprint
    PROVE  /\ watch' \in WatcherType
           /\ watch'.pc = "built" /\ watch'.at = watch.at + 1 /\ watch'.listed = watch.listed
           /\ watch'.next = watch.next /\ watch'.got = watch.got
           /\ watch'.current = [watch.current EXCEPT ![watch.at] = disk[watch.at].stamp]
<1> DEFINE c == [watch.current EXCEPT ![watch.at] = disk[watch.at].stamp]
<1>0. watch.at \in Nat /\ watch.at >= 1 /\ watch.at <= NFiles /\ watch.at + 1 \in 1..(NFiles + 1)
    BY ReloadAssumption DEF FirstFingerprint, WatcherType
<1>1. c \in [Files -> Nat]
    BY <1>0, FilesAre DEF WatcherType, ReloadEntry
<1>2. watch' = [watch EXCEPT !.at = @ + 1, !.current = c]
    BY DEF FirstFingerprint, WatcherType
<1> HIDE DEF c
<1>3. watch' \in WatcherType /\ watch'.current = c
    BY <1>0, <1>1, <1>2 DEF WatcherType
<1>4. watch.pc = "built"
    BY DEF FirstFingerprint
<1> QED BY <1>2, <1>3, <1>4 DEF WatcherType, c

(* A tick or a SIGHUP starts a new fingerprint.                            *)
LEMMA WatcherWakes ==
    ASSUME watch \in WatcherType, NEW forced \in BOOLEAN, Wake(forced)
    PROVE  /\ watch' \in WatcherType
           /\ watch'.pc \in {"stat", "stat_forced"} /\ watch'.at = 1
           /\ watch'.listed = watch.listed /\ watch'.next = watch.next
           /\ watch'.current = watch.current /\ watch'.got = watch.got
<1> DEFINE p == IF forced THEN "stat_forced" ELSE "stat"
<1>1. p \in {"stat", "stat_forced"} /\ 1 \in 1..(NFiles + 1)
    BY ReloadAssumption
<1>2. watch' = [watch EXCEPT !.pc = p, !.at = 1]
    BY DEF Wake
<1> HIDE DEF p
<1> QED BY <1>1, <1>2 DEF WatcherType

(* So does each later fingerprint.                                         *)
LEMMA WatcherStamps ==
    ASSUME watch \in WatcherType, disk \in [Files -> ReloadEntry], Fingerprint
    PROVE  /\ watch' \in WatcherType
           /\ watch'.pc = watch.pc /\ watch'.at = watch.at + 1 /\ watch'.listed = watch.listed
           /\ watch'.next = [watch.next EXCEPT ![watch.at] = disk[watch.at].stamp]
           /\ watch'.current = watch.current /\ watch'.got = watch.got
<1> DEFINE n == [watch.next EXCEPT ![watch.at] = disk[watch.at].stamp]
<1>0. watch.at \in Nat /\ watch.at >= 1 /\ watch.at <= NFiles /\ watch.at + 1 \in 1..(NFiles + 1)
    BY ReloadAssumption DEF Fingerprint, WatcherType
<1>1. n \in [Files -> Nat]
    BY <1>0, FilesAre DEF WatcherType, ReloadEntry
<1>2. watch' = [watch EXCEPT !.at = @ + 1, !.next = n]
    BY DEF Fingerprint, WatcherType
<1> HIDE DEF n
<1>3. watch' \in WatcherType /\ watch'.next = n
    BY <1>0, <1>1, <1>2 DEF WatcherType
<1> QED BY <1>2, <1>3 DEF WatcherType, n

(* A changed or forced fingerprint leads to a load.                        *)
LEMMA WatcherRelists ==
    ASSUME watch \in WatcherType, watch' = [watch EXCEPT !.pc = "relist", !.at = 1]
    PROVE  /\ watch' \in WatcherType
           /\ watch'.pc = "relist" /\ watch'.at = 1 /\ watch'.listed = watch.listed
           /\ watch'.next = watch.next /\ watch'.current = watch.current
           /\ watch'.got = watch.got
<1>1. 1 \in 1..(NFiles + 1)
    BY ReloadAssumption
<1>2. watch' \in WatcherType
    BY <1>1 DEF WatcherType
<1> QED BY <1>2 DEF WatcherType

(* A restarted gateway knows nothing of the files.                         *)
LEMMA WatcherRestarts ==
    ASSUME RestartGateway
    PROVE  /\ watch' \in WatcherType
           /\ watch'.pc = "list" /\ watch'.at = 1 /\ watch'.listed = Files
           /\ watch'.next = Stamps(Nothing)
           /\ watch'.current = Stamps(Nothing) /\ watch'.got = Nothing
<1>1. Watching.current = Stamps(Nothing)
    BY DEF Watching
<1>2. watch' = [Watching EXCEPT !.pc = "list", !.current = Watching.current]
    BY DEF RestartGateway, Watching
<1> QED BY <1>1, <1>2, WatcherWaits, NothingType

(* A failed load leaves everything but the watcher alone.                  *)
ReloadFails ==
    /\ watch.pc \in {"list", "load", "relist", "reload"} /\ Fails
    /\ UNCHANGED <<kind, disk, writes, hups, inForce, gap>>

(* The steps of the watcher and its surroundings, failed loads set apart.  *)
LEMMA ReloadCases ==
    ASSUME ReloadTypes, RNext
    PROVE  \/ ReloadFails
           \/ List /\ ~Fails
           \/ ReadFile /\ ~Fails
           \/ TakeEffect /\ Loadable(watch.got, watch.listed)
           \/ FirstFingerprint \/ StartWatching
           \/ \E forced \in BOOLEAN : Wake(forced)
           \/ Fingerprint \/ Compare \/ RestartGateway
           \/ \E f \in Files, step \in 0..1, good \in BOOLEAN : Write(f, step, good)
           \/ \E f \in Files : Remove(f)
           \/ Hup
<1>1. ASSUME List, Fails PROVE ReloadFails
    BY <1>1 DEF List, ReloadFails
<1>2. ASSUME ReadFile, Fails PROVE ReloadFails
    BY <1>2 DEF ReadFile, ReloadFails
<1>3. ASSUME TakeEffect, ~Loadable(watch.got, watch.listed) PROVE ReloadFails
    BY <1>3 DEF TakeEffect, ReloadFails
<1> QED BY <1>1, <1>2, <1>3, Zenon DEF RNext, Watcher

(* Every step keeps the types, and a pair in force together.               *)
LEMMA ReloadTypeStep ==
    ASSUME ReloadTypes, RNext
    PROVE  ReloadTypes'
<1>0. /\ kind \in {"dir", "files", "tls"} /\ writes \in Nat /\ gap \in BOOLEAN
      /\ disk \in [Files -> ReloadEntry]
      /\ inForce \in [Files -> Nat]
      /\ watch \in WatcherType
      /\ kind # "dir" => watch.listed = Files
      /\ PairInForce
    BY DEF ReloadTypes
<1>f. \A f \in Files : disk[f] \in ReloadEntry /\ disk[f].rev \in Nat
    BY <1>0 DEF ReloadEntry
<1>g. watch.got \in [Files -> ReloadEntry] /\ watch.next \in [Files -> Nat]
      /\ watch.current \in [Files -> Nat]
    BY <1>0 DEF WatcherType
<1>1. CASE ReloadFails
  <2>1. watch' \in WatcherType /\ watch'.listed = Files
      BY <1>0, <1>1, WatcherFails DEF ReloadFails
  <2> QED BY <1>0, <1>1, <2>1 DEF ReloadFails, ReloadTypes, PairInForce
<1>2. CASE List /\ ~Fails
  <2>1. watch' \in WatcherType /\ (kind # "dir" => watch'.listed = Files)
      BY <1>0, <1>2, WatcherList
  <2> QED BY <1>0, <1>2, <2>1 DEF List, ReloadTypes, PairInForce
<1>3. CASE ReadFile /\ ~Fails
  <2>1. watch' \in WatcherType /\ watch'.listed = watch.listed
      BY <1>0, <1>3, WatcherRead
  <2> QED BY <1>0, <1>3, <2>1 DEF ReadFile, ReloadTypes, PairInForce
<1>4. CASE TakeEffect /\ Loadable(watch.got, watch.listed)
  <2>1. /\ inForce' = Revs(watch.got) /\ gap' = FALSE
        /\ UNCHANGED <<kind, disk, writes, hups>>
        /\ watch' = IF Starting
                    THEN [watch EXCEPT !.pc = "built", !.at = 1]
                    ELSE [Watching EXCEPT !.pc = "wait", !.current = watch.next]
      BY <1>4 DEF TakeEffect
  <2>2. watch' \in WatcherType /\ (watch'.listed = watch.listed \/ watch'.listed = Files)
    <3>1. CASE Starting
        BY <1>0, <2>1, <3>1, WatcherBuilt
    <3>2. CASE ~Starting
        BY <1>g, <2>1, <3>2, WatcherWaits, Zenon
    <3> QED BY <3>1, <3>2
  <2>3. /\ inForce' \in [Files -> Nat]
        /\ \A f \in Files : inForce'[f] = watch.got[f].rev
      BY <1>g, <2>1 DEF Revs, ReloadEntry
  <2>4. kind = "tls" => \A f, g \in Files : inForce'[f] = inForce'[g]
      BY <1>0, <1>4, <2>3 DEF Loadable
  <2> QED BY <1>0, <2>1, <2>2, <2>3, <2>4 DEF ReloadTypes, PairInForce
<1>5. CASE FirstFingerprint
  <2>1. watch' \in WatcherType /\ watch'.listed = watch.listed
      BY <1>0, <1>5, WatcherFirst
  <2>2. gap' \in BOOLEAN
      BY <1>5 DEF FirstFingerprint
  <2> QED BY <1>0, <1>5, <2>1, <2>2 DEF FirstFingerprint, ReloadTypes, PairInForce
<1>6. CASE StartWatching
  <2>1. watch' \in WatcherType /\ watch'.listed = Files
      BY <1>g, <1>6, WatcherWaits, Zenon DEF StartWatching
  <2> QED BY <1>0, <1>6, <2>1 DEF StartWatching, ReloadTypes, PairInForce
<1>7. ASSUME NEW forced \in BOOLEAN, Wake(forced) PROVE ReloadTypes'
  <2>1. watch' \in WatcherType /\ watch'.listed = watch.listed
      BY <1>0, <1>7, WatcherWakes
  <2> QED BY <1>0, <1>7, <2>1 DEF Wake, ReloadTypes, PairInForce
<1>8. CASE Fingerprint
  <2>1. watch' \in WatcherType /\ watch'.listed = watch.listed
      BY <1>0, <1>8, WatcherStamps
  <2> QED BY <1>0, <1>8, <2>1 DEF Fingerprint, ReloadTypes, PairInForce
<1>9. CASE Compare
  <2>1. watch' \in WatcherType /\ (watch'.listed = watch.listed \/ watch'.listed = Files)
    <3>1. CASE watch.pc = "stat" /\ watch.next = watch.current
        BY <1>g, <1>9, <3>1, WatcherWaits, Zenon DEF Compare
    <3>2. CASE ~(watch.pc = "stat" /\ watch.next = watch.current)
        BY <1>0, <1>9, <3>2, WatcherRelists DEF Compare
    <3> QED BY <3>1, <3>2
  <2> QED BY <1>0, <1>9, <2>1 DEF Compare, ReloadTypes, PairInForce
<1>10. CASE RestartGateway
  <2>3. watch' \in WatcherType /\ watch'.listed = Files
      BY <1>10, WatcherRestarts
  <2>4. /\ inForce' \in [Files -> Nat] /\ gap' = FALSE
        /\ \A f \in Files : inForce'[f] = 0
      BY <1>10, NothingType DEF RestartGateway
  <2> QED BY <1>0, <1>10, <2>3, <2>4 DEF RestartGateway, ReloadTypes, PairInForce
<1>11. ASSUME NEW f \in Files, NEW step \in 0..1, NEW good \in BOOLEAN,
              Write(f, step, good)
       PROVE  ReloadTypes'
  <2> DEFINE e == [stamp |-> writes + 1, good |-> good,
                   rev |-> IF disk[f].rev = 0 THEN 1 ELSE disk[f].rev + step]
  <2>1. e \in ReloadEntry
      BY <1>0, <1>f DEF ReloadEntry
  <2>2. disk' = [disk EXCEPT ![f] = e] /\ writes' = writes + 1
        /\ UNCHANGED <<kind, hups, watch, inForce, gap>>
      BY <1>11 DEF Write
  <2> HIDE DEF e
  <2>3. disk' \in [Files -> ReloadEntry] /\ writes' \in Nat
      BY <1>0, <2>1, <2>2
  <2> QED BY <1>0, <2>2, <2>3 DEF ReloadTypes, PairInForce
<1>12. ASSUME NEW f \in Files, Remove(f) PROVE ReloadTypes'
  <2>1. Absent \in ReloadEntry
      BY DEF Absent, ReloadEntry
  <2>2. disk' = [disk EXCEPT ![f] = Absent] /\ writes' = writes + 1
        /\ UNCHANGED <<kind, hups, watch, inForce, gap>>
      BY <1>12 DEF Remove
  <2>3. disk' \in [Files -> ReloadEntry] /\ writes' \in Nat
      BY <1>0, <2>1, <2>2
  <2> QED BY <1>0, <2>2, <2>3 DEF ReloadTypes, PairInForce
<1>13. CASE Hup
    BY <1>0, <1>13 DEF Hup, ReloadTypes, PairInForce
<1> QED BY <1>1, <1>2, <1>3, <1>4, <1>5, <1>6, <1>7, <1>8, <1>9, <1>10, <1>11, <1>12, <1>13,
           ReloadCases, Zenon

(* A stamp stands for one revision: no step uses one twice.                *)
LEMMA ReloadStampStep ==
    ASSUME ReloadTypes, ReloadStamps, RNext
    PROVE  ReloadStamps'
<1>0. /\ writes \in Nat /\ gap \in BOOLEAN
      /\ disk \in [Files -> ReloadEntry]
      /\ inForce \in [Files -> Nat]
      /\ watch \in WatcherType
    BY DEF ReloadTypes
<1>f. \A f \in Files :
        /\ disk[f] \in ReloadEntry /\ disk[f].stamp \in Nat /\ disk[f].rev \in Nat
        /\ watch.got[f] \in ReloadEntry /\ watch.got[f].stamp \in Nat /\ watch.got[f].rev \in Nat
        /\ watch.next[f] \in Nat /\ watch.current[f] \in Nat
    BY <1>0 DEF ReloadEntry, WatcherType
<1>g. /\ watch.got \in [Files -> ReloadEntry] /\ watch.next \in [Files -> Nat]
      /\ watch.current \in [Files -> Nat] /\ watch.at \in Nat /\ watch.at >= 1
      /\ watch.pc \in {"list", "load", "built", "wait", "stat", "stat_forced", "relist", "reload",
                       "exited"}
    BY <1>0, ReloadAssumption DEF WatcherType
<1>1. CASE ReloadFails
  <2>1. /\ watch'.next = Stamps(Nothing) /\ watch'.current = watch.current
        /\ watch'.got = Nothing
      BY <1>0, <1>1, WatcherFails DEF ReloadFails
  <2>2. UNCHANGED <<disk, writes>>
      BY <1>1 DEF ReloadFails
  <2> QED BY <1>0, <1>f, <2>1, <2>2, NothingType DEF ReloadStamps
<1>2. CASE List /\ ~Fails
  <2>1. watch'.next = watch.next /\ watch'.current = watch.current /\ watch'.got = watch.got
      BY <1>0, <1>2, WatcherList
  <2>2. UNCHANGED <<disk, writes>>
      BY <1>2 DEF List
  <2> QED BY <2>1, <2>2 DEF ReloadStamps
<1>3. CASE ReadFile /\ ~Fails
  <2>1. /\ watch'.next = watch.next /\ watch'.current = watch.current
        /\ \A f \in Files : watch'.got[f] = watch.got[f] \/ watch'.got[f] = disk[f]
      BY <1>0, <1>3, <1>g, WatcherRead
  <2>2. UNCHANGED <<disk, writes>>
      BY <1>3 DEF ReadFile
  <2> QED BY <2>1, <2>2 DEF ReloadStamps
<1>4. CASE TakeEffect /\ Loadable(watch.got, watch.listed)
  <2>1. /\ UNCHANGED <<disk, writes>>
        /\ watch' = IF Starting
                    THEN [watch EXCEPT !.pc = "built", !.at = 1]
                    ELSE [Watching EXCEPT !.pc = "wait", !.current = watch.next]
      BY <1>4 DEF TakeEffect
  <2>2. CASE Starting
    <3>1. watch'.next = watch.next /\ watch'.current = watch.current /\ watch'.got = watch.got
        BY <1>0, <2>1, <2>2, WatcherBuilt
    <3> QED BY <2>1, <3>1 DEF ReloadStamps
  <2>3. CASE ~Starting
    <3>1. /\ watch'.next = Stamps(Nothing) /\ watch'.current = watch.next
          /\ watch'.got = Nothing
        BY <1>g, <2>1, <2>3, WatcherWaits, Zenon
    <3> QED BY <1>0, <1>f, <2>1, <3>1, NothingType DEF ReloadStamps
  <2> QED BY <2>2, <2>3
<1>5. CASE FirstFingerprint
  <2>1. /\ watch'.next = watch.next /\ watch'.got = watch.got
        /\ \A f \in Files :
            watch'.current[f] = watch.current[f] \/ watch'.current[f] = disk[f].stamp
      BY <1>0, <1>5, <1>g, WatcherFirst
  <2>2. UNCHANGED <<disk, writes>>
      BY <1>5 DEF FirstFingerprint
  <2> QED BY <2>1, <2>2 DEF ReloadStamps
<1>6. CASE StartWatching
  <2>1. /\ watch'.next = Stamps(Nothing) /\ watch'.current = watch.current
        /\ watch'.got = Nothing
      BY <1>g, <1>6, WatcherWaits, Zenon DEF StartWatching
  <2>2. UNCHANGED <<disk, writes>>
      BY <1>6 DEF StartWatching
  <2> QED BY <1>0, <1>f, <2>1, <2>2, NothingType DEF ReloadStamps
<1>7. ASSUME NEW forced \in BOOLEAN, Wake(forced) PROVE ReloadStamps'
  <2>1. watch'.next = watch.next /\ watch'.current = watch.current /\ watch'.got = watch.got
      BY <1>0, <1>7, WatcherWakes
  <2>2. UNCHANGED <<disk, writes>>
      BY <1>7 DEF Wake
  <2> QED BY <2>1, <2>2 DEF ReloadStamps
<1>8. CASE Fingerprint
  <2>1. /\ watch'.current = watch.current /\ watch'.got = watch.got
        /\ \A f \in Files :
            watch'.next[f] = watch.next[f] \/ watch'.next[f] = disk[f].stamp
      BY <1>0, <1>8, <1>g, WatcherStamps
  <2>2. UNCHANGED <<disk, writes>>
      BY <1>8 DEF Fingerprint
  <2> QED BY <2>1, <2>2 DEF ReloadStamps
<1>9. CASE Compare
  <2>1. UNCHANGED <<disk, writes>>
      BY <1>9 DEF Compare
  <2>2. CASE watch.pc = "stat" /\ watch.next = watch.current
    <3>1. /\ watch'.next = Stamps(Nothing) /\ watch'.current = watch.current
          /\ watch'.got = Nothing
        BY <1>g, <1>9, <2>2, WatcherWaits, Zenon DEF Compare
    <3> QED BY <1>0, <1>f, <2>1, <3>1, NothingType DEF ReloadStamps
  <2>3. CASE ~(watch.pc = "stat" /\ watch.next = watch.current)
    <3>1. watch'.next = watch.next /\ watch'.current = watch.current /\ watch'.got = watch.got
        BY <1>0, <1>9, <2>3, WatcherRelists DEF Compare
    <3> QED BY <2>1, <3>1 DEF ReloadStamps
  <2> QED BY <2>2, <2>3
<1>10. CASE RestartGateway
  <2>2. /\ watch'.next = Stamps(Nothing)
        /\ watch'.current = Stamps(Nothing) /\ watch'.got = Nothing
      BY <1>10, WatcherRestarts
  <2>3. UNCHANGED <<disk, writes>>
      BY <1>10 DEF RestartGateway
  <2> QED BY <1>0, <1>f, <2>2, <2>3, NothingType DEF ReloadStamps
<1>11. ASSUME NEW f \in Files, NEW step \in 0..1, NEW good \in BOOLEAN,
              Write(f, step, good)
       PROVE  ReloadStamps'
  <2>1. /\ writes' = writes + 1 /\ watch' = watch /\ disk'[f].stamp = writes + 1
        /\ \A g \in Files \ {f} : disk'[g] = disk[g]
      BY <1>0, <1>11 DEF Write
  <2> QED BY <1>0, <1>f, <2>1 DEF ReloadStamps
<1>12. ASSUME NEW f \in Files, Remove(f) PROVE ReloadStamps'
  <2>1. /\ writes' = writes + 1 /\ watch' = watch /\ disk'[f].stamp = 0
        /\ \A g \in Files \ {f} : disk'[g] = disk[g]
      BY <1>0, <1>12 DEF Remove, Absent
  <2> QED BY <1>0, <1>f, <2>1 DEF ReloadStamps
<1>13. CASE Hup
    BY <1>13 DEF Hup, ReloadStamps
<1> QED BY <1>1, <1>2, <1>3, <1>4, <1>5, <1>6, <1>7, <1>8, <1>9, <1>10, <1>11, <1>12, <1>13,
           ReloadCases, Zenon

(* Files, fingerprints and what is in force stay in step.                  *)
LEMMA ReloadMatchStep ==
    ASSUME ReloadTypes, ReloadStamps, ReloadMatches, RNext
    PROVE  ReloadMatches'
<1>0. /\ writes \in Nat /\ gap \in BOOLEAN
      /\ disk \in [Files -> ReloadEntry]
      /\ inForce \in [Files -> Nat]
      /\ watch \in WatcherType
    BY DEF ReloadTypes
<1>f. \A f \in Files :
        /\ disk[f] \in ReloadEntry /\ disk[f].stamp \in Nat /\ disk[f].rev \in Nat
        /\ watch.got[f] \in ReloadEntry /\ watch.got[f].stamp \in Nat /\ watch.got[f].rev \in Nat
        /\ watch.next[f] \in Nat /\ watch.current[f] \in Nat
    BY <1>0 DEF ReloadEntry, WatcherType
<1>g. /\ watch.got \in [Files -> ReloadEntry] /\ watch.next \in [Files -> Nat]
      /\ watch.current \in [Files -> Nat] /\ watch.at \in Nat /\ watch.at >= 1
      /\ watch.pc \in {"list", "load", "built", "wait", "stat", "stat_forced", "relist", "reload",
                       "exited"}
    BY <1>0, ReloadAssumption DEF WatcherType
<1>1. CASE ReloadFails
  <2>1. /\ watch'.pc \in {"exited", "wait"} /\ watch'.current = watch.current
        /\ (watch.pc \in {"list", "load"} => watch'.pc = "exited")
      BY <1>0, <1>1, WatcherFails DEF ReloadFails
  <2>2. /\ watch.pc \in {"list", "load", "relist", "reload"} /\ UNCHANGED <<disk, inForce, gap>>
      BY <1>1 DEF ReloadFails
  <2> QED BY <2>1, <2>2 DEF ReloadMatches
<1>2. CASE List /\ ~Fails
  <2>1. /\ \/ watch.pc = "list" /\ watch'.pc = "load"
           \/ watch.pc = "relist" /\ watch'.pc = "reload"
        /\ watch'.at = 1 /\ watch'.current = watch.current
        /\ \A f \in Files : disk[f].stamp # 0 => f \in watch'.listed
      BY <1>0, <1>2, WatcherList
  <2>2. UNCHANGED <<disk, inForce, gap>>
      BY <1>2 DEF List
  <2> QED BY <2>1, <2>2, FilesAre DEF ReloadMatches
<1>3. CASE ReadFile /\ ~Fails
  <2>1. /\ watch'.pc = watch.pc /\ watch'.current = watch.current /\ watch'.listed = watch.listed
        /\ watch'.next = watch.next /\ watch'.at = watch.at + 1
        /\ \A f \in Files :
            watch'.got[f] = IF f = watch.at /\ f \in watch.listed THEN disk[f] ELSE watch.got[f]
      BY <1>0, <1>3, <1>g, WatcherRead
  <2>2. UNCHANGED <<disk, inForce, gap>> /\ watch.pc \in {"load", "reload"}
      BY <1>3 DEF ReadFile
  <2>3. CASE watch.pc = "reload"
    <3>1. ASSUME NEW f \in Files, disk[f].stamp # 0, disk[f].stamp = watch.next[f]
          PROVE  f \in watch.listed /\ (f < watch.at + 1 => watch'.got[f] = disk[f])
        BY <1>g, <2>1, <2>3, <3>1, FilesAre DEF ReloadMatches
    <3> QED BY <2>1, <2>2, <2>3, <3>1 DEF ReloadMatches
  <2> QED BY <2>1, <2>2, <2>3 DEF ReloadMatches
<1>4. CASE TakeEffect /\ Loadable(watch.got, watch.listed)
  <2>1. /\ watch.pc \in {"load", "reload"} /\ watch.at > NFiles
        /\ inForce' = Revs(watch.got) /\ disk' = disk
        /\ watch' = IF Starting
                    THEN [watch EXCEPT !.pc = "built", !.at = 1]
                    ELSE [Watching EXCEPT !.pc = "wait", !.current = watch.next]
      BY <1>4 DEF TakeEffect
  <2>2. \A f \in Files : inForce'[f] = watch.got[f].rev
      BY <2>1 DEF Revs
  <2>3. CASE Starting
    <3>1. watch'.pc = "built" /\ watch'.at = 1 /\ watch'.got = watch.got
        BY <1>0, <2>1, <2>3, WatcherBuilt
    <3> QED BY <2>2, <3>1, FilesAre DEF ReloadMatches
  <2>4. CASE ~Starting
    <3>1. watch'.pc = "wait" /\ watch'.current = watch.next
        BY <1>g, <2>1, <2>4, WatcherWaits, Zenon
    <3>2. watch.pc = "reload"
        BY <2>1, <2>4 DEF Starting
    <3>3. ASSUME NEW f \in Files, disk[f].stamp # 0, disk[f].stamp = watch.next[f]
          PROVE  inForce'[f] = disk[f].rev
      <4>1. f < watch.at
          BY <1>g, <2>1, FilesAre, ReloadAssumption
      <4> QED BY <2>2, <3>2, <3>3, <4>1 DEF ReloadMatches
    <3> QED BY <2>1, <3>1, <3>3 DEF ReloadMatches
  <2> QED BY <2>3, <2>4
<1>5. CASE FirstFingerprint
  <2>1. /\ watch'.pc = "built" /\ watch'.got = watch.got /\ watch'.at = watch.at + 1
        /\ \A f \in Files :
            watch'.current[f] = IF f = watch.at THEN disk[f].stamp ELSE watch.current[f]
      BY <1>0, <1>5, <1>g, WatcherFirst
  <2>2. /\ watch.pc = "built" /\ inForce' = inForce
        /\ ~gap' => ~gap /\ watch.got[watch.at].stamp = disk[watch.at].stamp
      BY <1>5 DEF FirstFingerprint
  <2>3. ASSUME NEW f \in Files, ~gap', f < watch.at + 1
        PROVE  watch.got[f].stamp = watch'.current[f]
    <3>1. ~gap /\ watch.got[watch.at].stamp = disk[watch.at].stamp
        BY <2>2, <2>3
    <3>2. CASE f = watch.at
        BY <2>1, <3>1, <3>2
    <3>3. CASE f # watch.at
      <4>1. f < watch.at
          BY <1>g, <2>3, <3>3, FilesAre
      <4> QED BY <2>1, <2>2, <3>1, <3>3, <4>1 DEF ReloadMatches
    <3> QED BY <3>2, <3>3
  <2> QED BY <2>1, <2>2, <2>3 DEF ReloadMatches
<1>6. CASE StartWatching
  <2>1. watch'.pc = "wait" /\ watch'.current = watch.current
      BY <1>g, <1>6, WatcherWaits, Zenon DEF StartWatching
  <2>2. watch.pc = "built" /\ watch.at > NFiles /\ UNCHANGED <<disk, inForce, gap>>
      BY <1>6 DEF StartWatching
  <2>3. ASSUME NEW f \in Files, ~gap, disk[f].stamp # 0, disk[f].stamp = watch.current[f]
        PROVE  inForce[f] = disk[f].rev
    <3>1. f < watch.at
        BY <1>g, <2>2, FilesAre, ReloadAssumption
    <3>2. watch.got[f].stamp = disk[f].stamp /\ inForce[f] = watch.got[f].rev
        BY <2>2, <2>3, <3>1 DEF ReloadMatches
    <3> QED BY <2>3, <3>2 DEF ReloadStamps
  <2> QED BY <2>1, <2>2, <2>3 DEF ReloadMatches
<1>7. ASSUME NEW forced \in BOOLEAN, Wake(forced) PROVE ReloadMatches'
  <2>1. watch'.pc \in {"stat", "stat_forced"} /\ watch'.current = watch.current
      BY <1>0, <1>7, WatcherWakes
  <2>2. UNCHANGED <<disk, inForce, gap>> /\ watch.pc = "wait"
      BY <1>7 DEF Wake
  <2> QED BY <2>1, <2>2 DEF ReloadMatches
<1>8. CASE Fingerprint
  <2>1. watch'.pc = watch.pc /\ watch'.current = watch.current
      BY <1>0, <1>8, WatcherStamps
  <2>2. UNCHANGED <<disk, inForce, gap>> /\ watch.pc \in {"stat", "stat_forced"}
      BY <1>8 DEF Fingerprint
  <2> QED BY <2>1, <2>2 DEF ReloadMatches
<1>9. CASE Compare
  <2>1. UNCHANGED <<disk, inForce, gap>> /\ watch.pc \in {"stat", "stat_forced"}
      BY <1>9 DEF Compare
  <2>2. CASE watch.pc = "stat" /\ watch.next = watch.current
    <3>1. watch'.pc = "wait" /\ watch'.current = watch.current
        BY <1>g, <1>9, <2>2, WatcherWaits, Zenon DEF Compare
    <3> QED BY <2>1, <3>1 DEF ReloadMatches
  <2>3. CASE ~(watch.pc = "stat" /\ watch.next = watch.current)
    <3>1. watch'.pc = "relist" /\ watch'.current = watch.current
        BY <1>0, <1>9, <2>3, WatcherRelists DEF Compare
    <3> QED BY <2>1, <3>1 DEF ReloadMatches
  <2> QED BY <2>2, <2>3
<1>10. CASE RestartGateway
  <2>2. watch'.pc = "list"
      BY <1>10, WatcherRestarts
  <2> QED BY <2>2 DEF ReloadMatches
<1>11. ASSUME NEW f \in Files, NEW step \in 0..1, NEW good \in BOOLEAN,
              Write(f, step, good)
       PROVE  ReloadMatches'
  <2>1. /\ UNCHANGED <<watch, inForce, gap>> /\ disk'[f].stamp = writes + 1
        /\ \A g \in Files \ {f} : disk'[g] = disk[g]
      BY <1>0, <1>11 DEF Write
  <2>2. disk'[f].stamp # watch.current[f] /\ disk'[f].stamp # watch.next[f]
      BY <1>0, <1>f, <2>1 DEF ReloadStamps
  <2> QED BY <2>1, <2>2 DEF ReloadMatches
<1>12. ASSUME NEW f \in Files, Remove(f) PROVE ReloadMatches'
  <2>1. /\ UNCHANGED <<watch, inForce, gap>> /\ disk'[f].stamp = 0
        /\ \A g \in Files \ {f} : disk'[g] = disk[g]
      BY <1>0, <1>12 DEF Remove, Absent
  <2> QED BY <2>1 DEF ReloadMatches
<1>13. CASE Hup
    BY <1>13 DEF Hup, ReloadMatches
<1> QED BY <1>1, <1>2, <1>3, <1>4, <1>5, <1>6, <1>7, <1>8, <1>9, <1>10, <1>11, <1>12, <1>13,
           ReloadCases, Zenon

ReloadIInv == ReloadTypes /\ ReloadStamps /\ ReloadMatches

(* The three parts together are inductive.                                 *)
LEMMA ReloadStep ==
    ASSUME ReloadIInv, [RNext]_rvars
    PROVE  ReloadIInv'
<1>1. CASE RNext
    BY <1>1, ReloadTypeStep, ReloadStampStep, ReloadMatchStep DEF ReloadIInv
<1>2. CASE UNCHANGED rvars
    BY <1>2, Zenon DEF rvars, ReloadIInv, ReloadTypes, ReloadStamps, ReloadMatches,
                PairInForce
<1> QED BY <1>1, <1>2

(* A gateway that has not loaded anything satisfies them.                  *)
LEMMA ReloadInit ==
    ASSUME RInit
    PROVE  ReloadIInv
<1>1. /\ Watching \in WatcherType /\ Watching.at = 1
      /\ Watching.listed = Files
      /\ Watching.next = Stamps(Nothing)
      /\ Watching.current = Stamps(Nothing)
      /\ Watching.got = Nothing
    BY NothingType, ReloadAssumption DEF Watching, WatcherType
<1>2. watch = [Watching EXCEPT !.pc = "list"]
    BY DEF RInit
<1>3. watch \in WatcherType
    BY <1>1, <1>2 DEF WatcherType
<1>4. /\ watch.pc = "list" /\ watch.listed = Files /\ watch.next = Stamps(Nothing)
      /\ watch.current = Stamps(Nothing) /\ watch.got = Nothing
    BY <1>1, <1>2 DEF WatcherType
<1>5. /\ kind \in {"dir", "files", "tls"} /\ writes = 1 /\ gap = FALSE
      /\ disk = [f \in Files |-> [stamp |-> 1, rev |-> 1, good |-> TRUE]]
      /\ inForce = Revs(Nothing)
    BY DEF RInit
<1>6. disk \in [Files -> ReloadEntry] /\ \A f \in Files : disk[f].stamp = 1
    BY <1>5 DEF ReloadEntry
<1>7. ReloadTypes
    BY <1>3, <1>4, <1>5, <1>6, NothingType DEF ReloadTypes, PairInForce
<1>8. ReloadStamps
    BY <1>4, <1>5, <1>6, NothingType DEF ReloadStamps
<1>9. ReloadMatches
    BY <1>4 DEF ReloadMatches
<1> QED BY <1>7, <1>8, <1>9 DEF ReloadIInv

(* They give the property.                                                 *)
LEMMA ReloadSafe ==
    ASSUME ReloadIInv
    PROVE  ReloadInv
<1>1. RTypeOK
    BY DEF ReloadIInv, ReloadTypes, WatcherType, RTypeOK
<1>2. NoEditIsLost
    BY DEF ReloadIInv, ReloadMatches, NoEditIsLost, AsOnDisk, Stamps
<1> QED BY <1>1, <1>2 DEF ReloadInv, ReloadIInv, ReloadTypes

(* However the files are edited while the watcher lists, reads and builds: *)
(* a certificate and a key in force belong together, and a watcher that    *)
(* waits with the stamps of the disk has the disk's files in force, but    *)
(* for an edit between the first load and the first stamps (gap).          *)
THEOREM NoEditForgotten == RSpec => []ReloadInv
<1>1. RSpec => []ReloadIInv
    BY ReloadInit, ReloadStep, PTL DEF RSpec
<1> QED BY <1>1, ReloadSafe, PTL
=============================================================================
