----------------------------- MODULE ProxyMode -----------------------------
(***************************************************************************)
(* `skimasque-client proxy`: one authenticated session, both loopback      *)
(* proxies and, if asked for, an existing TUN, announced in a ready file   *)
(* that other programs wait for (skimasque-client.rs main, proxy.rs,       *)
(* native/device.rs).  Several instances are started with the same         *)
(* arguments; any of them may be signalled or killed at any time, a file   *)
(* it left stays, and a later process may get its pid.                     *)
(***************************************************************************)
EXTENDS Integers, FiniteSets

CONSTANTS Procs,       \* the instances started, each once
          Pids,        \* the process ids there are
          MaxSwaps,    \* bound: the TUN is deleted and made anew
          MaxFaults    \* bound: failed writes

VARIABLES opts,        \* the arguments: ready file, TUN, fixed ports
          proc,        \* each instance: where it is, its pid, the index of the TUN
                       \* it looked up and of the device it opened
          session,     \* each instance's gateway session: none, open or closed
          held,        \* the instance that has the TUN, the ports; NoProc: none
          tun,         \* the interface's index, a new one each time; 0: there is none
          temps,       \* PATH.<pid>.tmp of each pid
          ready,       \* PATH
          signalled,   \* instances with a termination signal not yet acted upon
          swaps, faults

rvars == <<opts, proc, session, held, tun, temps, ready, signalled, swaps, faults>>
files == <<temps, ready>>
world == <<opts, tun, swaps, faults>>

NoProc == "none"
NoFile == [by |-> NoProc, pid |-> 0, whole |-> FALSE]
Shared == {"tun", "http", "socks"}

Stages == {"new", "quic", "lookup", "open", "check", "http", "socks", "create", "write",
           "link", "linked", "refused", "serve", "leave", "ended", "killed"}

At(p) == proc[p].at
Gone(p) == At(p) \in {"ended", "killed"}
Live(p) == At(p) # "new" /\ ~Gone(p)
Moves(p, at) == proc' = [proc EXCEPT ![p].at = at]

RInit ==
    /\ opts \in [ready : BOOLEAN, tun : BOOLEAN, fixed : BOOLEAN]
    /\ proc = [p \in Procs |-> [at |-> "new", pid |-> 0, index |-> 0, dev |-> 0]]
    /\ session = [p \in Procs |-> "none"]
    /\ held = [r \in Shared |-> NoProc] /\ tun = 1
    /\ temps = [i \in Pids |-> NoFile] /\ ready = NoFile
    /\ signalled = {} /\ swaps = 0 /\ faults = 0

(***************************************************************************)
(* The end of a process closes its session and frees what it held.         *)
(***************************************************************************)
Releases(p) ==
    /\ session' = [session EXCEPT ![p] = IF @ = "open" THEN "closed" ELSE @]
    /\ held' = [r \in Shared |-> IF held[r] = p THEN NoProc ELSE held[r]]

Ends(p, how) == Moves(p, how) /\ Releases(p) /\ signalled' = signalled \ {p}

(***************************************************************************)
(* Client::connect and open_session.                                       *)
(***************************************************************************)
Start(p) ==
    /\ At(p) = "new"
    /\ \E i \in Pids \ {proc[q].pid : q \in {r \in Procs : Live(r)}} :
        proc' = [proc EXCEPT ![p] = [at |-> "quic", pid |-> i, index |-> 0, dev |-> 0]]
    /\ UNCHANGED <<session, held, files, signalled, world>>

\* A gateway without datagrams is left; a refused credential ends the process.
Opened(p) ==
    /\ At(p) = "quic"
    /\ \/ /\ session' = [session EXCEPT ![p] = "open"]
          /\ Moves(p, IF opts.tun THEN "lookup" ELSE "http")
          /\ UNCHANGED <<held, signalled>>
       \/ Ends(p, "ended")
    /\ UNCHANGED <<files, world>>

(***************************************************************************)
(* Device::attach: the interface must be there, its index is looked up     *)
(* before and after the device is opened, and it has one queue.            *)
(***************************************************************************)
Lookup(p) ==
    /\ At(p) = "lookup"
    /\ IF tun = 0 THEN Ends(p, "ended")
       ELSE /\ proc' = [proc EXCEPT ![p] = [@ EXCEPT !.at = "open", !.index = tun]]
            /\ UNCHANGED <<session, held, signalled>>
    /\ UNCHANGED <<files, world>>

\* The device someone holds may be one that is gone.
Taken == held["tun"] # NoProc /\ proc[held["tun"]].dev = tun

Open(p) ==
    /\ At(p) = "open"
    /\ IF tun = 0 \/ Taken THEN Ends(p, "ended")
       ELSE /\ held' = [held EXCEPT !["tun"] = p]
            /\ proc' = [proc EXCEPT ![p] = [@ EXCEPT !.at = "check", !.dev = tun]]
            /\ UNCHANGED <<session, signalled>>
    /\ UNCHANGED <<files, world>>

\* Mutant: the index is not looked at again.
Check_Skipped(p) ==
    /\ At(p) = "check" /\ Moves(p, "http")
    /\ UNCHANGED <<session, held, files, signalled, world>>

Check(p) ==
    /\ At(p) = "check"
    /\ IF proc[p].index = tun
       THEN Moves(p, "http") /\ UNCHANGED <<session, held, signalled>>
       ELSE Ends(p, "ended")
    /\ UNCHANGED <<files, world>>

(***************************************************************************)
(* Listeners::bind.  With port 0 the kernel gives each a port of its own.  *)
(***************************************************************************)
Free(r) == ~opts.fixed \/ held[r] = NoProc

Bind(p, r, after) ==
    /\ At(p) = r
    /\ IF Free(r)
       THEN /\ held' = IF opts.fixed THEN [held EXCEPT ![r] = p] ELSE held
            /\ Moves(p, after) /\ UNCHANGED <<session, signalled>>
       ELSE Ends(p, "ended")
    /\ UNCHANGED <<files, world>>

BindHttp(p) == Bind(p, "http", "socks")
BindSocks(p) == Bind(p, "socks", IF opts.ready THEN "create" ELSE "serve")

(***************************************************************************)
(* write_ready_with_tun.                                                   *)
(***************************************************************************)
Temp(p) == temps[proc[p].pid]

CreateTemp(p) ==
    /\ At(p) = "create"
    /\ IF Temp(p) = NoFile
       THEN /\ temps' = [temps EXCEPT ![proc[p].pid] =
                            [by |-> p, pid |-> proc[p].pid, whole |-> FALSE]]
            /\ Moves(p, "write") /\ UNCHANGED <<session, held, signalled>>
       ELSE Ends(p, "ended") /\ UNCHANGED temps
    /\ UNCHANGED <<ready, world>>

\* write_all and sync_all, or an error that only removes the file again.
WriteTemp(p) ==
    /\ At(p) = "write"
    /\ \/ /\ temps' = [temps EXCEPT ![proc[p].pid].whole = TRUE]
          /\ Moves(p, "link") /\ UNCHANGED faults
       \/ /\ faults < MaxFaults /\ faults' = faults + 1
          /\ Moves(p, "refused") /\ UNCHANGED temps
    /\ UNCHANGED <<opts, session, held, tun, ready, signalled, swaps>>

\* Mutant: the file is renamed over whatever is there.
Link_Renames(p) ==
    /\ At(p) = "link"
    /\ ready' = Temp(p) /\ Moves(p, "linked")
    /\ UNCHANGED <<session, held, temps, signalled, world>>

\* hard_link "fails if PATH exists".
Link(p) ==
    /\ At(p) = "link"
    /\ IF ready = NoFile
       THEN ready' = Temp(p) /\ Moves(p, "linked")
       ELSE Moves(p, "refused") /\ UNCHANGED ready
    /\ UNCHANGED <<session, held, temps, signalled, world>>

RemoveTemp(p) ==
    /\ At(p) \in {"linked", "refused"}
    /\ temps' = [temps EXCEPT ![proc[p].pid] = NoFile]
    /\ IF At(p) = "linked"
       THEN Moves(p, "serve") /\ UNCHANGED <<session, held, signalled>>
       ELSE Ends(p, "ended")
    /\ UNCHANGED <<ready, world>>

(***************************************************************************)
(* The select! of main: the proxies end with the session, the TUN's tasks  *)
(* with the device, and a signal is waited for only here.                  *)
(***************************************************************************)
DeviceGone(p) == opts.tun /\ proc[p].dev # tun

\* Mutant: the proxies do not watch the session.
Over_SignalOnly(p) == p \in signalled \/ DeviceGone(p)

Over(p) == session[p] = "closed" \/ p \in signalled \/ DeviceGone(p)

\* Its futures are dropped, and the listeners and the device with them.
Leave(p) ==
    /\ At(p) = "serve" /\ Over(p)
    /\ Moves(p, "leave")
    /\ held' = [r \in Shared |-> IF held[r] = p THEN NoProc ELSE held[r]]
    /\ UNCHANGED <<session, files, signalled, world>>

RemoveReady(p) ==
    /\ At(p) = "leave"
    /\ ready' = IF opts.ready THEN NoFile ELSE ready
    /\ Ends(p, "ended")
    /\ UNCHANGED <<temps, world>>

(***************************************************************************)
(* The gateway, signals, and whoever owns the machine.  A signal before    *)
(* the select! finds no handler; one after it is kept or ignored.          *)
(***************************************************************************)
GatewayCloses(p) ==
    /\ session[p] = "open"
    /\ session' = [session EXCEPT ![p] = "closed"]
    /\ UNCHANGED <<proc, held, files, signalled, world>>

Terminate(p) ==
    /\ Live(p)
    /\ IF At(p) \in {"serve", "leave"}
       THEN signalled' = signalled \cup {p} /\ UNCHANGED <<proc, session, held>>
       ELSE Ends(p, "killed")
    /\ UNCHANGED <<files, world>>

Kill(p) == Live(p) /\ Ends(p, "killed") /\ UNCHANGED <<files, world>>

\* A record whose process is gone is removed by hand.
Sweep ==
    /\ ready # NoFile /\ Gone(ready.by)
    /\ ready' = NoFile
    /\ UNCHANGED <<proc, session, held, temps, signalled, world>>

Swap ==
    /\ opts.tun
    /\ IF tun = 0 THEN tun' = swaps + 1 /\ UNCHANGED swaps
       ELSE swaps < MaxSwaps /\ swaps' = swaps + 1 /\ tun' = 0
    /\ UNCHANGED <<opts, proc, session, held, files, signalled, faults>>

Step(p) ==
    \/ Opened(p) \/ Lookup(p) \/ Open(p) \/ Check(p)
    \/ BindHttp(p) \/ BindSocks(p)
    \/ CreateTemp(p) \/ WriteTemp(p) \/ Link(p) \/ RemoveTemp(p)
    \/ Leave(p) \/ RemoveReady(p)

RNext ==
    \/ Swap \/ Sweep
    \/ \E p \in Procs : Start(p) \/ Step(p) \/ GatewayCloses(p) \/ Terminate(p) \/ Kill(p)

RSpec == RInit /\ [][RNext]_rvars /\ \A p \in Procs : WF_rvars(Step(p))

-----------------------------------------------------------------------------
ProxyTypeOK ==
    /\ proc \in [Procs -> [at : Stages, pid : Pids \cup {0}, index : 0..(MaxSwaps + 1),
                         dev : 0..(MaxSwaps + 1)]]
    /\ session \in [Procs -> {"none", "open", "closed"}]
    /\ held \in [Shared -> Procs \cup {NoProc}] /\ signalled \subseteq Procs

Announced(p) == At(p) \in {"linked", "serve", "leave"} /\ opts.ready

\* "Atomically publish bound addresses after authentication and startup", and
\* "without replacing another instance's record": the record of an instance
\* that runs is there from its link to its end, whole, and its own; until it
\* leaves it has what the record names.
RecordHolds ==
    \A p \in Procs : Announced(p) =>
        /\ ready = [by |-> p, pid |-> proc[p].pid, whole |-> TRUE]
        /\ session[p] # "none"
        /\ At(p) # "leave" =>
            /\ opts.tun /\ ~DeviceGone(p) => held["tun"] = p
            /\ opts.fixed => held["http"] = p /\ held["socks"] = p

\* An instance that ends by itself, whatever fails or whoever signals it while
\* it serves, leaves no file behind; what is left was left by one that died.
LeavesNothing ==
    \A p \in Procs : At(p) = "ended" => p \notin {ready.by} \cup {temps[i].by : i \in Pids}

\* "TUN changed during attachment": the device an instance forwards for is the
\* one its name stood for, whoever deletes and makes interfaces meanwhile.
AttachedAsNamed ==
    \A p \in Procs :
        opts.tun /\ At(p) \in {"http", "socks", "serve"} => proc[p].dev = proc[p].index

ProxyInv == ProxyTypeOK /\ RecordHolds /\ LeavesNothing /\ AttachedAsNamed

\* The end of a gateway session ends the instance, and takes back its record.
Orphaned == \E p \in Procs : session[p] = "closed" /\ ~Gone(p)
Withdrawn == []<>~Orphaned
============================================================================
