------------------------------ MODULE MCClient ------------------------------
(***************************************************************************)
(* The client's side for TLC: the life of a credential (with the gateway   *)
(* and the control plane it is minted by), the loopback front ends, the    *)
(* SOCKS5 UDP association, the proxy mode with its ready file (yX), exec,  *)
(* and the account commands.  Each has an environment of its own, they     *)
(* share nothing, so a behaviour moves one of them and leaves the others   *)
(* where they start.                                                       *)
(***************************************************************************)
EXTENDS Credentials, Sequences, FiniteSets

CONSTANTS Targets, Scripts,                                 \* see LocalProxy
          Senders, Dests, QueueCap, MaxDatagrams, MaxTunnels,   \* see LocalProxy
          Pids, MaxSwaps, MaxBadWrites,                     \* see ProxyMode
          MaxForwards, MaxSignals, Delivered,               \* see Exec
          Procs, Commands, MaxLogins, MaxExpiry, CapExpiry, SlowDown, Page,
          MaxEvents, Orgs, Users, MaxChanges                \* see Account

VARIABLES part,   \* the part that runs
          conn, wire, tunnel, lingering, out, answers,
          assoc, control, tunnels, pumps, taken, fate, parties,
          yOpts, yProc, ySession, yHeld, yTun, yTemps, yReady, ySignalled, ySwaps, yFaults,
          cmd, ex, session, pending, sent, child,
          proc, file, alive, issued, agents, token, events, org, deeds

localVars == <<conn, wire, tunnel, lingering, out, answers>>
socksVars == <<assoc, control, tunnels, pumps, taken, fate, parties>>
modeVars == <<yOpts, yProc, ySession, yHeld, yTun, yTemps, yReady, ySignalled, ySwaps, yFaults>>
execVars == <<cmd, ex, session, pending, sent, child>>
accountVars == <<proc, file, alive, issued, agents, token, events, org, deeds>>

Front == INSTANCE LocalProxy WITH gateway <- tunnel
Mode == INSTANCE ProxyMode WITH
    MaxFaults <- MaxBadWrites, opts <- yOpts, proc <- yProc, session <- ySession,
    held <- yHeld, tun <- yTun, temps <- yTemps, ready <- yReady,
    signalled <- ySignalled, swaps <- ySwaps, faults <- yFaults
Command == INSTANCE Exec WITH agent <- session
Stored == INSTANCE Account

allVars == <<part, cvars, localVars, socksVars, modeVars, execVars, accountVars>>

OnCredential(A) ==
    part = "credential" /\ A
    /\ UNCHANGED <<part, localVars, socksVars, modeVars, execVars, accountVars>>
OnLocal(A) ==
    part = "local" /\ A
    /\ UNCHANGED <<part, cvars, socksVars, modeVars, execVars, accountVars>>
OnSocks(A) ==
    part = "socks" /\ A
    /\ UNCHANGED <<part, cvars, localVars, modeVars, execVars, accountVars>>
OnMode(A) ==
    part = "mode" /\ A
    /\ UNCHANGED <<part, cvars, localVars, socksVars, execVars, accountVars>>
OnExec(A) ==
    part = "exec" /\ A
    /\ UNCHANGED <<part, cvars, localVars, socksVars, modeVars, accountVars>>
OnAccount(A) ==
    part = "account" /\ A
    /\ UNCHANGED <<part, cvars, localVars, socksVars, modeVars, execVars>>

-----------------------------------------------------------------------------
(* What clients of each front end send: every refused request, and         *)
(* requests that are followed by data or by another request.               *)

Words == INSTANCE LocalProxy WITH gateway <- tunnel, Scripts <- {}

Asks(kind, target) == [kind |-> kind, target |-> target]

MCScripts ==
    [socks |-> {<<Asks(k, "a"), Words!Data(1), Words!Data(2)>> :
                    k \in {"connect"} \cup DOMAIN Words!SocksRefusal},
     http_connect |-> {<<Asks(k, "a"), Words!Data(1), Words!Data(2)>> :
                    k \in {"connect", "plain"} \cup DOMAIN Words!ConnectRefusal},
     http_proxy |-> {<<Asks(k, "a"), Asks(l, "b"), Asks("connect", "a"), Words!Data(1),
                       Words!Data(2)>> : k, l \in {"plain"} \cup DOMAIN Words!ProxyRefusal},
     forward |-> {<<Asks("connect", "a"), Words!Data(1), Words!Data(2)>>}]

\* The commands of two processes: those of one machine, about its files; or one
\* about an organisation, with one that ends or uses the sign-in or that looks
\* up a member first.
OrgCommands == {"status", "why", "create", "register", "add", "role", "remove", "end"}

AccountCases ==
    LET run == {proc[p].cmd : p \in Procs}
        other == CHOOSE p \in Procs : TRUE IN
    \/ run \cap OrgCommands = {} /\ Cardinality(org.mine) = 1 /\ org.members = {}
    \/ /\ proc[other].cmd \in {"logout", "agent", "role", "remove"}
       /\ \A p \in Procs \ {other} : proc[p].cmd \in OrgCommands
       /\ issued = 1 /\ token = "absent"
       /\ org.members # {} /\ (CHOOSE o \in Orgs : TRUE) \in org.mine

\* A part that does not run stands at one of its initial states.
MCInit ==
    /\ part \in {"credential", "local", "socks", "mode", "exec", "account"}
    /\ CInit
    /\ part # "credential" => conf = [secret |-> FALSE, fallback |-> FALSE]
    /\ Front!LInit
    /\ part # "local" => conn.front = "forward"
    /\ Front!UInit
    /\ part # "socks" => assoc.expected = "none"
    /\ Mode!RInit
    /\ part # "mode" => yOpts = [ready |-> FALSE, tun |-> FALSE, fixed |-> FALSE]
    /\ Command!XInit
    /\ part # "exec" =>
        cmd = [agent |-> FALSE, sandbox |-> FALSE, unsandboxed |-> FALSE, domains |-> FALSE,
               forwards |-> 0, pin |-> "none", plane |-> "none", gateway |-> FALSE,
               token |-> FALSE, login |-> "none"]
    /\ Stored!AInit /\ AccountCases
    /\ part # "account" =>
        /\ issued = 0 /\ token = "absent"
        /\ org.mine = {CHOOSE o \in Orgs : TRUE}
        /\ \A p \in Procs : proc[p].cmd = "login"

MCNext ==
    \/ OnCredential(CNext) \/ OnLocal(Front!LNext) \/ OnSocks(Front!UNext)
    \/ OnMode(Mode!RNext) \/ OnExec(Command!XNext) \/ OnAccount(Stored!ANext)

\* The fairness of each part's own specification.  Only one part of a behaviour
\* ever has a step, so weak fairness of a disjunction over the parts is weak
\* fairness of the disjunct of the part that runs.  (Exec's steps after its
\* command, too, are enabled one at a time.)
Fairness ==
    /\ WF_allVars(\/ OnCredential(Client) \/ OnSocks(Front!Association)
                  \/ OnMode(\E p \in Procs : Mode!Step(p))
                  \/ OnExec(Command!Setup))
    /\ WF_allVars(\/ OnCredential(KeyRefresh)
                  \/ OnExec(Command!Reap \/ Command!Teardown \/ Command!EndLease))
    /\ WF_allVars(OnCredential(TimePasses) \/ OnExec(Command!ForwardSignal("TERM")))
    /\ WF_allVars(OnCredential(Recover) \/ OnExec(Command!ForwardSignal("INT")))
    /\ WF_allVars(OnCredential(Start) \/ OnExec(Command!ForwardSignal("HUP")))
    /\ \A t \in Front!Ids :
        /\ WF_allVars(OnSocks(Front!ToTarget(t)) \/ OnAccount(\E p \in Procs : t = 1 /\ Stored!Run(p)))
        /\ WF_allVars(OnSocks(Front!EitherClosed(t)))
        /\ WF_allVars(OnSocks(Front!PumpEnds(t)))

MCSpec == MCInit /\ [][MCNext]_allVars /\ Fairness

-----------------------------------------------------------------------------
\* The front ends (socks5.rs, http_connect.rs, http_proxy.rs, forward.rs):
\* what a client sends reaches the target it named, complete and in order, and
\* no other; every request gets one answer, success only with a tunnel; and a
\* UDP association serves the one client it is pinned to.  The proxy mode
\* publishes a whole record of what it has, replaces and removes nobody else's,
\* leaves none when it ends by itself, and forwards for the TUN it was given
\* (proxy.rs, native/device.rs).  exec ends the agent session it started
\* whatever stops it, and runs an agent's command only in a sandbox that was
\* seen to work, inside the tunnel (exec.rs, sandbox.rs).  The account commands
\* share one credential file without mixing sign-ins, lose no agent credential
\* silently, and list audit events without gap or duplicate (account.rs).
ClientInv ==
    /\ Front!LocalInv /\ Front!SocksInv /\ Mode!ProxyInv
    /\ Command!XTypeOK /\ Command!ExecInv
    /\ Stored!AccountInv

\* Outages, restarts and rotations heal until the client is authorised for good
\* (session.rs, RemoteMinter); the end of a SOCKS control connection tears down
\* every tunnel, and the end of a gateway session ends the proxy
\* mode; exec passes signals on and follows its command; every account
\* command ends, the device flow included.
ClientProgress ==
    /\ part = "credential" => AuthorisedAgain
    /\ Command!SignalsActUpon
    /\ []<>~(\/ Front!StillUp \/ Mode!Orphaned \/ Command!Outlives
             \/ part = "account" /\ Stored!Underway)
=============================================================================
