-------------------------------- MODULE Exec --------------------------------
(***************************************************************************)
(* `skimasque exec`: run one command with its traffic in a tunnel, and     *)
(* with --agent under an agent session that exec starts and ends.  The     *)
(* process (exec.rs), the credential it presents (session.rs), the sandbox *)
(* check (sandbox.rs) and the control plane's view of the agent session.   *)
(* A signal is a member of Signals that waits in `pending` until exec      *)
(* polls its listeners: tokio keeps at most one of each.                   *)
(***************************************************************************)
EXTENDS Integers, Sequences, FiniteSets

CONSTANTS
  MaxForwards,   \* the most --forward flags of a command line
  MaxSignals,    \* the most signals sent to one exec
  Delivered      \* the signals an instance sends

VARIABLES
  cmd,      \* the command line and the stored login
  ex,       \* exec: pc, exit code, lease, what it presents, what it has open
  agent,    \* the agent session at the control plane
  pending,  \* signals delivered and not yet polled
  sent,     \* signals sent, each with whether the command had been started
  child     \* the command

xvars == <<cmd, ex, agent, pending, sent, child>>

Signals == {"INT", "TERM", "HUP"}
Number == [s \in Signals |-> CASE s = "INT" -> 2 [] s = "TERM" -> 15 [] OTHER -> 1]
None == "none"
Planes == {"cloud", "own"}

(* What clap lets through: --unsandboxed needs --agent and excludes        *)
(* --sandbox, --allow-domain needs --sandbox.                              *)
ExecArgs ==
  {a \in [agent : BOOLEAN, sandbox : BOOLEAN, unsandboxed : BOOLEAN, domains : BOOLEAN,
          forwards : 0 .. MaxForwards, pin : {None, "ops"}, plane : {None, "own"},
          gateway : BOOLEAN, token : BOOLEAN, login : Planes \cup {None}] :
     /\ a.unsandboxed => a.agent /\ ~a.sandbox
     /\ a.domains => a.sandbox}

Validate(a) ==
  /\ a.agent => a.sandbox \/ a.unsandboxed
  /\ a.sandbox => a.domains /\ a.forwards = 0

(* --control-plane, else the signed-in session's, else SkiMasque Cloud.    *)
ResolveControlPlane(a) ==
  IF a.plane # None THEN a.plane ELSE IF a.login # None THEN a.login ELSE "cloud"

HasGateway(a) == a.gateway \/ ResolveControlPlane(a) = "cloud"

(* An agent's own credential is put in as the static token and the other   *)
(* sources are cleared; else a token or an OIDC exchange asked for by a    *)
(* flag or the environment; else the stored login.                         *)
AuthMode(a) ==
  CASE a.agent -> "agent"
    [] ~a.agent /\ a.token -> "token"
    [] ~a.agent /\ ~a.token /\ a.login # None -> "session"
    [] OTHER -> None

(* The preflight needs the login the credential was minted from, on the    *)
(* control plane this run is for.                                          *)
HasPreflight(a) == AuthMode(a) = "session" /\ a.login = ResolveControlPlane(a)

(* One answer per forward, or a single placeholder probe when there are    *)
(* none.  With a pin, the selected policy must be the pinned one; with     *)
(* forwards, one of them must be allowed.                                  *)
Judge(a, selected, allowed) ==
  /\ a.pin # None => selected = a.pin
  /\ a.forwards > 0 => \E i \in 1 .. a.forwards : allowed[i]

XInit ==
  /\ cmd \in ExecArgs
  /\ ex = [pc |-> "validate", code |-> -1, lease |-> FALSE, presents |-> None, tasks |-> FALSE,
           session |-> "none", probe |-> <<None, FALSE>>, told |-> FALSE]
  /\ agent = [request |-> "none", state |-> "none"]
  /\ pending = {}
  /\ sent = {}
  /\ child = [state |-> "none", scrubbed |-> FALSE, proxied |-> FALSE, confined |-> FALSE,
              got |-> {}, status |-> -1]

EXIT_FAILED == 125
EXIT_NOT_EXECUTABLE == 126
EXIT_NOT_FOUND == 127

(* Mutant: an error returns without ending the lease.                      *)
Leave_AtOnce(code, state) ==
  ex' = [state EXCEPT !.pc = "exited", !.code = code]

(* Leaving launch: a held lease is ended first.                            *)
Leave(code, state) ==
  ex' = [state EXCEPT !.pc = IF state.lease THEN "end" ELSE "exited", !.code = code]

Begin ==
  /\ ex.pc = "validate"
  /\ IF ~Validate(cmd)
     THEN Leave(EXIT_FAILED, ex)
     ELSE \/ Leave(EXIT_FAILED, ex)       \* the listeners could not be registered
          \/ ex' = [ex EXCEPT !.pc = IF cmd.agent THEN "lease" ELSE "prepare"]
  /\ UNCHANGED <<cmd, agent, pending, sent, child>>

(* A signal that no one has to poll for: its default action is replaced    *)
(* once Begin has registered.  The terminal sends SIGINT to the command    *)
(* too.                                                                    *)
Signal(s) ==
  /\ ex.pc \notin {"validate", "exited"}
  /\ Cardinality(sent) < MaxSignals
  /\ pending' = pending \cup {s}
  /\ sent' = sent \cup {[sig |-> s, started |-> child.state # "none"]}
  /\ child' = IF s = "INT" /\ child.state = "running"
              THEN [child EXCEPT !.got = @ \cup {s}] ELSE child
  /\ UNCHANGED <<cmd, ex, agent>>

(* AgentLease::start: no login, an organisation that cannot be resolved or *)
(* a bad --ttl end it before the request is posted.                        *)
PostStart ==
  /\ ex.pc = "lease"
  /\ \/ Leave(EXIT_FAILED, ex) /\ UNCHANGED agent
     \/ /\ cmd.login # None
        /\ ex' = [ex EXCEPT !.pc = "starting"]
        /\ agent' = [agent EXCEPT !.request = "posted"]
  /\ UNCHANGED <<cmd, pending, sent, child>>

(* The control plane, which may work off the request after exec has given  *)
(* up on its answer.                                                       *)
PlaneStarts ==
  /\ agent.request = "posted"
  /\ agent' \in {[request |-> "done", state |-> "active"], [request |-> "refused", state |-> "none"]}
  /\ UNCHANGED <<cmd, ex, pending, sent, child>>

Started ==
  /\ ex.pc = "starting"
  /\ \/ /\ agent.state = "active"
        /\ ex' = [ex EXCEPT !.pc = "prepare", !.lease = TRUE]
     \/ Leave(EXIT_FAILED, ex)    \* refused, or no answer within the timeout
  /\ UNCHANGED <<cmd, agent, pending, sent, child>>

(* The select around AgentLease::start and the one around prepare.         *)
Interrupted(s) ==
  /\ ex.pc \in {"lease", "starting", "prepare", "bearer", "preflight", "bind"}
  /\ s \in pending
  /\ pending' = pending \ {s}
  /\ Leave(128 + Number[s], ex)
  /\ UNCHANGED <<cmd, agent, sent, child>>

Fail(pc) ==
  /\ ex.pc = pc
  /\ Leave(EXIT_FAILED, ex)
  /\ UNCHANGED <<cmd, agent, pending, sent, child>>

(* The gateway's name and the headers, then open_session: address, trust,  *)
(* template and the QUIC connection.                                       *)
OpenSession ==
  /\ ex.pc = "prepare"
  /\ HasGateway(cmd)
  /\ ex' = [ex EXCEPT !.pc = "bearer", !.session = "open"]
  /\ UNCHANGED <<cmd, agent, pending, sent, child>>

ResolveBearer ==
  /\ ex.pc = "bearer"
  /\ AuthMode(cmd) # None
  /\ ex' = [ex EXCEPT !.pc = IF HasPreflight(cmd) THEN "preflight" ELSE "bind",
                      !.presents = AuthMode(cmd)]
  /\ UNCHANGED <<cmd, agent, pending, sent, child>>

(* A preflight that could not be made is only reported: the gateway still  *)
(* enforces.                                                               *)
Preflight ==
  /\ ex.pc = "preflight"
  /\ \/ ex' = [ex EXCEPT !.pc = "bind"]
     \/ \E selected \in {None, "ops", "web"}, allowed \in [1 .. cmd.forwards -> BOOLEAN] :
          IF Judge(cmd, selected, allowed)
          THEN ex' = [ex EXCEPT !.pc = "bind"]
          ELSE Leave(EXIT_FAILED, ex)
  /\ UNCHANGED <<cmd, agent, pending, sent, child>>

Bind ==
  /\ ex.pc = "bind"
  /\ ex' = [ex EXCEPT !.pc = IF cmd.sandbox THEN "sandbox" ELSE "spawn", !.tasks = TRUE]
  /\ UNCHANGED <<cmd, agent, pending, sent, child>>

(* What can come out of the check run inside the sandbox: its last line    *)
(* and whether it succeeded.  No signal is polled meanwhile.               *)
Verdicts == {"blocked", "connected", "other"} \X BOOLEAN

(* Mutant: anything but a connection counts as blocked.                    *)
JudgeProbe_NotConnected(verdict) == verdict[1] # "connected"

JudgeProbe(verdict) == verdict = <<"blocked", TRUE>>

SrtCommandLine ==
  /\ ex.pc = "sandbox"
  /\ \/ Leave(EXIT_FAILED, ex)     \* no srt, bad settings, no outside address, timeout
     \/ \E verdict \in Verdicts :
          IF JudgeProbe(verdict)
          THEN ex' = [ex EXCEPT !.pc = "spawn", !.probe = verdict]
          ELSE Leave(EXIT_FAILED, [ex EXCEPT !.probe = verdict])
  /\ UNCHANGED <<cmd, agent, pending, sent, child>>

Spawn ==
  /\ ex.pc = "spawn"
  /\ \/ \E code \in {EXIT_NOT_FOUND, EXIT_NOT_EXECUTABLE} :
          /\ ex' = [ex EXCEPT !.pc = "teardown", !.code = code]
          /\ UNCHANGED child
     \/ /\ ex' = [ex EXCEPT !.pc = "supervise"]
        /\ child' = [child EXCEPT !.state = "running", !.scrubbed = cmd.agent \/ cmd.sandbox,
                                  !.proxied = ~cmd.sandbox, !.confined = cmd.sandbox]
  /\ UNCHANGED <<cmd, agent, pending, sent>>

(* The command ends on its own or because of a signal it got.              *)
ChildExits ==
  /\ child.state \in {"running", "dying"}
  /\ \E status \in {0, 1} \cup {128 + Number[s] : s \in child.got} :
       child' = [child EXCEPT !.state = "gone", !.status = status]
  /\ UNCHANGED <<cmd, ex, agent, pending, sent>>

Reap ==
  /\ ex.pc = "supervise"
  /\ child.state = "gone"
  /\ ex' = [ex EXCEPT !.pc = "teardown", !.code = child.status]
  /\ UNCHANGED <<cmd, agent, pending, sent, child>>

(* Mutant: the terminal is trusted to tell the command of every signal.    *)
ForwardSignal_Swallowed(s) ==
  /\ ex.pc = "supervise"
  /\ s \in pending
  /\ pending' = pending \ {s}
  /\ UNCHANGED <<cmd, ex, agent, sent, child>>

ForwardSignal(s) ==
  /\ ex.pc = "supervise"
  /\ s \in pending
  /\ pending' = pending \ {s}
  /\ child' = IF s # "INT" /\ child.state = "running"
              THEN [child EXCEPT !.got = @ \cup {s}] ELSE child
  /\ UNCHANGED <<cmd, ex, agent, sent>>

(* start_kill sends SIGKILL to the command that could not be waited for;   *)
(* its result is ignored and nothing awaits the command's end.             *)
WaitFails ==
  /\ ex.pc = "supervise"
  /\ ex' = [ex EXCEPT !.pc = "teardown", !.code = EXIT_FAILED]
  /\ child' \in {child, [child EXCEPT !.state = IF @ = "running" THEN "dying" ELSE @]}
  /\ UNCHANGED <<cmd, agent, pending, sent>>

Teardown ==
  /\ ex.pc = "teardown"
  /\ Leave(ex.code, [ex EXCEPT !.tasks = FALSE, !.session = "closed"])
  /\ UNCHANGED <<cmd, agent, pending, sent, child>>

(* AgentLease::end: a failure is told, with the command that would end it. *)
EndLease ==
  /\ ex.pc = "end"
  /\ \/ agent' = [agent EXCEPT !.state = "ended"] /\ ex' = [ex EXCEPT !.pc = "exited"]
     \/ UNCHANGED agent /\ ex' = [ex EXCEPT !.pc = "exited", !.told = TRUE]
  /\ UNCHANGED <<cmd, pending, sent, child>>

Setup ==
  \/ Begin \/ PostStart \/ Started \/ OpenSession \/ ResolveBearer \/ Preflight \/ Bind
  \/ SrtCommandLine \/ Spawn
  \/ \E pc \in {"prepare", "bearer", "bind"} : Fail(pc)
  \/ \E s \in Signals : Interrupted(s)

Run == Reap \/ WaitFails \/ Teardown \/ EndLease \/ \E s \in Signals : ForwardSignal(s)

XNext == Setup \/ Run \/ PlaneStarts \/ ChildExits \/ \E s \in Delivered : Signal(s)

(* The runtime keeps polling exec.  Each listener of Signals::next is a    *)
(* branch of its own in a select that tries them in random order.          *)
XSpec ==
  /\ XInit
  /\ [][XNext]_xvars
  /\ WF_xvars(Setup)
  /\ WF_xvars(Reap) /\ WF_xvars(Teardown) /\ WF_xvars(EndLease)
  /\ \A s \in Signals : WF_xvars(ForwardSignal(s))

-----------------------------------------------------------------------------

XTypeOK ==
  /\ cmd \in ExecArgs
  /\ pending \subseteq Signals
  /\ ex.code \in {-1, 0, 1, EXIT_FAILED, EXIT_NOT_FOUND, EXIT_NOT_EXECUTABLE}
                 \cup {128 + Number[s] : s \in Signals}
  /\ agent.state \in {"none", "active", "ended"}
  /\ child.got \subseteq Signals

Ran == child.state # "none"

(* The command runs and exec has not given up waiting for it.              *)
RunsOn == child.state = "running" /\ ex.code # EXIT_FAILED

(* The lease has no way out of exec but through its end: once exec has     *)
(* learned of the agent session it started, whatever stops the setup, the  *)
(* command or the wait for it, exec exits only after the session is ended  *)
(* or the user is told how to end it, and it is not ended while a command  *)
(* that can be waited for still runs.  A session that stays active unsaid  *)
(* is one exec gave up on before it had the answer, by a signal or a       *)
(* timeout: no command has run under it, and exec reports the failure.     *)
LeaseIsEnded ==
  /\ ex.pc = "exited" /\ ex.lease => agent.state = "ended" \/ ex.told
  /\ agent.state = "ended" => ~RunsOn
  /\ ex.pc = "exited" /\ agent.state = "active" /\ ~ex.told =>
       ~Ran /\ ex.code >= EXIT_FAILED

(* An agent's command only ever runs behind a check that its sandbox stops *)
(* direct connections, or with --unsandboxed; its tunnel carries the       *)
(* session's credential and no other, and it inherits none.                *)
AgentIsConfined ==
  Ran /\ cmd.agent =>
    /\ ~cmd.unsandboxed => child.confined /\ ex.probe = <<"blocked", TRUE>>
    /\ ex.presents = "agent" /\ ex.lease
    /\ child.scrubbed

(* The command runs only behind a tunnel and listeners that are up, and it *)
(* is gone before they are taken down, unless it could not be waited for.  *)
RunsInsideTunnel ==
  RunsOn => ex.session = "open" /\ ex.tasks /\ ex.presents # None

(* exec's exit status is the command's own once it ran (or 125 when it     *)
(* could not be waited for), and a status of 128 + signal for a command    *)
(* that never ran means that signal arrived before it was started.         *)
StatusIsTrue ==
  ex.pc = "exited" =>
    IF Ran THEN ex.code \in {child.status, EXIT_FAILED}
    ELSE ex.code > 128 => \E m \in sent : 128 + Number[m.sig] = ex.code /\ ~m.started

ExecInv ==
  LeaseIsEnded /\ AgentIsConfined /\ RunsInsideTunnel /\ StatusIsTrue

(* SIGTERM and SIGHUP are never swallowed: one that is sent while exec     *)
(* lives reaches the command, or exec comes to its end.                    *)
SignalsActUpon ==
  \A s \in Delivered \ {"INT"} :
    s \in pending ~> s \in child.got \/ ex.pc \in {"teardown", "end", "exited"}

(* exec follows its command: when the command is gone, exec exits and the  *)
(* session it held has been ended or reported.                             *)
Outlives == child.state = "gone" /\ ex.pc # "exited"
ExecFollows == []<>~Outlives
=============================================================================
