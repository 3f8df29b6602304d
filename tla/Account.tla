------------------------------ MODULE Account ------------------------------
(***************************************************************************)
(* The developer's side of the control plane: `skimasque login`, `logout`, *)
(* `whoami`, `status`, `why --control-plane`, `audit`, `agent-session`,    *)
(* `org` and `gateway register` as processes of one machine that share its *)
(* credential file (account.rs, bin/skimasque.rs).  A file is truncated by *)
(* one step and written by another, as the system calls are; a process may *)
(* be killed between any two steps, and what the control plane knows may   *)
(* change between two calls of a command.                                  *)
(***************************************************************************)
EXTENDS Integers, Sequences, FiniteSets

CONSTANTS
  Procs,        \* the command-line processes
  Commands,     \* the commands they run
  MaxLogins,    \* sign-ins the control plane completes
  MaxExpiry,    \* the longest life of a device code, in seconds
  CapExpiry,    \* the longest the client waits, in seconds (900)
  SlowDown,     \* what a slow_down answer adds to the interval (5)
  Page,         \* events of one audit request (500)
  MaxEvents,    \* audit events the control plane ever holds
  Orgs, Users,  \* organisations, and the people one may name
  MaxChanges    \* bound: changes of memberships and GitHub names by others

VARIABLES
  proc,         \* per process: its command, where it is and what it holds
  file,         \* the credential file
  alive,        \* the sign-in sessions the control plane honours
  issued,       \* sign-ins completed so far
  agents,       \* agent sessions: a set of records, one per start
  token,        \* the file named by --token-file
  events,       \* audit events at the control plane, newest last
  org,          \* the control plane's directory: the organisations of the signed-in
                \* developer, their other members <<o, u>>, the owners among these,
                \* who bears the GitHub login the commands name; changes by others
  deeds         \* what the commands have changed there

avars == <<proc, file, alive, issued, agents, token, events, org, deeds>>

Absent == [state |-> "absent", login |-> 0]
Torn == [state |-> "torn", login |-> 0]
Whole(n) == [state |-> "whole", login |-> n]
Idle(c) == [cmd |-> c, pc |-> "start", login |-> 0, left |-> 0, wait |-> 0, got |-> <<>>,
            again |-> FALSE, cursor |-> 0, force |-> FALSE, org |-> 0, user |-> "none"]

AInit ==
  /\ \E c \in [Procs -> Commands] : proc = [p \in Procs |-> Idle(c[p])]
  /\ issued \in 0 .. 1
  /\ alive = 1 .. issued
  /\ file = IF issued = 1 THEN Whole(1) ELSE Absent
  /\ agents = {}
  /\ token \in {"absent", "other"}
  /\ events = 0
  /\ \E someone \in {CHOOSE u \in Users : TRUE} :
       org \in [mine : SUBSET Orgs, members : {{}, Orgs \X {someone}}, owners : {{}},
               bearer : {someone}, changes : {0}]
  /\ deeds = {}

At(p, c, pc) == proc[p].cmd = c /\ proc[p].pc = pc
Step(p, rec) == proc' = [proc EXCEPT ![p] = rec]
Goto(p, pc) == Step(p, [proc[p] EXCEPT !.pc = pc])
Least(a, b) == IF a < b THEN a ELSE b
Most(a, b) == IF a < b THEN b ELSE a

-----------------------------------------------------------------------------
(* load: a file that does not parse is an error, a missing one is not.     *)
Load(p, present, absent) ==
  Step(p, CASE file.state = "whole" -> [proc[p] EXCEPT !.pc = present, !.login = file.login]
            [] file.state = "absent" -> [proc[p] EXCEPT !.pc = absent]
            [] OTHER -> [proc[p] EXCEPT !.pc = "failed"])

-----------------------------------------------------------------------------
(* login: run_login only takes the old control plane from the file, if it  *)
(* can read it.  The device flow polls at once, and gives up when the next *)
(* poll would come at or after the deadline.                               *)
DeviceStart(p) ==
  /\ At(p, "login", "start")
  /\ \/ Goto(p, "failed")
     \/ \E expires \in 0 .. MaxExpiry, interval \in 0 .. 1 :
          Step(p, [proc[p] EXCEPT !.pc = "poll", !.left = Least(expires, CapExpiry),
                                  !.wait = Most(interval, 1)])
  /\ UNCHANGED <<file, alive, issued, agents, token, events, org, deeds>>

(* Mutant: the last second counts as time left.                            *)
Pending_LastSecond(p, slow, took) ==
  /\ At(p, "login", "poll")
  /\ LET wait == proc[p].wait + (IF slow THEN SlowDown ELSE 0)
         left == proc[p].left - took
     IN Step(p, IF wait > left THEN [proc[p] EXCEPT !.pc = "failed", !.left = 0]
                ELSE [proc[p] EXCEPT !.wait = wait, !.left = left - wait, !.again = TRUE])
  /\ UNCHANGED <<file, alive, issued, agents, token, events, org, deeds>>

(* One poll, which takes up to a second, and the sleep after it.           *)
Pending(p, slow, took) ==
  /\ At(p, "login", "poll")
  /\ LET wait == proc[p].wait + (IF slow THEN SlowDown ELSE 0)
         left == proc[p].left - took
     IN Step(p, IF wait >= left THEN [proc[p] EXCEPT !.pc = "failed", !.left = 0]
                ELSE [proc[p] EXCEPT !.wait = wait, !.left = left - wait, !.again = TRUE])
  /\ UNCHANGED <<file, alive, issued, agents, token, events, org, deeds>>

Complete(p) ==
  /\ At(p, "login", "poll")
  /\ issued < MaxLogins
  /\ issued' = issued + 1
  /\ alive' = alive \cup {issued + 1}
  /\ Step(p, [proc[p] EXCEPT !.pc = "save", !.login = issued + 1, !.left = 0, !.wait = 0,
                          !.again = FALSE])
  /\ UNCHANGED <<file, agents, token, events, org, deeds>>

PollFails(p) ==
  /\ At(p, "login", "poll")
  /\ Step(p, [proc[p] EXCEPT !.pc = "failed", !.left = 0, !.wait = 0])
  /\ UNCHANGED <<file, alive, issued, agents, token, events, org, deeds>>

(* write_private: open with O_TRUNC, then write from the start of the      *)
(* file.  Over the longer record of another process the tail of that       *)
(* record stays.  Sign-ins with odd numbers have the longer record.  The   *)
(* directory, the open and the write can each fail, the write after it has *)
(* put down some of its bytes or none.                                     *)
Length(n) == IF n % 2 = 1 THEN 2 ELSE 1

OpenTruncate(p) ==
  /\ At(p, "login", "save")
  /\ \/ file' = Torn /\ Goto(p, "write")
     \/ UNCHANGED file /\ Goto(p, "failed")
  /\ UNCHANGED <<alive, issued, agents, token, events, org, deeds>>

WritePrivate(p) ==
  /\ At(p, "login", "write")
  /\ \/ /\ file' = CASE file.state = "absent" -> file     \* removed since: the write is lost
                     [] file.state = "whole" /\ Length(file.login) > Length(proc[p].login) -> Torn
                     [] OTHER -> Whole(proc[p].login)
        /\ Goto(p, "done")
     \/ /\ file' \in IF file.state = "absent" THEN {file} ELSE {file, Torn}
        /\ Goto(p, "failed")
  /\ UNCHANGED <<alive, issued, agents, token, events, org, deeds>>

-----------------------------------------------------------------------------
(* logout: the revocation is best effort, then the file is removed.        *)
LogoutLoads(p) ==
  /\ At(p, "logout", "start")
  /\ Load(p, "revoke", "done")
  /\ UNCHANGED <<file, alive, issued, agents, token, events, org, deeds>>

Revoke(p) ==
  /\ At(p, "logout", "revoke")
  /\ alive' \in {alive, alive \ {proc[p].login}}
  /\ Goto(p, "clear")
  /\ UNCHANGED <<file, issued, agents, token, events, org, deeds>>

Clear(p) ==
  /\ At(p, "logout", "clear")
  /\ file' = Absent
  /\ Goto(p, "done")
  /\ UNCHANGED <<alive, issued, agents, token, events, org, deeds>>

(* whoami: one call, which fails when the session is not honoured.         *)
Whoami(p) ==
  /\ At(p, "whoami", "start")
  /\ Load(p, "ask", "failed")
  /\ UNCHANGED <<file, alive, issued, agents, token, events, org, deeds>>

Ask(p) ==
  /\ At(p, "whoami", "ask")
  /\ \/ proc[p].login \in alive /\ Goto(p, "done")
     \/ Goto(p, "failed")
  /\ UNCHANGED <<file, alive, issued, agents, token, events, org, deeds>>

(* status: not being signed in is no error.  Its calls go through the      *)
(* organisations; only the usage of one may be missing.                    *)
FleetStatus(p) ==
  /\ At(p, "status", "start")
  /\ Load(p, "call", "done")
  /\ UNCHANGED <<file, alive, issued, agents, token, events, org, deeds>>

-----------------------------------------------------------------------------
(* The commands that act on an organisation: require, then resolve_org: the *)
(* one named with --org, else the only one of the session's.               *)
Reads == {"why", "list", "members", "agents", "status"}
Changes == {"create", "add", "role", "remove", "register"}
Unscoped == {"create", "list"}
Scoped == ((Reads \cup Changes) \ (Unscoped \cup {"status"})) \cup {"agent", "end", "audit"}

Require(p) ==
  /\ proc[p].pc = "start" /\ proc[p].cmd \in Scoped \cup Unscoped
  /\ Load(p, IF proc[p].cmd \in Scoped THEN "org" ELSE "call", "failed")
  /\ UNCHANGED <<file, alive, issued, agents, token, events, org, deeds>>

ResolveOrg(p) ==
  /\ proc[p].pc = "org"
  /\ \/ \E o \in Orgs : Step(p, [proc[p] EXCEPT !.pc = "call", !.org = o])
     \/ \E o \in Orgs : /\ proc[p].login \in alive /\ org.mine = {o}
                        /\ Step(p, [proc[p] EXCEPT !.pc = "call", !.org = o])
     \/ Goto(p, "failed")
  /\ UNCHANGED <<file, alive, issued, agents, token, events, org, deeds>>

(* The control plane answers for a session it honours, and for an          *)
(* organisation of the developer's.                                        *)
Honoured(p) ==
  proc[p].login \in alive /\ (proc[p].cmd \in Scoped => proc[p].org \in org.mine)

ReadOrg(p) ==
  /\ proc[p].pc = "call" /\ proc[p].cmd \in Reads
  /\ Honoured(p) /\ Goto(p, "done")
  /\ UNCHANGED <<file, alive, issued, agents, token, events, org, deeds>>

(* A call refused, lost on its way, or not answered in 30 seconds.         *)
CallFails(p) ==
  /\ proc[p].pc \in {"call", "act"} /\ proc[p].cmd # "agent"
  /\ Goto(p, "failed")
  /\ UNCHANGED <<file, alive, issued, agents, token, events, org, deeds>>

(* A change the control plane made; its answer may still be lost.          *)
Changed(p, directory, o, user) ==
  /\ Honoured(p)
  /\ org' = directory
  /\ deeds' = deeds \cup {[by |-> p, what |-> proc[p].cmd, org |-> o, user |-> user]}
  /\ \E pc \in {"done", "failed"} : Goto(p, pc)
  /\ UNCHANGED <<file, alive, issued, agents, token, events>>

CreateOrg(p) ==
  /\ At(p, "create", "call")
  /\ \E o \in Orgs \ org.mine : Changed(p, [org EXCEPT !.mine = @ \cup {o}], o, "none")

MintRegistration(p) ==
  /\ At(p, "register", "call")
  /\ Changed(p, org, proc[p].org, "none")

AddMember(p) ==
  /\ At(p, "add", "call")
  /\ Changed(p, [org EXCEPT !.members = @ \cup {<<proc[p].org, org.bearer>>}],
             proc[p].org, org.bearer)

(* The role and remove endpoints are keyed by id: the login is looked up   *)
(* in the member list first.                                               *)
ResolveMember(p) ==
  /\ proc[p].pc = "call" /\ proc[p].cmd \in {"role", "remove"} /\ Honoured(p)
  /\ IF <<proc[p].org, org.bearer>> \in org.members
     THEN Step(p, [proc[p] EXCEPT !.pc = "act", !.user = org.bearer])
     ELSE Goto(p, "failed")
  /\ UNCHANGED <<file, alive, issued, agents, token, events, org, deeds>>

Member(p) == <<proc[p].org, proc[p].user>>

SetRole(p) ==
  /\ At(p, "role", "act") /\ Member(p) \in org.members
  /\ \E owners \in {org.owners \cup {Member(p)}, org.owners \ {Member(p)}} :
       Changed(p, [org EXCEPT !.owners = owners], proc[p].org, proc[p].user)

(* Mutant: the member who bears the login by now.                          *)
RemoveMember_ByLogin(p) ==
  /\ At(p, "remove", "act") /\ <<proc[p].org, org.bearer>> \in org.members
  /\ Changed(p, [org EXCEPT !.members = @ \ {<<proc[p].org, org.bearer>>}],
             proc[p].org, org.bearer)

RemoveMember(p) ==
  /\ At(p, "remove", "act") /\ Member(p) \in org.members
  /\ Changed(p, [org EXCEPT !.members = @ \ {Member(p)}, !.owners = @ \ {Member(p)}],
             proc[p].org, proc[p].user)

(* Others join, leave, are renamed on GitHub.  It matters between two      *)
(* calls of a command.                                                     *)
Directory ==
  /\ org.changes < MaxChanges
  /\ \E p \in Procs : proc[p].pc \in {"call", "act"} /\ proc[p].cmd \in Reads \cup Changes
  /\ \/ \E u \in Users \ {org.bearer} :
          org' = [org EXCEPT !.bearer = u, !.changes = @ + 1]
     \/ \E o \in Orgs, u \in Users \ {m[2] : m \in org.members} :
          org' = [org EXCEPT !.members = @ \cup {<<o, u>>}, !.changes = @ + 1]
     \/ \E o \in org.mine : org' = [org EXCEPT !.mine = @ \ {o}, !.changes = @ + 1]
  /\ UNCHANGED <<proc, file, alive, issued, agents, token, events, deeds>>

-----------------------------------------------------------------------------
(* agent-session start --token-file [--force]: where the credential goes   *)
(* is settled before one is minted.                                        *)
MintAgent(p) ==
  /\ At(p, "agent", "call")
  /\ \/ /\ Honoured(p)
        /\ agents' = agents \cup {[by |-> p, state |-> "active", credential |-> "held"]}
        /\ \E force \in BOOLEAN : Step(p, [proc[p] EXCEPT !.pc = "open", !.force = force])
     \/ Goto(p, "failed") /\ UNCHANGED agents
  /\ UNCHANGED <<file, alive, issued, token, events, org, deeds>>

Mine(p) == CHOOSE a \in agents : a.by = p
Now(p, rec) == agents' = (agents \ {Mine(p)}) \cup {rec}

(* write_secret_file: create_new without --force, truncate with it.        *)
OpenSecret(p) ==
  /\ At(p, "agent", "open")
  /\ \/ /\ token = "absent" \/ proc[p].force
        /\ token' = "torn"
        /\ Goto(p, "secret")
     \/ /\ Goto(p, "undo")
        /\ UNCHANGED token
  /\ UNCHANGED <<file, alive, issued, agents, events, org, deeds>>

WriteSecret(p) ==
  /\ At(p, "agent", "secret")
  /\ \/ token' = p /\ Now(p, [Mine(p) EXCEPT !.credential = "saved"]) /\ Goto(p, "done")
     \/ UNCHANGED <<token, agents>> /\ Goto(p, "undo")
  /\ UNCHANGED <<file, alive, issued, events, org, deeds>>

(* Do not leave a live session whose only credential is lost; the call     *)
(* itself may fail.                                                        *)
Undo(p) ==
  /\ At(p, "agent", "undo")
  /\ \E state \in {"ended", "unreachable"} :
       Now(p, [Mine(p) EXCEPT !.state = state, !.credential = "lost"])
  /\ Goto(p, "failed")
  /\ UNCHANGED <<file, alive, issued, token, events, org, deeds>>

(* agent-session end: gateways learn of it with their revocation lists.    *)
EndAgent(p) ==
  /\ At(p, "end", "call") /\ Honoured(p)
  /\ \E a \in agents : agents' = (agents \ {a}) \cup {[a EXCEPT !.state = "ended"]}
  /\ \E pc \in {"done", "failed"} : Goto(p, pc)
  /\ UNCHANGED <<file, alive, issued, token, events, org, deeds>>

-----------------------------------------------------------------------------
(* query_audit: pages of at most Page events, newest first, until enough   *)
(* are held or the control plane has no further cursor.  Event n is the    *)
(* n-th ever recorded; a cursor is the oldest event already returned.      *)
Want == Page + 1

(* Mutant: the cursor's own event is returned again.                       *)
AuditPage_FromCursor(p) ==
  /\ At(p, "audit", "call") /\ Honoured(p)
  /\ LET below == IF proc[p].cursor = 0 THEN events ELSE proc[p].cursor
         n == Least(below, Least(Want - Len(proc[p].got), Page))
         got == proc[p].got \o [i \in 1 .. n |-> below - i + 1]
         more == below > n
     IN Step(p, [proc[p] EXCEPT !.got = got, !.cursor = IF n = 0 THEN 0 ELSE below - n + 1,
                                !.pc = IF more /\ Len(got) < Want THEN "call" ELSE "done"])
  /\ UNCHANGED <<file, alive, issued, agents, token, events, org, deeds>>

AuditPage(p) ==
  /\ At(p, "audit", "call") /\ Honoured(p)
  /\ LET below == IF proc[p].cursor = 0 THEN events ELSE proc[p].cursor - 1
         n == Least(below, Least(Want - Len(proc[p].got), Page))
         got == proc[p].got \o [i \in 1 .. n |-> below - i + 1]
         more == below > n
     IN Step(p, [proc[p] EXCEPT !.got = got, !.cursor = IF n = 0 THEN 0 ELSE below - n + 1,
                                !.pc = IF more /\ Len(got) < Want THEN "call" ELSE "done"])
  /\ UNCHANGED <<file, alive, issued, agents, token, events, org, deeds>>

Record ==
  /\ events < MaxEvents
  /\ \E p \in Procs : proc[p].cmd = "audit"
  /\ events' = events + 1
  /\ UNCHANGED <<proc, file, alive, issued, agents, token, org, deeds>>

Kill(p) ==
  /\ proc[p].pc \notin {"done", "failed", "killed"}
  /\ Goto(p, "killed")
  /\ UNCHANGED <<file, alive, issued, agents, token, events, org, deeds>>

Login(p) ==
  \/ DeviceStart(p) \/ Complete(p) \/ PollFails(p) \/ OpenTruncate(p) \/ WritePrivate(p)
  \/ \E slow \in BOOLEAN, took \in 0 .. 1 : Pending(p, slow, took)

OnOrg(p) ==
  \/ Require(p) \/ ResolveOrg(p) \/ CallFails(p) \/ ReadOrg(p)
  \/ CreateOrg(p) \/ MintRegistration(p) \/ AddMember(p)
  \/ ResolveMember(p) \/ SetRole(p) \/ RemoveMember(p)

OnAgent(p) == MintAgent(p) \/ OpenSecret(p) \/ WriteSecret(p) \/ Undo(p) \/ EndAgent(p)

Run(p) ==
  \/ Login(p) \/ LogoutLoads(p) \/ Revoke(p) \/ Clear(p) \/ Whoami(p) \/ Ask(p)
  \/ FleetStatus(p) \/ OnOrg(p) \/ OnAgent(p) \/ AuditPage(p)

ANext == Record \/ Directory \/ \E p \in Procs : Run(p) \/ Kill(p)

ASpec == AInit /\ [][ANext]_avars /\ \A p \in Procs : WF_avars(Run(p))

-----------------------------------------------------------------------------

Ended == {"done", "failed", "killed"}

(* A credential file that parses is one sign-in's own record, issued by    *)
(* the control plane: two sign-ins that save at the same time never leave  *)
(* a mix that loads.  It can only be unreadable while a sign-in is saving, *)
(* after one was killed or failed while it saved, or after two saved at    *)
(* once.  What a sign-in that reports success has saved stays, unless      *)
(* another process saves too or signs out.                                 *)
Saving(p) == proc[p].cmd = "login" /\ proc[p].login # 0

FileIsOneSignIn ==
  /\ file.state = "whole" => file.login \in 1 .. issued
  /\ file.state = "torn" =>
       \/ \E p \in Procs : Saving(p) /\ proc[p].pc \in {"write", "killed", "failed"}
       \/ Cardinality({p \in Procs : At(p, "login", "done")}) > 1
  /\ \A p \in Procs : At(p, "login", "done") =>
       \/ file = Whole(proc[p].login)
       \/ \E q \in Procs \ {p} : Saving(q) \/ At(q, "logout", "done")

(* The device code is never polled again at or after its deadline,         *)
(* whatever the answers ask for: the time left is not used up when a poll  *)
(* after the first goes out.                                               *)
PolledInTime ==
  \A p \in Procs : At(p, "login", "poll") =>
    (proc[p].again => proc[p].left > 0) /\ proc[p].wait >= 1

(* No agent session stays active with its credential thrown away, unless   *)
(* the process was killed or the control plane could not be told; a file   *)
(* that was there is only replaced with --force.                           *)
CredentialKept ==
  /\ \A a \in agents : a.state = "active" /\ proc[a.by].pc \in {"done", "failed"} =>
       a.credential = "saved"
  /\ \A p \in Procs : token = p => \E a \in agents : a.by = p /\ a.credential = "saved"

(* The audit listing has no gap and no duplicate, even while events keep   *)
(* arriving between its pages, and is as long as was asked for or reaches  *)
(* the first event.                                                        *)
AuditListing ==
  \A p \in Procs :
    LET got == proc[p].got IN
    /\ \A i \in 1 .. Len(got) - 1 : got[i + 1] = got[i] - 1
    /\ Len(got) <= Want
    /\ At(p, "audit", "done") => Len(got) = Want \/ got = <<>> \/ got[Len(got)] = 1

(* A command changes one thing at most, and the one it was asked to when   *)
(* it reports success; it changes the member it looked up in the           *)
(* organisation it resolved, also when another bears the login by then.    *)
DoesAsAsked ==
  \A p \in Procs :
    LET mine == {d \in deeds : d.by = p} IN
    /\ Cardinality(mine) <= 1
    /\ proc[p].pc = "done" /\ proc[p].cmd \in Changes => mine # {}
    /\ \A d \in mine :
         /\ d.what = proc[p].cmd
         /\ d.what \in Scoped => d.org = proc[p].org
         /\ d.what \in {"role", "remove"} => d.user = proc[p].user

AccountInv == FileIsOneSignIn /\ PolledInTime /\ CredentialKept /\ AuditListing /\ DoesAsAsked

(* Every command comes to an end: the device flow cannot poll for ever.    *)
Underway == \E p \in Procs : proc[p].pc \notin Ended
CommandsEnd == []<>~Underway
=============================================================================
