------------------------------- MODULE IpPool -------------------------------
(***************************************************************************)
(* The addresses a CONNECT-IP proxy leases to its tunnels and the sessions *)
(* that hold them (IpAddressPool, IpLease and IpProxy of                   *)
(* skimasque/src/connect_ip.rs).  A lease lives as long as the session     *)
(* that owns it: while the proxy waits to hand the session over, while it  *)
(* lies in the channel and while the application keeps it.                 *)
(***************************************************************************)
EXTENDS Integers, FiniteSets

CONSTANTS
    Width,      \* bits of the integers, and of an IPv6 address (128)
    V4Width,    \* bits of an IPv4 address (32)
    Clients,    \* tunnels asked for at the same time
    ChannelCap  \* sessions waiting for the application (64)

VARIABLES
    prefix,    \* PoolState.prefix
    cursor,    \* where the next search starts
    leased,    \* the addresses out
    session,   \* per client: the tunnel's stage and its address
    attached   \* the application still receives sessions

vars == <<prefix, cursor, leased, session, attached>>

Top == 2 ^ Width - 1
SaturatingSucc(n) == IF n = Top THEN Top ELSE n + 1

Bits(v6) == IF v6 THEN Width ELSE V4Width

\* IpPrefix: an address with no bits below the prefix length.
Prefixes ==
    {p \in [v6 : BOOLEAN, host : 0..Width, base : 0..Top] :
        /\ p.host <= Bits(p.v6) /\ p.base < 2 ^ Bits(p.v6)
        /\ p.base % 2 ^ p.host = 0}

\* usable_bounds, in integers that wrap: the size of the whole IPv6 space is
\* shifted out and becomes 0, and the last address is still the right one.
UsableBounds(p) ==
    LET size == IF p.host = Width THEN 0 ELSE 2 ^ p.host
        last == (p.base + size - 1) % 2 ^ Width
    IN  IF p.host \in {0, 1} THEN <<p.base, last>>
        ELSE IF p.v6 THEN <<p.base + 1, last>> ELSE <<p.base + 1, last - 1>>

FirstLease == SaturatingSucc(UsableBounds(prefix)[1])
LastLease == UsableBounds(prefix)[2]

Wrap(n) == IF n > LastLease THEN FirstLease ELSE n

\* IpAddressPool::lease: as many candidates as there are addresses, from the
\* cursor on and round; the first that is free, or none.
candidate[n \in 0..Top] ==
    IF n = 0 THEN Wrap(cursor) ELSE Wrap(SaturatingSucc(candidate[n - 1]))

Free ==
    LET span == LastLease - FirstLease + 1
        hits == {n \in 0..(span - 1) : candidate[n] \notin leased}
    IN  IF hits = {} THEN {}
        ELSE {candidate[CHOOSE n \in hits : \A m \in hits : n <= m]}

Idle == [stage |-> "idle", address |-> 0]

Holding == {c \in Clients : session[c].stage \in {"offered", "queued", "taken"}}
Queued == {c \in Clients : session[c].stage = "queued"}

Init ==
    /\ prefix \in Prefixes
    /\ cursor = FirstLease /\ leased = {}
    /\ session = [c \in Clients |-> Idle] /\ attached = TRUE

\* IpProxy::call leases an address and makes a session of it, or refuses.
Call(c) ==
    /\ session[c].stage = "idle"
    /\ \/ /\ Free = {}
          /\ UNCHANGED <<cursor, leased, session>>
       \/ \E address \in Free :
            /\ leased' = leased \cup {address}
            /\ cursor' = SaturatingSucc(address)
            /\ session' = [session EXCEPT ![c] =
                    [stage |-> "offered", address |-> address]]
    /\ UNCHANGED <<prefix, attached>>

\* sessions.send has room: the tunnel is accepted.
Accept(c) ==
    /\ session[c].stage = "offered" /\ attached
    /\ Cardinality(Queued) < ChannelCap
    /\ session' = [session EXCEPT ![c].stage = "queued"]
    /\ UNCHANGED <<prefix, cursor, leased, attached>>

\* IpLease::drop, wherever the session is dropped.
Release(c) ==
    /\ leased' = leased \ {session[c].address}
    /\ session' = [session EXCEPT ![c] = Idle]
    /\ UNCHANGED <<prefix, cursor, attached>>

\* The send fails because nothing receives any more, or the request is given
\* up while the send waits for room.
GiveUp_KeepsLease(c) ==
    /\ session[c].stage = "offered"
    /\ session' = [session EXCEPT ![c] = Idle]
    /\ UNCHANGED <<prefix, cursor, leased, attached>>

GiveUp(c) == session[c].stage = "offered" /\ Release(c)

\* The application takes a session, and later drops it.
Take(c) ==
    /\ session[c].stage = "queued" /\ attached
    /\ session' = [session EXCEPT ![c].stage = "taken"]
    /\ UNCHANGED <<prefix, cursor, leased, attached>>

DropSession(c) == session[c].stage = "taken" /\ Release(c)

\* The application drops the receiver, and with it the sessions in it.
Detach ==
    /\ attached /\ attached' = FALSE
    /\ leased' = leased \ {session[c].address : c \in Queued}
    /\ session' = [c \in Clients |-> IF c \in Queued THEN Idle ELSE session[c]]
    /\ UNCHANGED <<prefix, cursor>>

Next ==
    \/ \E c \in Clients :
        Call(c) \/ Accept(c) \/ GiveUp(c) \/ Take(c) \/ DropSession(c)
    \/ Detach

Spec == Init /\ [][Next]_vars

-----------------------------------------------------------------------------
(* Properties.                                                             *)

\* An address is out exactly while one live session holds it: no address is
\* leased to two tunnels, none leaks when a send fails, a request is given up
\* or the application goes away, and none comes back while it is used.
LeasedOnce ==
    /\ leased = {session[c].address : c \in Holding}
    /\ \A c, d \in Holding : session[c].address = session[d].address => c = d

\* The addresses of the prefix that are neither the subnet's own first one,
\* the IPv4 broadcast, nor the proxy's, the first of the rest.
Leasable ==
    LET block == {a \in 0..Top : a \div 2 ^ prefix.host = prefix.base \div 2 ^ prefix.host}
        usable == {a \in block :
            prefix.host > 1 =>
                /\ a # prefix.base
                /\ ~prefix.v6 => a + 1 \in block}
    IN  {a \in usable : \E b \in usable : b < a}

\* Only addresses a client may have are leased, for prefixes down to a single
\* address and up to the whole space.  The exception is the last address of
\* all as a pool of its own, where one past the proxy's address saturates.
OnlyLeasable ==
    leased \subseteq Leasable \/ (prefix.host = 0 /\ prefix.base = Top)

\* lease gives up only when every leasable address is out.  The exception is
\* a pool whose last address is the last integer: its cursor cannot pass the
\* end, so it never comes round.
RefusesOnlyWhenFull == Free = {} => Leasable \subseteq leased \/ LastLease = Top
=============================================================================
