---------------------------- MODULE MCLifecycle ----------------------------
(***************************************************************************)
(* Instances of Lifecycle for TLC.                                         *)
(***************************************************************************)
EXTENDS Lifecycle, TLC

CONSTANTS p1, p2,           \* processes
          a1, a2, a3, a4,   \* addresses
          direct, exitnode, nodns   \* preferences

Settings4(socks5, http, dns, prefs) ==
    [socks5 |-> socks5, http |-> http, dns |-> dns, prefs |-> prefs]

\* All four sockets.
Full == Settings4(a1, a2, a3, direct)
\* Shares one of them, and asks for other preferences.
HttpOnly == Settings4(NoAddr, a2, NoAddr, exitnode)
\* Shares none.
Elsewhere == Settings4(a4, NoAddr, NoAddr, nodns)
\* The same address for two flags, nothing at all, DNS without the tailnet's.
Clash   == Settings4(a1, a1, NoAddr, direct)
Nothing == Settings4(NoAddr, NoAddr, NoAddr, direct)
DnsWithoutConfig == Settings4(NoAddr, NoAddr, a3, nodns)
\* DNS alone: its two sockets share an address and not a transport.
DnsOnly == Settings4(NoAddr, NoAddr, a3, exitnode)

\* Shares with both of the above.
Both == Settings4(a4, a2, NoAddr, direct)

FullConfigs  == {Full, DnsOnly, Clash, Nothing, DnsWithoutConfig}
RivalConfigs == {HttpOnly, Elsewhere, Both}

\* No definition tells one process from another.
Symmetry == Permutations({p1, p2})
=============================================================================
