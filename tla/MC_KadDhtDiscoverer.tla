------------------------- MODULE MC_KadDhtDiscoverer -------------------------
EXTENDS KadDhtDiscoverer

CONSTANTS c1, c2, c3

MCCallers == {c1, c2, c3}

MCMinInterval == 1

Arg(loggerOK, sharderOK, hostOK, interval, watcherType) ==
    [loggerOK |-> loggerOK, sharderOK |-> sharderOK, hostOK |-> hostOK,
     SeedersReconnectionInterval |-> interval, watcherType |-> watcherType]

\* Constructor arguments: valid ones with every known watcher type and the
\* interval exactly at the minimum, and each check failing alone.
MCArgs ==
    {Arg(TRUE, TRUE, TRUE, MCMinInterval, t) : t \in {"print", "disabled", ""}}
    \cup {Arg(FALSE, TRUE, TRUE, MCMinInterval, "print"),
          Arg(TRUE, FALSE, TRUE, MCMinInterval, "print"),
          Arg(TRUE, TRUE, TRUE, MCMinInterval - 1, "print"),
          Arg(TRUE, TRUE, FALSE, MCMinInterval, "print"),
          Arg(TRUE, TRUE, TRUE, MCMinInterval, "unknown")}

==============================================================================
