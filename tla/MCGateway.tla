------------------------------ MODULE MCGateway ------------------------------
EXTENDS Gateway

CONSTANTS u1, c1, proxy, id1

MCKeys == {<<"user", u1>>, <<"ip", c1>>}

\* A request with a token, the same client without one through the proxy, which
\* overwrites the header, and directly with a header of its own; a probe.
MCArrivals ==
  {[path |-> "api", token |-> u1, peer |-> proxy, forwarded |-> <<c1>>, id |-> "none", client |-> c1],
   [path |-> "api", token |-> "expired", peer |-> <<"::ffff:", proxy>>, forwarded |-> <<c1>>,
    id |-> id1, client |-> c1],
   [path |-> "api", token |-> "none", peer |-> <<"::ffff:", c1>>, forwarded |-> <<proxy, proxy>>,
    id |-> "unsafe\n", client |-> c1],
   [path |-> "ready", token |-> "none", peer |-> c1, forwarded |-> <<>>, id |-> id1, client |-> c1]}
=============================================================================
