-------------------------- MODULE MCDeviceSessions --------------------------
(* Any number of clients, or one browser with its cookies. *)
EXTENDS Browser, TLC

VARIABLE client

\* Of a browser that is not there nothing is asked: its replies count as lost.
AllInit == client \in {"any", "browser"} /\ BrowserStarts(client = "any")

\* Bound: a browser is followed to the first reply it loses.
AllNext ==
  /\ UNCHANGED client
  /\ \/ client = "any" /\ Next /\ UNCHANGED browserVars
     \/ client = "browser" /\ ~lost /\ BrowserNext

AllSpec == AllInit /\ [][AllNext]_<<client, vars, browserVars>>

Symmetry == Permutations(Requests) \cup Permutations(Tokens) \cup Permutations(Sessions)
=============================================================================
