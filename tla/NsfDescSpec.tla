----------------------------- MODULE NsfDescSpec -----------------------------
(***************************************************************************)
(* What the socket layer promises of the names it hands out.  An           *)
(* application is known by a token and a socket by a descriptor.  A name   *)
(* is given out once; a socket belongs to one registered application; when *)
(* an application ends -- by TERMAPI or because a sweep found it dead --   *)
(* its token and the descriptors of all its sockets end in the same step.  *)
(***************************************************************************)
CONSTANTS Token, Desc

VARIABLES apps,         \* the tokens of the registered applications
          socks,        \* the open sockets, each [desc, app]
          usedTokens,   \* every token ever handed out
          usedDescs     \* every descriptor ever handed out

vars == <<apps, socks, usedTokens, usedDescs>>

Init == apps = {} /\ socks = {} /\ usedTokens = {} /\ usedDescs = {}

(* The sockets that survive the end of the applications in gone.           *)
Without(gone) == {s \in socks : s.app \notin gone}

Register(k, gone) ==
    /\ k \notin usedTokens
    /\ apps' = (apps \ gone) \cup {k}
    /\ socks' = Without(gone)
    /\ usedTokens' = usedTokens \cup {k}
    /\ UNCHANGED usedDescs

End(gone) ==
    /\ apps' = apps \ gone
    /\ socks' = Without(gone)
    /\ UNCHANGED <<usedTokens, usedDescs>>

Open(d, k) ==
    /\ d \notin usedDescs
    /\ socks' = socks \cup {[desc |-> d, app |-> k]}
    /\ usedDescs' = usedDescs \cup {d}
    /\ UNCHANGED <<apps, usedTokens>>

Close(s) ==
    /\ socks' = socks \ {s}
    /\ UNCHANGED <<apps, usedTokens, usedDescs>>

Next ==
    \/ \E k \in Token, gone \in SUBSET apps : Register(k, gone)
    \/ \E gone \in SUBSET apps : End(gone)
    \/ \E d \in Desc, k \in apps : Open(d, k)
    \/ \E s \in socks : Close(s)

Spec == Init /\ [][Next]_vars
==============================================================================
