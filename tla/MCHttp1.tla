------------------------------- MODULE MCHttp1 -------------------------------
(* Instances of the HTTP/1.1 session and the WebSocket receiver for TLC. *)
EXTENDS Http1Props

Ask(kind, body, keep) ==
  [kind |-> kind, body |-> body, declared |-> body, keep |-> keep, routed |-> body > 0]
Frame(kind, ext, pay) == [kind |-> kind, ext |-> ext, pay |-> pay]
Life(reqs, frames, tls, faults) ==
  [reqs |-> reqs, frames |-> frames, tls |-> tls, faults |-> faults]

Next2 == Ask("file", 0, FALSE)
Upgrade == <<Ask("upgrade", 0, TRUE)>>
Clean ==
  {Life(<<Ask(k, 0, TRUE), Next2>>, <<>>, t, {}) : k \in Kinds \ {"upgrade"}, t \in BOOLEAN}
  \cup {Life(<<Ask("fcgi", 2, TRUE), Ask("fcgi", 0, FALSE)>>, <<>>, t, {}) : t \in BOOLEAN}
  \cup {Life(Upgrade, <<Frame("text", 2, 2), Frame(k, 0, 0)>>, t, {}) :
          k \in {"ping", "close", "unmasked"}, t \in BOOLEAN}
  \cup {Life(Upgrade, <<Frame(k, 2, 1)>>, t, {}) : k \in {"fragment", "large"}, t \in BOOLEAN}
Bad ==
  {Life(<<Ask("file", 1, TRUE), Next2>>, <<>>, t, {f}) :
      f \in {"pipelined", "grown", "shrunk", "wantread", "trickle", "lost"}, t \in BOOLEAN}
  \cup {Life(<<Ask("missing", 0, TRUE)>>, <<>>, FALSE, {"full"}),
        Life(<<[Ask("file", 1, TRUE) EXCEPT !.declared = 0], Next2>>, <<>>, FALSE, {"undeclared"})}
  \cup {Life(<<Ask(k, 0, TRUE), Ask("fcgi", 0, FALSE)>>, <<>>, FALSE, {"backend"}) :
          k \in {"file", "fcgi"}}
  \cup {Life(Upgrade, <<Frame("text", 0, 1), Frame("ping", 0, 0)>>, t, {f}) :
          f \in {"early", "coalesced", "lost", "full"}, t \in BOOLEAN}
Worlds == Clean \cup Bad
===============================================================================
