---------------------------- MODULE MCHttp2Session ----------------------------
(* Instances of Http2Session for TLC. *)
EXTENDS Http2SessionProps

Lives(frames, moves, kinds, faults) ==
  [frames |-> frames, moves |-> moves, kinds |-> kinds, faults |-> faults]

Clean == {Lives(2, {"DATA", "RST"}, {k}, {}) : k \in Kinds} \cup {Lives(3, {"DATA", "RST"}, {"file"}, {})}
Peer  == {Lives(3, {"SETTINGS", "WINDOW_UPDATE"}, {"file"}, {}),
          Lives(3, {"PING", "GOAWAY"}, {"file"}, {})}
Bad   == {Lives(2, {"DATA", "WINDOW_UPDATE"}, {"file"}, {f}) : f \in Faulty \ {"bigheader", "backend"}}
         \cup {Lives(2, {"DATA"}, {"fcgi"}, {f}) : f \in {"bigheader", "backend"}}
Worlds == Clean \cup Peer \cup Bad

OneWorld == {Lives(3, {"SETTINGS"}, {"file"}, {})}
===============================================================================
