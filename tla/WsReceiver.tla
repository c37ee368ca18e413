------------------------------ MODULE WsReceiver ------------------------------
(***************************************************************************)
(* The WebSocket frames of a connection that was upgraded: the receiver    *)
(* halmos_ws_recv_frame with the state it keeps between two events, and    *)
(* ws_system_dispatch.  It goes on where Http1Session ends and shares the  *)
(* socket with it; what a message does is WsRegistry.                      *)
(***************************************************************************)
EXTENDS Http1Session

VARIABLES
  recv,         (* ws_recv_state_t of the descriptor                        *)
  delivered     (* history: the bytes of each frame dispatched              *)

vars == <<httpVars, recv, delivered>>

(* header, ext_len_buf, mask and payload as far as they were read; as is the
   frame the header reads as. *)
NoFrame == [state |-> "hdr", hdr |-> <<>>, ext |-> <<>>, mask |-> <<>>, pay |-> <<>>, as |-> 0]
Parts == {"hdr", "ext", "mask", "pay"}
Bytes(r) == r.hdr \o r.ext \o r.mask \o r.pay

Announced(r) == world.frames[r.as]
Expected(r, part) ==
  CASE part \in {"hdr", "mask"} -> 2
    [] part = "ext" -> Announced(r).ext
    [] part = "pay" -> Announced(r).pay
Complete(r, part) == Len(r[part]) = Expected(r, part)

(* The part that follows; without a payload the frame is complete. *)
After(r, part) ==
  CASE part = "hdr"  -> IF Announced(r).ext > 0 THEN "ext" ELSE "mask"
    [] part = "ext"  -> "mask"
    [] part = "mask" -> IF Announced(r).pay > 0 THEN "pay" ELSE "whole"
    [] part = "pay"  -> "whole"

(* FIN = 0 or no mask shows in the header, the length at the end of ext. *)
Rejected(r, part) ==
  \/ part = "hdr" /\ Announced(r).kind \in {"fragment", "unmasked"}
  \/ part = "ext" /\ Announced(r).kind = "large"

(* Status 1 of the dispatcher: the worker rearms with EPOLLIN. *)
Again == Park(2) /\ UNCHANGED sess
(* ws_system_cleanup_fd frees the receiver's state with the connection. *)
WsClose == pc' = "closed" /\ rearm' = 0 /\ recv' = NoFrame /\ UNCHANGED sess
WsQuiet == UNCHANGED <<files, wire, sent, left, world>>

(* A header is read as the frame that it begins; out of step with the client
   it may read as anything. *)
ReadsAs(hdr) ==
  IF \E j \in DOMAIN world.frames : hdr = Part(j, "hdr", 2)
  THEN {hdr[1][1]} ELSE DOMAIN world.frames

Forget(r) == NoFrame                                                 (* fault *)
Keep(r) == r            \* what is kept of a frame until more of it comes

(* One frame a dispatch: the payload is handed over, the state begins anew. *)
Deliver(r) ==
  /\ delivered' = Append(delivered, Bytes(r))
  /\ recv' = NoFrame
  /\ IF Announced(r).kind = "close" THEN WsClose ELSE Again

Receive(part) ==
  /\ InState("ws") /\ recv.state = part
  /\ LET missing == Expected(recv, part) - Len(recv[part])
     IN  /\ Recv(missing)
         /\ \E j \in IF part = "hdr" /\ Len(Took(missing)) = missing
                     THEN ReadsAs(recv.hdr \o Took(missing)) ELSE {recv.as} :
              LET r == [recv EXCEPT ![part] = @ \o Took(missing), !.as = j]
              IN  \/ /\ ~Complete(r, part)
                     /\ recv' = Keep(r) /\ Again /\ UNCHANGED delivered
                  \/ /\ Complete(r, part) /\ Rejected(r, part)
                     /\ WsClose /\ UNCHANGED delivered
                  \/ /\ Complete(r, part) /\ ~Rejected(r, part) /\ After(r, part) # "whole"
                     /\ recv' = [r EXCEPT !.state = After(r, part)]
                     /\ Stay /\ UNCHANGED <<sess, delivered>>
                  \/ /\ Complete(r, part) /\ ~Rejected(r, part) /\ After(r, part) = "whole"
                     /\ Deliver(r)
  /\ WsQuiet

(* EAGAIN, also between two parts of a frame; end of file or an error. *)
WsRetries ==
  /\ InState("ws") /\ NothingToRead
  /\ Again /\ UNCHANGED <<recv, delivered, net, pending>> /\ WsQuiet
WsEnds ==
  /\ InState("ws") /\ EndOfInput
  /\ WsClose /\ UNCHANGED <<delivered, net, pending>> /\ WsQuiet

(* ------------------------------------------------------------------ spec *)

Init == HttpInit /\ recv = NoFrame /\ delivered = <<>>
WsStep == WsRetries \/ WsEnds \/ \E part \in Parts : Receive(part)
Next == WsStep \/ ((HttpStep \/ ClientStep) /\ UNCHANGED <<recv, delivered>>)
Spec == Init /\ [][Next]_vars
===============================================================================
