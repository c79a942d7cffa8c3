------------------------------- MODULE BodyGuard ------------------------------
(***************************************************************************)
(* The body middleware of gridraft/body_boundary.py scans the bytes of a   *)
(* request in whatever pieces the server hands it, before any of them is   *)
(* parsed.  The client writes JSON token by token, so that the nesting it  *)
(* means is known.  The text is UTF-8, in which the bytes of a quote, a    *)
(* bracket and a backslash stand for nothing else; json.loads would take   *)
(* UTF-16 and UTF-32 too, of which the scan says nothing.  That the pieces *)
(* are then replayed is left out.                                          *)
(***************************************************************************)
EXTENDS Integers, Sequences

CONSTANTS
  ByteLimit,   \* limit
  DepthLimit,  \* 32
  WireMax      \* bound: the client waits while more bytes are on the wire

ASSUME GuardAssumption == ByteLimit \in Nat /\ DepthLimit \in Nat /\ WireMax \in Nat

VARIABLES
  client,    \* what the client means: bytes, depth, deepest, in a string, at the end
  wire,      \* bytes written and not yet scanned
  guard,     \* size, bytes left of the piece, more_body; depth, in_string, escaped
  verdict    \* what became of the request

guardVars == <<client, wire, guard, verdict>>

GuardInit ==
  /\ client = [bytes |-> 0, depth |-> 0, deepest |-> 0, quoting |-> FALSE, ended |-> FALSE]
  /\ wire = <<>>
  /\ guard = [size |-> 0, left |-> 0, more |-> TRUE,
              scan |-> [depth |-> 0, inString |-> FALSE, escaped |-> FALSE]]
  /\ verdict = "reading"

-------------------------------------------------------------------------------
(* The client.  Inside a string brackets are text, and a quote or a        *)
(* backslash is written with a backslash before it.                        *)

Texts == {<<"plain">>, <<"open">>, <<"close">>, <<"backslash", "quote">>,
          <<"backslash", "backslash">>}

(* Bounds: a client writes at most one token past each limit.              *)
Write(bytes) ==
  /\ verdict = "reading" /\ ~client.ended
  /\ Len(wire) <= WireMax /\ client.bytes <= ByteLimit
  /\ wire' = wire \o bytes
  /\ UNCHANGED <<guard, verdict>>

Wrote(bytes) == [client EXCEPT !.bytes = @ + Len(bytes)]

WriteOpen ==
  /\ ~client.quoting /\ Write(<<"open">>)
  /\ LET deeper == client.depth + 1
     IN  client' = [Wrote(<<"open">>) EXCEPT !.depth = deeper,
                      !.deepest = IF deeper > @ THEN deeper ELSE @]

WriteClose ==
  /\ ~client.quoting /\ client.depth > 0 /\ Write(<<"close">>)
  /\ client' = [Wrote(<<"close">>) EXCEPT !.depth = @ - 1]

WriteQuote ==
  /\ Write(<<"quote">>)
  /\ client' = [Wrote(<<"quote">>) EXCEPT !.quoting = ~@]

WriteText ==
  /\ client.quoting
  /\ \E t \in Texts : Write(t) /\ client' = Wrote(t)

EndBody ==
  /\ verdict = "reading" /\ ~client.ended
  /\ client' = [client EXCEPT !.ended = TRUE]
  /\ UNCHANGED <<wire, guard, verdict>>

-------------------------------------------------------------------------------
(* The middleware.                                                         *)

ScanByte(s, byte) ==
  IF s.inString
  THEN [s EXCEPT !.escaped = ~@ /\ byte = "backslash",
                 !.inString = s.escaped \/ byte # "quote"]
  ELSE [s EXCEPT !.inString = byte = "quote",
                 !.depth = CASE byte = "open" -> @ + 1
                             [] byte = "close" /\ @ > 0 -> @ - 1
                             [] OTHER -> @]

(* Faulty: an escape is forgotten where a piece ends.                      *)
PieceAfresh(n, more) ==
  [guard EXCEPT !.size = @ + n, !.left = n, !.more = more, !.scan.escaped = FALSE]

Piece(n, more) == [guard EXCEPT !.size = @ + n, !.left = n, !.more = more]

Scanned(byte) == [guard EXCEPT !.left = @ - 1, !.scan = ScanByte(@, byte)]

Waiting == verdict = "reading" /\ guard.left = 0

(* The last piece, scanned to its end, hands the request on.               *)
Onward(g) == IF g.left = 0 /\ ~g.more THEN "passed" ELSE "reading"

(* The server delivers a piece, empty ones included; the last one says so. *)
(* Its size is looked at before any of it is scanned.                      *)
Receive(n, more) ==
  /\ Waiting
  /\ ~more => client.ended /\ n = Len(wire)
  /\ guard' = Piece(n, more)
  /\ verdict' = IF guard'.size > ByteLimit THEN "too large" ELSE Onward(guard')
  /\ UNCHANGED <<client, wire>>

(* The scan stops at the first byte that is too deep.                      *)
ScanNextByte ==
  /\ verdict = "reading" /\ guard.left > 0
  /\ guard' = Scanned(Head(wire))
  /\ verdict' = IF guard'.scan.depth > DepthLimit THEN "too deep" ELSE Onward(guard')
  /\ wire' = Tail(wire)
  /\ UNCHANGED client

(* http.disconnect: nothing is answered and the application never starts.  *)
Vanish ==
  /\ Waiting
  /\ verdict' = "gone"
  /\ UNCHANGED <<client, wire, guard>>

GuardNext ==
  \/ WriteOpen \/ WriteClose \/ WriteQuote \/ WriteText \/ EndBody
  \/ \E n \in 0..Len(wire), more \in BOOLEAN : Receive(n, more)
  \/ ScanNextByte \/ Vanish

GuardSpec == GuardInit /\ [][GuardNext]_guardVars

-------------------------------------------------------------------------------
(* However a JSON body is cut into pieces, in the middle of a string or of *)
(* an escape, the middleware refuses it for its nesting only if the client *)
(* nested too deep, for its size only if it is too large, and hands it on  *)
(* only if it is neither (body_boundary.py __call__).                      *)
DepthGuardSound ==
  /\ verdict = "too deep" => client.deepest > DepthLimit
  /\ verdict = "too large" => client.bytes > ByteLimit
  /\ verdict = "passed" => client.deepest <= DepthLimit /\ client.bytes <= ByteLimit
===============================================================================
